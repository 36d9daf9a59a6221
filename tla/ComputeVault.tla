----------------------------- MODULE ComputeVault -----------------------------
(* TelligenceComputeVault.sol: a project's endowment at Venice.  The vault     *)
(* takes VVV from its policy, stakes and locks it, mints DIEM against it and   *)
(* stakes the DIEM; from an announced closure on it unwinds that position and  *)
(* returns all VVV to the project's reserve through the policy.  A call is one *)
(* transaction: it happens as a whole or reverts.  The calls the policy makes  *)
(* are operators here and become actions in ProjectPolicy.                     *)
(* Venice's staking and DIEM contracts are external, modelled from the calls   *)
(* of the vault and from contracts/test/helpers/VeniceMocks.sol.  Block time   *)
(* is abstracted to which of the vault's deadlines have passed.                *)
EXTENDS Integers

CONSTANTS
  MaxPrincipal,         \* MAX_PRINCIPAL, the lifetime cap on allocations
  MaxMint,              \* the most DIEM one allocation is minted
  MaxGift,              \* bound: VVV, sVVV or DIEM given by third parties
  MaxReward             \* bound: staking rewards Venice pays

ASSUME VaultAssumption ==
  /\ MaxPrincipal \in Nat \ {0}
  /\ {MaxMint, MaxGift, MaxReward} \subseteq Nat

VARIABLES
  state,                \* TelligenceVaultState
  totalAllocated,
  totalReturned,
  elapsed,              \* the deadlines that have passed
  authEnabled,          \* authenticationEnabled
  authDead,             \* authenticationPermanentlyDisabled
  liquid,               \* VVV.balanceOf(vault)
  staked,               \* STAKING.balanceOf(vault): sVVV
  locked,               \* lockedStakes.sVVVLockedAmount
  debt,                 \* lockedStakes.outstandingDiemAmount
  cooling,              \* stakes.cooldownAmount: VVV on its way out
  rewards,              \* VVV rewards Venice owes the vault
  diem,                 \* DIEM.balanceOf(vault)
  diemStaked,           \* stakedInfos.amountStaked
  diemCooling,          \* stakedInfos.coolDownAmount
  terminalOpen,         \* addToBalanceOf of the project's terminal succeeds
  gifts,                \* bound: what third parties have given
  earned                \* bound: what Venice has paid

vvvVars    == <<liquid, staked, cooling, rewards>>
lockVars   == <<locked, debt>>
diemVars   == <<diem, diemStaked, diemCooling>>
authVars   == <<authEnabled, authDead>>
worldVars  == <<terminalOpen, gifts, earned>>
vaultVars  == <<state, totalAllocated, totalReturned, elapsed, authVars,
                vvvVars, lockVars, diemVars, worldVars>>

States == {"Active", "Notice", "DiemCooldown", "VVVCooldown", "Closed"}
Deadlines == {"notice", "diem", "vvv"}

VaultInit ==
  /\ state = "Active"
  /\ totalAllocated = 0
  /\ totalReturned = 0
  /\ elapsed = {}
  /\ authEnabled \in BOOLEAN
  /\ authDead = FALSE
  /\ liquid = 0 /\ staked = 0 /\ cooling = 0 /\ rewards = 0
  /\ locked = 0 /\ debt = 0
  /\ diem = 0 /\ diemStaked = 0 /\ diemCooling = 0
  /\ terminalOpen = TRUE
  /\ gifts = 0 /\ earned = 0

(******************************* Calls of the policy **************************)
\* Mutant: the vault stakes the promised minimum instead of what was minted.
PositionShort(amount, minted) ==
  /\ totalAllocated' = totalAllocated + amount
  /\ staked' = staked + amount
  /\ locked' = locked + amount
  /\ debt' = debt + minted
  /\ diemStaked' = diemStaked + (IF minted < amount THEN minted ELSE amount)
  /\ liquid' = liquid + rewards
  /\ rewards' = 0

\* Pull, stake, lock, mint and stake the minted DIEM, or nothing of it.  Both
\* staking and minting pay out the rewards, which stay liquid.
Position(amount, minted) ==
  /\ totalAllocated' = totalAllocated + amount
  /\ staked' = staked + amount
  /\ locked' = locked + amount
  /\ debt' = debt + minted
  /\ diemStaked' = diemStaked + minted
  /\ liquid' = liquid + rewards
  /\ rewards' = 0

\* Mutant: the minted amount is not compared with the minimum.
AcceptableAny(minted, minDiemOut) == minDiemOut # 0

Acceptable(minted, minDiemOut) == minDiemOut # 0 /\ minted >= minDiemOut

VaultAllocate(amount, minDiemOut) ==
  /\ state = "Active"
  /\ amount # 0
  /\ amount <= MaxPrincipal - totalAllocated
  /\ diemCooling = 0
  /\ \E minted \in 0..MaxMint :
       Acceptable(minted, minDiemOut) /\ Position(amount, minted)
  /\ UNCHANGED <<state, totalReturned, elapsed, authVars, cooling, diem,
                 diemCooling, worldVars>>

VaultAnnounceWinddown ==
  /\ state = "Active"
  /\ state' = "Notice"
  /\ elapsed' = elapsed \ {"notice"}
  /\ UNCHANGED <<totalAllocated, totalReturned, authVars, vvvVars, lockVars,
                 diemVars, worldVars>>

\* TelligenceVeniceAuth: the policy may pause and resume authentication until
\* the vault disables it for good.  Signers and generations are SignerKeys'.
VaultSetAuthenticationEnabled(enabled) ==
  /\ ~ authDead
  /\ authEnabled' = enabled
  /\ UNCHANGED <<state, totalAllocated, totalReturned, elapsed, authDead,
                 vvvVars, lockVars, diemVars, worldVars>>

(*************************** Calls anybody may make ***************************)
Authenticates ==
  /\ authEnabled
  /\ ~ authDead
  /\ state = "Active" \/ (state = "Notice" /\ "notice" \notin elapsed)

\* Mutant: no announcement is required; noticeEndsAt is zero before it.
BeginDiemUnstakeUnannounced ==
  /\ state \in {"Active", "Notice"}
  /\ state = "Notice" => "notice" \in elapsed
  /\ state' = "DiemCooldown"
  /\ authEnabled' = FALSE
  /\ authDead' = TRUE
  /\ diemStaked' = 0
  /\ diemCooling' = diemStaked
  /\ elapsed' = elapsed \ {"diem"}
  /\ UNCHANGED <<totalAllocated, totalReturned, vvvVars, lockVars, diem,
                 worldVars>>

CanBeginDiemUnstake ==
  state = "Notice" /\ "notice" \in elapsed /\ diemCooling = 0

BeginDiemUnstake ==
  /\ CanBeginDiemUnstake
  /\ state' = "DiemCooldown"
  /\ authEnabled' = FALSE
  /\ authDead' = TRUE
  /\ diemStaked' = 0
  /\ diemCooling' = diemStaked
  /\ elapsed' = elapsed \ {"diem"}
  /\ UNCHANGED <<totalAllocated, totalReturned, vvvVars, lockVars, diem,
                 worldVars>>

\* _beginVVVUnstake: all sVVV that is not locked starts its cooldown, and
\* Venice pays the rewards on the way.
UnstakeUnlocked(unlocked) ==
  /\ state' = "VVVCooldown"
  /\ staked' = staked - unlocked
  /\ cooling' = unlocked
  /\ elapsed' = elapsed \ {"vvv"}

CanClaimDiemAndBeginVVVUnstake ==
  /\ state = "DiemCooldown"
  /\ diemStaked = 0
  /\ diemCooling # 0 => "diem" \in elapsed
  /\ diem + diemCooling >= debt
  /\ debt = 0 => locked = 0
  /\ cooling = 0

\* Burning the whole debt at once frees every rounding unit of the lock.
ClaimDiemAndBeginVVVUnstake ==
  /\ CanClaimDiemAndBeginVVVUnstake
  /\ diem' = diem + diemCooling - debt
  /\ diemCooling' = 0
  /\ locked' = 0
  /\ debt' = 0
  /\ UnstakeUnlocked(staked)
  /\ IF debt # 0 \/ staked # 0
       THEN liquid' = liquid + rewards /\ rewards' = 0
       ELSE UNCHANGED <<liquid, rewards>>
  /\ UNCHANGED <<totalAllocated, totalReturned, authVars, diemStaked, worldVars>>

\* _returnLiquidVVV with `amount` liquid: the policy pulls it and adds it to
\* the reserve; a failing terminal reverts the whole transaction.
Returned(amount) ==
  /\ amount # 0 => terminalOpen
  /\ totalReturned' = totalReturned + amount
  /\ liquid' = 0

\* Mutant: the vault closes without finalizing the cooldown.
ClaimVVVUnfinalized ==
  /\ state = "VVVCooldown"
  /\ state' = "Closed"
  /\ Returned(liquid)
  /\ UNCHANGED <<totalAllocated, elapsed, authVars, staked, cooling, rewards,
                 lockVars, diemVars, worldVars>>

CanClaimVVVAndReturn ==
  state = "VVVCooldown" /\ (cooling # 0 => "vvv" \in elapsed)

ClaimVVVAndReturn ==
  /\ CanClaimVVVAndReturn
  /\ cooling' = 0
  /\ state' = "Closed"
  /\ Returned(liquid + cooling)
  /\ UNCHANGED <<totalAllocated, elapsed, authVars, staked, rewards, lockVars,
                 diemVars, worldVars>>

CanRecoverDonatedStake ==
  state = "Closed" /\ staked - locked # 0 /\ cooling = 0

RecoverDonatedStake ==
  /\ CanRecoverDonatedStake
  /\ UnstakeUnlocked(staked - locked)
  /\ liquid' = liquid + rewards
  /\ rewards' = 0
  /\ UNCHANGED <<totalAllocated, totalReturned, authVars, lockVars, diemVars,
                 worldVars>>

\* Mutant: the balance is read before the rewards are claimed.
ClaimRewardsReturnLiquid ==
  /\ liquid + rewards # 0
  /\ Returned(liquid)
  /\ rewards' = 0
  /\ UNCHANGED <<state, totalAllocated, elapsed, authVars, staked, cooling,
                 lockVars, diemVars, worldVars>>

ClaimRewardsAndReturn ==
  /\ liquid + rewards # 0
  /\ Returned(liquid + rewards)
  /\ rewards' = 0
  /\ UNCHANGED <<state, totalAllocated, elapsed, authVars, staked, cooling,
                 lockVars, diemVars, worldVars>>

ReturnLiquidVVV ==
  /\ liquid # 0
  /\ Returned(liquid)
  /\ UNCHANGED <<state, totalAllocated, elapsed, authVars, staked, cooling,
                 rewards, lockVars, diemVars, worldVars>>

(********************************* The outside ********************************)
\* Anybody may transfer VVV or DIEM to the vault, and Venice lets anybody
\* stake VVV for it, which also pays its rewards.
Give ==
  /\ gifts < MaxGift
  /\ gifts' = gifts + 1
  /\ \/ liquid' = liquid + 1 /\ UNCHANGED <<staked, rewards, diem>>
     \/ diem' = diem + 1 /\ UNCHANGED <<liquid, staked, rewards>>
     \/ /\ staked' = staked + 1
        /\ liquid' = liquid + rewards
        /\ rewards' = 0
        /\ UNCHANGED diem
  /\ UNCHANGED <<state, totalAllocated, totalReturned, elapsed, authVars,
                 cooling, lockVars, diemStaked, diemCooling, terminalOpen,
                 earned>>

Reward ==
  /\ staked > 0
  /\ earned < MaxReward
  /\ earned' = earned + 1
  /\ rewards' = rewards + 1
  /\ UNCHANGED <<state, totalAllocated, totalReturned, elapsed, authVars,
                 liquid, staked, cooling, lockVars, diemVars, terminalOpen,
                 gifts>>

Waiting(deadline) ==
  /\ deadline \notin elapsed
  /\ \/ deadline = "notice" /\ state = "Notice"
     \/ deadline = "diem" /\ diemCooling # 0
     \/ deadline = "vvv" /\ cooling # 0

\* A deadline that is running ends.
Elapse(deadline) ==
  /\ Waiting(deadline)
  /\ elapsed' = elapsed \union {deadline}
  /\ UNCHANGED <<state, totalAllocated, totalReturned, authVars, vvvVars,
                 lockVars, diemVars, worldVars>>

Terminal ==
  /\ terminalOpen' = ~ terminalOpen
  /\ UNCHANGED <<state, totalAllocated, totalReturned, elapsed, authVars,
                 vvvVars, lockVars, diemVars, gifts, earned>>

(********************************* Properties *********************************)
TypeOK ==
  /\ state \in States
  /\ totalAllocated \in 0..MaxPrincipal
  /\ {totalReturned, liquid, staked, cooling, rewards} \subseteq Nat
  /\ {locked, debt, diem, diemStaked, diemCooling} \subseteq Nat
  /\ elapsed \subseteq Deadlines
  /\ authEnabled \in BOOLEAN /\ authDead \in BOOLEAN /\ terminalOpen \in BOOLEAN
  /\ {gifts, earned} \subseteq Nat

\* Whatever was minted and whatever strangers sent, the calls of the recovery
\* never revert for good: the DIEM that can be gathered covers the whole debt
\* (claimDiemAndBeginVVVUnstake burns it at once), no DIEM is left staked, no
\* lock is left without a debt that frees it, and no older VVV cooldown is in
\* the way of _beginVVVUnstake.
RecoveryNeverBlocked ==
  /\ diem + diemStaked + diemCooling >= debt
  /\ debt = 0 => locked = 0
  /\ locked <= staked
  /\ state \in {"DiemCooldown", "VVVCooldown", "Closed"} => diemStaked = 0
  /\ state # "VVVCooldown" => cooling = 0
  /\ state \in {"Active", "Notice"} => diemCooling = 0

\* As long as the vault can authenticate at Venice, all DIEM it owes is staked
\* there: inference is never offered on backing that is on its way out.
ServesOnlyWhileBacked ==
  Authenticates => diemStaked = debt /\ diemCooling = 0 /\ cooling = 0

\* A closed vault has returned at least everything the policy ever allocated,
\* also while later gifts are recovered.
ClosedReturnsPrincipal == state = "Closed" => totalReturned >= totalAllocated
==============================================================================
