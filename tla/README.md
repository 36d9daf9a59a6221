# Telligence: TLA+ models and proofs

Telligence lets a project on Base fund a compute vault whose DIEM stake grants a daily credit at an
inference provider (Venice). A gateway spends that credit on behalf of API keys, a private signer
authenticates it, a control worker observes the credit and drives the vault's on-chain operations.
The program's hard problem is **ambiguous spend**: a paid request whose outcome is unknown must never
be refunded, repeated or forgotten, whichever process dies, in whatever order the answers arrive. The
modules here state that, check it on small instances with TLC, and prove the core of it with TLAPS. Around it
the same is done for the keeper's on-chain jobs, the endowment's contracts, the keys that authenticate for a
vault, the activation of a project and the one place where the website pays for something that must not be
paid twice.

Paths below are relative to the repository. `PROJECT.json` maps every definition to its lines.

## 1. The system

| Component | Code | State | Operations | Makes it correct |
|---|---|---|---|---|
| Gateway, request lifecycle | `services/gateway/{inference,store,server}.mjs` | `usage_reservations`, `gateway_instances`; per request an abort signal, one finish | reserve, sign, markDispatched, fetch, note identity, finish; heartbeat, recover, drain | nothing sent is released; a charge within the quote is debited; a handler ends; orphans are resolved |
| Gateway, admission | `store.mjs` `reserve` | rows, `provider_bindings`, `api_keys`, `projects` | reserve under the project lock | the provider's credit and every limit cover the open maxima, across midnight and refreshes |
| Gateway, reconciliation | `services/gateway/reconcile.mjs` | `usage_reconciliations` | retain-maximum, retain-unproven | never refunds, never overrides a settled row, once per row |
| Gateway, canary | `services/gateway/canary.mjs` | `canary_runs`, `canary_verified_at` | prepare, submit, complete | one paid canary per generation, activation only on a measured debit |
| Gateway, registration and sync | `app.mjs`, `authentication.mjs`, `registry.mjs` | `provider_bindings`, `signer_preparations` | register, synchronize | a binding is a state the vault had, never an older one; one signer, one project |
| Gateway, sessions and keys | `app.mjs` | challenges, sessions, keys | challenge, verify, issue, revoke | a challenge is used once; only the owner issues keys |
| Control worker, keeper | `services/control-worker/{worker,postgres,runtime}.mjs` | `worker_jobs`, `worker_tx_intents`, `worker_project_leases` | plan, claim, sign, broadcast, follow, audit | one nonce per job, none skipped; no signing around an unfinished job; ended is true |
| Control worker, planner | `chain.mjs` `plan` | none | choose the next call of the vault or policy | a closure, once announced, completes and everything comes back |
| Control worker, capacity | `capacity.mjs`, `runtime.mjs`, `postgres.mjs` | the observation in `provider_bindings`, `worker_capacity_evidence`, `projects.status` | refresh, withdraw, reconcile status | an observation never hides spending and is evidence for its own generation |
| Auth signer | `services/auth-signer/*.mjs` | `signer_preparations`, encrypted keys | prepare, sign, rotate | a signature needs an undispatched reservation; every bound key stays readable |
| Database | `services/db/*` | schema, roles, restore checkpoint | migrate | constraints and roles |
| Contracts | `contracts/src/*.sol` | vault state, allocation cap, generations, balances | allocate, announce, unstake, claim, return, pause | conservation, recovery never blocked, fixed destinations, no revoked envelope returns |
| Website, Relayr funding | `web/src/hooks/useReviewedRelayr.ts`, `web/src/lib/transaction-activity.ts` | activity rows in browser storage, a tab's memory | sign, publish, quote, pay, check | an operation is authorized once at a nonce and paid once |
| Website, the rest | `web/src` | pending launch; page state | launch, recover, read | reviewed writes; presentation otherwise |

They interact through PostgreSQL, the chain and the network: the gateway asks the signer, which reads the
gateway's row; the worker writes the observation the gateway's admission reads; worker, canary and
synchronization write one binding row; worker and gateway take the same project row lock; operator tools
write the rows gateway handlers own; the keeper's transactions move the stake that the observation measures;
creators move the vault's generation that bindings are made of.

What is hard: every `await` of a handler is a point where the process may die, the client leave, the
deadline fire or another process act on the same row; a database call may commit and lose its answer;
a wallet or Relayr may take a request and lose its answer; clocks, UTC days, chain branches and vault
generations change between a read and its use. `PROJECT.json` lists these hazards with the property that
covers each.

## 2. Modules

| Module | Models | Reads as |
|---|---|---|
| `ReservationLedger` | what the ledger promises about one row: admitted, sent at most once, charged, settled, held, released, retained | abstract specification |
| `RequestLifecycle` | handler, database calls, processes, recovery, operator | implements `ReservationLedger` |
| `Budget` | what a daily budget promises: a request takes its maximum when admitted within every limit, gives back only by finishing normally, and midnight frees only closed requests | abstract specification |
| `CreditLedger` | admission against budgets and the observed balance, closing rows, retentions, UTC days, capacity readings | implements `Budget` |
| `Keeper` | jobs, leases, nonces, broadcasts, receipts, finality and audit by several workers on a reorganising chain | component specification |
| `Custody` | what an endowment promises: a cap, no way back from a closure, the principal in the reserve when closed | abstract specification |
| `ComputeVault` | the calls of the vault as transactions over its balances at Venice | component operators |
| `ProjectPolicy` | the policy over the vault: EXTENDS `ComputeVault` and makes the system's `Next` | implements `Custody` |
| `Planner` | the keeper's plan over both contracts, and its fairness: EXTENDS `ProjectPolicy` | composition |
| `SignerKeys` | vault generations, preparations, bindings, registration, synchronization, encryption keys | component specification |
| `Activation` | project status, binding and canary run between capacity loop, canary, synchronization and operator | component specification |
| `RelayrFunding` | several browser tabs, the shared activity rows, payments, nonces | component specification |
| `ReservationLedgerProofs`, `RequestLifecycleProofs`, `CreditLedgerProofs`, `KeeperProofs`, `ProjectPolicyProofs`, `SignerKeysProofs`, `ActivationProofs`, `RelayrFundingProofs` | theorems of the module each EXTENDS | proofs |
| `MC...` | constants, symmetry and bounds for TLC | |

### RequestLifecycle

One row is one request. `state`, `charged`, `dispatched`, `identity`, `owner` and `reconciled` are columns
of the row (and its evidence); `silent` and `stopped` are the two facts recovery reads of a
`gateway_instances` row. `pc` is where the handler waits. A database call the handler may abandon
(`mark`, `note`) is a variable of its own: the handler issues it, the *database* takes it later, whether
or not the handler still waits or its process still lives, and its answer may be lost after the commit.
`finish` is issued once, with the verdict the code computes (`started ? "uncertain" : "released"`). The
actions and the code: `Arrive`/`Reserve`/`Refuse` are `store.reserve` with its heartbeat in the same
transaction; `Sign` is the signer's row check joined with the call of `markDispatched`, whose UPDATE looks at
the row again; `Send` is
`started = true; fetch` (no await between); `Answer` and `Fail` are the two ends of the `try`;
`SelectOrphans` and `RecoverOrphan` are the unlocked selection and the per-row transaction of
`recoverOrphans`; `ReadProof` and `Reconcile` the two halves of `--retain-maximum`. A restart is a new
instance, as in the code. The refinement is explicit: `Ledger == INSTANCE ReservationLedger WITH ...`.

### CreditLedger

Every writer takes the project's row lock, so each transaction is one action; what stays concurrent is
the capacity reading, which spans an HTTP call: `StartReading` (the stamp), `ReadBalance` (the balance),
`Observe` (stored if later than the stored one), `MarkCapacityUnavailable` (a deadline withdraws the
observation while the abandoned reading goes on). The sums are those of the admission query. Time is in
ticks; `Tick` at the end of a day gives the provider's new credit.

The provider may charge a row while it is open (`ProviderCharges`) or after the gateway has settled it or the
operator has kept its maximum (`ProviderChargesLate`): `retainUnprovenReservation` needs no proof of metering
(`RetainUnproven`), `reconcileReservation` does (`Retain`). What was charged late today is `belated`. A late charge
may find the day's credit promised away, `left` may then go below zero, and a balance below zero is refused
(`capacity.mjs`). `Solvent` therefore says what the gateway can answer for: the credit is short of the open
maxima by no more than `belated`.

`Promise == INSTANCE Budget WITH ...` maps a row to its phase (`PhaseOf`) and to what it takes of the *present*
day: `SpentBy(r, Today)`, the row's debit if its epoch is today or it is open, and the maximum of a retention row
of today. `Budget` knows neither epochs nor retention rows, so the refinement says that these two devices of the
code do what they are for: a retention takes exactly what the open row took (`Keep` leaves `takes` alone), and
the change of the epoch frees what closed requests took and nothing else (`Midnight`).

### Keeper

A worker runs one tick at a time and each await is a step. `lease[p]` is the owner, `None` once
`lease_until` has passed; because a fence grows with every claim, "owner and fence match" is "the lease
is still this worker's". The chain is the sequence of the keeper's transactions in nonce order with the
branch each is on, and how many are finalized. `Confirmed` compares the transaction's place in that sequence with
what is final where the code compares the receipt's height with the finalized head (`worker.mjs` 69-72); the two
agree under the timing assumption of section 3. What reconcile writes and what the catch block writes
over it after an error are separate steps (`Write`, `WriteFails`, `WithdrawFails`).

### ComputeVault, ProjectPolicy, Custody, Planner

A call of a contract is one transaction: it happens as a whole or reverts, so a call is one action whose
guard is the conjunction of every `require` and every call that could revert inside it. `ComputeVault` has
the vault's storage and its balances at Venice (liquid, staked, locked, cooling VVV; owed, held, staked,
cooling DIEM; unclaimed rewards). Venice is external: its behaviour is what the vault calls and what
`contracts/test/helpers/VeniceMocks.sol` shows (staking and minting pay out rewards; a whole lock is freed
by burning the whole debt). The three deadlines are in `elapsed` once passed. `ProjectPolicy` conjoins the
policy's own half to the vault's operator for a nested call (`Allocate`, `AnnounceWinddown`), and
`Passing(call)` is the vault's `returnToRevnet` callback, which reverts with the terminal. Strangers give
VVV, stake or DIEM (`Give`), and the terminal may refuse (`Terminal`).

`Promise == INSTANCE Custody WITH ...` maps vault states to four phases, `committed` to `totalAllocated`,
`held` to the vault's VVV in all its forms and `delivered` to `totalReturned`. `Planner` is `BaseChain.plan`:
the call the keeper submits for the state it sees, in the order of the code's list. Project tokens come to the
policy directly or wait at the controller (`pending`) until somebody calls `sendReservedTokensToSplitsOf`
(`DistributeProduction`, of which the policy gets any share); the plan names that call where the code does,
once while investing and once, after burning, before loose VVV is returned. `attended` says whether the project is planned for at all:
`listKeeperProjects` leaves out suspended projects (`postgres.mjs` 215) and `planProject` one with a quarantined
job (54-56). `Attend` changes it at any time.

### SignerKeys

`vault` holds signer, generation, switch and permanent shutdown of `TelligenceVeniceAuth.sol`; `reign` is the
history of which signer each generation had, that is, of every envelope that could have been issued, and
`Valid` is `isValidSignature`. A registration or synchronization is a process `calls[c]`: it reads
(`StartRegister`, `StartSync`; the ciphertext is read here), proves the vault's state (`Verify`) and commits one
transaction (`CommitRegister`, `CommitSync`). `Verify` is one instant although the code reads the confirmed and
the latest block: both must show one generation, and a generation never returns, so nothing changed in between.
`CommitSync` writes the binding when it differs from the proof and also whenever the proof found authentication
switched off (`on`). A ciphertext is the version of the key that encrypts it. The rotation locks bindings first
and preparations later (`LockBindings`, `RotatePreparations`), and the operator follows the runbook (`DeployKey`,
then `LockBindings` and `RemovePrevious`, the two selects of a `--check` that reports nothing; the removal itself
is one step with the second).

### Activation

Two database rows and the canary's record, four writers. `attempts[a]` is a `refreshProject` that may
outlive the loop that started it (`Deadline` makes `loop` go on while the attempt does too); `canaries[c]` a
`runCanary` at one of its awaits; `sync` a proven, not yet committed synchronization. A generation has one
signer and one setting of the switch (`SignerKeys`), so the generation stands for both. `live[g]` remembers
when generation g last had its switch on and `paid[g]` how often Venice metered its canary: the history the
properties compare the rows with. A canary's reading of the chain's evidence and of the balance is one step
(`ReadCapacity`); the capacity loop's, which may be abandoned between the two, are `StartRefresh` and `ReadBalance`.
`Storable` leaves out that `updateProviderCapacity` stores
nothing for a project with a quarantined job, which is `Keeper`'s `Refreshable`: more is stored than in the code.

### RelayrFunding

`rows[o]` is the bundle's activity in browser storage (its payment status, its funding hash, whether it is
done), `publications` the operations whose signatures went out without a quote yet; `tabs[t]` is what a tab
is doing and remembers, lost by `Close`. `nonces[o]` is the forwarder's nonce an operation was signed for. `Send`,
`Decline` and `LoseWallet` are the three answers of a wallet, the last with or without a broadcast.
`requireUnfunded` is `Authorizable` before signatures and `Unfunded` before a payment. `Locks` says whether
the browser has `navigator.locks`; the code falls back to no lock at all without it. `Submit` joins the simulation
of the destination calls (`useReviewedRelayr.ts` 1061-1078), which is awaited, with the check and the record that
follow it without an await (1081-1102). As only one operation fits the nonce (`AuthorizedOnce`), what can happen in
between is the execution of this very operation, which `PaidIsExecutable` allows as it does right after the record.

## 3. Runs

| Run | Checks | Expect | States |
|---|---|---|---|
| `request_lifecycle` | `ReleasedNeverSent`, `DebitCoversCharge`, `SettledCostStands`, `RunningRowsUntouched`, refinement `LedgerSpec`; under fairness `HandlerEnds`, `OrphansResolved` | pass | 226 981 |
| `credit_ledger` | `Solvent`, `LimitsHold`, `RetentionFreesNothing`, refinement `BudgetSpec` | pass | 952 232 |
| `keeper` | `NoRevival`, `EndedIsTrue`, `EndedStays`, `QuarantineCloses` | pass | 2 332 436 |
| `keeper_progress` | `NoncesSerial`, `JobsEnd` under fairness | pass | 272 656 |
| `endowment` | `RecoveryNeverBlocked`, `ServesOnlyWhileBacked`, `ClosedReturnsPrincipal`, `NothingLost`, `ClosureNeverStuck`, refinement `PromiseKept`; under fairness `ClosureCompletes`, `EverythingComesBack` | pass | 313 320 |
| `signer_keys` | `BindingWasOnChain`, `SignersApart`, `RevokedStaysRevoked`, `BindingNeverGoesBack` | pass | 1 114 960 |
| `activation` | `ReadyIsEvidenced`, `VerifiedIsProven`, `ProvenStaysVerified`, `CanaryPaysOnce`, `SuspendedStays` | pass | 799 974 |
| `relayr_funding` | `AuthorizedOnce`, `PaidOnce`, `PaidIsExecutable` | pass | 396 640 |
| `live_rows` | `LiveRowsUntouched` | violation: docs/resilience.md:57-59 | stops at the violation |
| `keeper_quarantine` | `QuarantinedHasNoReceipt` | violation: control-worker/README.md:72 | stops at the violation |
| `key_rotation` | `BindingsReadable` | violation: auth-signer/README.md:18 | stops at the violation |
| `relayr_retry` | `FundedOnce` | violation: web/test/reviewed-relayr-hooks.test.tsx:950 | stops at the violation |

`CHECK_DEADLOCK FALSE` everywhere: requests, days, jobs, payments and generations are finite, and a system
with nothing left to do stops.

### Bounds, and why they are enough

- *request_lifecycle*: one request, because rows interact in this module only through `suspended`, a
  sweep and a drain; two processes, the fewest for which one recovers the other's row and the two
  recover concurrently. `MaxAmount = 2`, `Charges = {1, 3}`: a charge below the reservation and one above
  it (the bound violation). `MayMissHeartbeats = TRUE` lets a running process look dead. Rows written before
  instances were tracked (`Legacy`) rest on the proofs of section 5, which hold for every set of them and
  all other values.
- *live_rows*: `MayMissHeartbeats = FALSE`: a running process heartbeats within 60 s (every 5 s). This is what
  the doc means by a live instance, so the violation does not rest on a lost database.
- *credit_ledger*: three requests of two keys whose limits bind (`k1` 3, `k2` 4, credit 4, maxima 2, one
  slot), two days of two ticks, grace one tick, one reader under way. `Margin = 0` because a safety margin
  only hides a shortfall. `ReadingsMatter` ends readings once every request was admitted: an observation is used
  by admissions only.
- *keeper*: two jobs of one project and two workers: the fewest for which a job can be signed around
  another and a stale worker can write over a newer one. `MaxFaults = 1` is one fault of any kind at any
  point; one reorganisation; one break of finality. *keeper_progress*: two projects sharing the nonce,
  one worker, one fault.
- *endowment*: a principal of two, so that an allocation can be partial and repeated; a mint of up to two
  against floors of one and two, so that it is short, exact or in excess; one gift (in any of its forms and
  at any time) and one reward; batches of one token bringing up to two VVV; one project token at a time, with the
  policy or pending at the controller (`MaxProduction`), again and again. `OneOutage` lets the terminal or the
  planning fail, not both at once, the latter from the announcement on, which is what the liveness properties
  speak of. The proofs hold for all values.
- *signer_keys*: two projects, two signers and two calls are the fewest for two calls to race for one binding
  and for one signer; three generations, so that a vault is paused and resumed or gets a signer back; two
  encryption keys. `OneCallOnceRotating` admits one call at a time from the first new encryption key on: the race of
  a call with the rotation needs one. `ThirdAlone` lets a vault reach its third generation while the other project is
  not deployed and before the new key: with two vaults at three generations and a rotation the run would
  not end in its time; the proofs have no such bound. *key_rotation* needs one project, signer and call; `QuietCheck` keeps
  registrations that are about to commit out of the check, so that what is shown is not the shorter race of a claim
  between its two selects.
- *activation*: two attempts, so that one is abandoned and a newer one runs, two canaries, one synchronization;
  two generations, both windows zero ticks of a clock of one, so that an observation is either of this tick
  or stale. `Few` keeps two processes at a time besides the synchronization and leaves the canary out once the
  vault winds down, as `runCanary` refuses such a project. The same module without `Few`, with two attempts and
  one canary, has 3.2 million states and passes too.
- *relayr_funding*: two tabs, two operations of one scope, three payments (a payment, its reverted
  predecessor and a possible duplicate), no locks between tabs: the weaker environment. *relayr_retry* has the
  locks, so the violation does not rest on their absence.
- Symmetry is used in safety runs, where the permuted values are interchangeable; runs with liveness
  properties have none.

### Fairness

`RequestLifecycle!Fairness`: the deadline timer fires (`inference.mjs` 194-204); an aborted handler
reaches its catch block (its awaits are raced with the abort); a database call ends one way or the other
(15 s statement timeout); a dead process grows silent; the 30 s sweep runs while a gateway is up; and
strong fairness on one row's recovery says that a row swept again and again is in the end swept by a
transaction that commits. Nothing is assumed of clients, the provider, the operator, starts, shutdowns
or crashes: `OrphansResolved` is conditional on some gateway staying up.

`Keeper!Fairness`: a worker's loop goes on (`scheduler.mjs` never stops on an error), a lease whose
holder is gone runs out, claimable jobs take turns (`ORDER BY next_attempt_at`), and the chain includes
bytes its nodes know and finalizes what it includes. Faults and reorganisations are bounded by their
constants.

`Planner!FairSpec`: time passes the deadlines (weak fairness); the terminal does not refuse for ever; and the
maintenance loop plans and submits again and again, so a planned call that is possible again and again goes
through (strong fairness on `KeeperStep`, which is one step whatever the plan is, the controller's
distribution included). Nobody else is assumed to make any call. `KeeperStep` needs `attended`, and no fairness is
assumed of `Attend`: both liveness properties are conditional on `<>[]attended`, that is, on a project that from
some time on is neither suspended nor has a quarantined job. Until then its closure may stop at any point, any
number of times; it waits for the operator's repair, or for anybody who makes the calls. `EverythingComesBack`
further assumes that project tokens cease to come, and section 4 says why.

### What holds by assumption

`Keeper!Finalize` has a guard that is a timing assumption: Base takes longer to finalize than a lease
lasts (120 s), so a worker that compared a receipt with a branch abandoned since has lost its lease by the
time another inclusion at that nonce is final. Without it the code's three separate reads (receipt, block
hash, finalized head) could call a job finalized on a dead branch.

`CreditLedger` assumes the worker's and PostgreSQL's clocks agree (`Skew = 0`). `observed_at` comes from the
worker's clock (`capacity.mjs` 14, 59) and is compared with `settled_at` of PostgreSQL's: with `Skew = 1` in
`MCCreditLedger.cfg` `Solvent` is violated, since a request settled after the balance was read then counts
as reflected in it.

The provider charges a request at most once and for no more than the row records when it is settled:
`RequestLifecycle!AccountedCosts` and `CreditLedger!Settle` take the cost accounted from the usage of a complete
answer to be at least the charge (`policy.mjs` 183-201 prices all usage at the uncached rates and rounds up), and
a charge after a retention is within the maximum it keeps. A charge above the quote is the bound violation of
`reconcile.mjs` 407-422, which suspends the project.

Nothing reserves credit for a charge that arrives after its row was closed. While no balance has been read since,
`snapshot_debit` still counts the row, and on the day of a retention the budgets do; after a fresh reading, and on
a later day, neither does. "Current capacity is conservative" (`reconcile.mjs` 22-23) and "UTC rollover cannot
erase liabilities" (`INVARIANTS.md` 19) hold of what the rows record, which is `LimitsHold`, `RetentionFreesNothing`
and `BudgetSpec`; of the provider's own credit `Solvent` says that nothing else than such charges can overdraw it.

`ComputeVault` takes Venice's contracts to behave as the mocks show: in particular that nobody but the vault
moves its stake, and that burning the whole debt frees the whole lock.

## 4. What the violations show

- **live_rows**: `shutdown` clears the heartbeat timer and waits up to 130 s; handlers may run for 120 s.
  After 60 s another gateway takes their rows. Nothing sent is released (`ReleasedNeverSent`); the cost is a
  row held at its maximum although its answer was complete, or an admitted request that is refused its marker.
- **keeper_quarantine**: `reconcile` reads the receipt and later the nonce. A transaction mined in between
  is quarantined although its receipt exists.
- **key_rotation**: rotation and its check look at bindings and at unclaimed, unexpired preparations. A
  confirmed deployment may claim its preparation after expiry, and a registration reads the ciphertext before
  it waits for the chain. Removing the previous key in between leaves a binding whose private key can be
  decrypted with neither key. Without `QuietCheck` the run finds a shorter way: a preparation claimed between the two
  selects of the check is in neither.
- **relayr_retry**: after a reverted payment a retry keeps the old hash in the row until the wallet answers.
  If that answer is lost, the next check judges the old transaction again, and a further payment may go out
  while the retry is out. Without a reverted payment in the history this cannot happen (`PaidOnce`).

Two observations that are no runs. The comment at `server.mjs` 62-63 has every reservation of a drained
process settled; `server.close` waits for connections, and a client that left has none while its handler
still owes its outcome. `OrphansResolved` covers such a row. And the keeper's plan burns and distributes late production before
it returns loose VVV (`chain.mjs` 284-287): as long as the project's tokens keep coming to a closed policy, or to the
controller's pending balance, between two plans, the return has to wait.

## 5. What is proved

**The request ledger**, for every set of requests, legacy rows, processes and charges, from
`LifecycleAssumption` only (legacy rows are requests, `NoInstance` is no instance, amounts are positive):

| Theorem | Statement |
|---|---|
| `Typing` | `Spec => []TypeOK` |
| `ReleaseIsProven` | `Spec => []ReleasedNeverSent` |
| `MarkerFirst` | `Spec => []SentWasMarked` |
| `ChargesAreDebited` | `Spec => []DebitCoversCharge` |
| `EvidenceStands` | `Spec => []EvidenceHolds` |
| `SettledAmountStands` | `Spec => SettledCostStands` |
| `RunningRowsStay` | `Spec => RunningRowsUntouched` |
| `LedgerRefined` | `Spec => LedgerSpec` (the refinement) |
| `LedgerTyping`, `LedgerCovers`, `FinalRowsStay` | the same for the abstract ledger, from `LedgerAssumption` |

**The inductive invariant.** `ReleasedNeverSent` is not inductive: a released row could still have a handler
on its way to `Send`. `IInv` in `RequestLifecycleProofs` is `TypeOK` and, for each request, four named parts.
`RowInv` relates the columns of the row and the charge (a row not settled has no amount, evidence goes with
the maximum, a charge needs a request that was sent). `HandlerInv` bounds a handler that may have outlived its
row: nothing is sent before control reaches the provider call, an answer `ok` of the marker call means the
marker committed, and, the key conjunct, *a handler still waiting for its marker whose row is dispatched has
a row that was not released*: the marker commits on a reserved row only, and recovery releases an undispatched
one only. (A released row may well be dispatched: the marker's answer was lost and the handler released the
row itself, never having sent.) `OutcomeInv` says the same of the verdict about to be written: `released` only if
unsent, `settled` only with a cost at least the charge, which stands because the provider charges once.
`LegacyInv` keeps rows without an instance out of the hands of handlers and of release.

One lemma shows that each action of a request keeps these for that request (`RequestKeeps`), others that they
are kept for the requests it does not touch (`OthersSame`, `SameKeeps`) and by the actions of processes
(`ProcessKeeps`); the refinement (`RequestRefines`, `ProcessRefines`) and `SettledAmountStands` use the
invariant on the state before a step. `RunningRowsStay` needs one fact more, `StoppedInv`: an instance that wrote
`stopped_at` is past its drain.

**The daily credit**, for every finite set of requests, any keys, limits, amounts, margins, graces, day lengths
and readers, from `CreditAssumption`:

| Theorem | Statement |
|---|---|
| `BudgetsHold` | `Spec => []LimitsHold` |
| `RetentionIsNeutral` | `Spec => RetentionFreesNothing` |
| `BudgetImplemented` | `Spec => BudgetSpec` (the refinement) |
| `CreditIsSolvent` | `Spec => []Solvent`, when `Skew = 0` |
| `CoverIsInvariant` | `Spec => []CoverInv`, when `Skew = 0` |
| `CreditTypes` | `Spec => []TypeOK`, when `Skew = 0` |

The first three hold for clocks that disagree by any amount: they speak of rows alone, whose times are all
PostgreSQL's. The last three need synchronized clocks ("What holds by assumption"), `CreditTypes` because
`Covered \in 0..DailyCredit` says that the provider is asked for more than it has by no more than `belated`.

`LedgerInv` adds to the limits what the columns of a row say together (`Consistent`): a retention row stands
beside a settled row only, no epoch lies in the future, a settled amount covers the charge. `LimitsHold` is then
kept because what a row takes of a day only grows by its own admission, which looks at the sums; and at
midnight an open row takes in the new day what it took in the old, while everything closed takes nothing.

`Solvent` is far from inductive: a row may settle below its maximum between a reading and its arrival, and
admission looks at the arrived balance. `CoverInv` says what a balance of today can still be wrong about, when it is stored
(`ObservationInv`) or still under way (`ReadingInv`, abandoned readings included): it exceeds `Covered` (what is left and
what was charged late today) by at most `LateCharges`, the charges of rows that are open or were closed since the reading began (`Explained`).
Each such row is in `SnapshotDebit` with at least its charge, and an open row with its whole maximum, so an
admission within `WithinCapacity` leaves credit for itself and for every maximum still due (`ReserveCovers`). At
midnight no balance helps: there the cover comes from `LimitsHold`, since every maximum due is part of what is
spent of the new day (`SpentCoversDue`).

The sums are folds over sets, which the library's induction theorems cannot reach. They are proved about by least
counterexample instead: `MinimalSubset` gives a smallest subset on which a claim fails (from well-foundedness of
the naturals, with no operator parameter), and `SumIsSum` gives the function whose value the fold is, so that
`SumNat`, `SumBound`, `SumMonotonic`, `SumPoint` (one summand changes) and `SumOfEqual` hold for every finite set.

**The endowment**, for every cap, batch size, floor, mint, gift, reward and project token, from `VaultAssumption`
and `PolicyAssumption`:

| Theorem | Statement |
|---|---|
| `Typing` | `Spec => []TypesOK` |
| `RecoveryIsOpen` | `Spec => []RecoveryNeverBlocked` |
| `ServiceIsBacked` | `Spec => []ServesOnlyWhileBacked` |
| `PrincipalReturns` | `Spec => []ClosedReturnsPrincipal` |
| `LedgersStayEqual` | `Spec => []LedgersAgree` |
| `Conservation` | `Spec => []NothingLost` |
| `Implements` | `Spec => PromiseKept` (the refinement) |
| `ClosureGoesOn` | `Spec => []ClosureNeverStuck` (of `Planner`'s plan) |

The inductive invariant `VaultInv` adds two parts to the types. `DebtFollows`: until the recovery begins all DIEM
owed is staked, then the whole debt cools down at once, and it is gone before any VVV cools down; a lock without
a debt cannot exist, because `allocate` refuses a mint below a nonzero minimum and the floors only rise from a
nonzero start. `PrincipalFollows`: the principal is in the stake until the recovery, then in the cooldown or
returned, and returned once closed; donated stake only adds to it. `IInv` adds that the policy's ledger agrees
with the vault's and that nothing is lost. The refinement has one lemma per kind of call, each a step of
`Custody` or a stutter; only `Close` needs the invariant.

`ClosureGoesOn` relates two programs: the plan in `chain.mjs` repeats the contracts' conditions on its own, and a
condition it got wrong would leave the principal where it is. From the announcement until everything is in the
reserve, a deadline is running or the call the plan names next is one the contracts accept (the terminal aside).
It takes one more invariant, `PaidOut`: rewards wait only where something is staked, as every call that takes the
whole stake out also has Venice pay, and only a bound policy has announced a closure. `PlanFits` then goes through
the states: `DebtFollows` makes a due claim acceptable, and in a closed vault what is not yet in the reserve is
with the policy, loose, or donated stake, for each of which the plan has a call; the project tokens it burns and
distributes first can be burned and distributed.

**The keeper**, for every finite set of jobs and every set of projects and workers, any number of faults
and reorganisations, from `KeeperAssumption` and `NoneAssumption` (`None` is no number, worker or receipt):

| Theorem | Statement |
|---|---|
| `Typing` | `Spec => []TypeOK` |
| `NoncesStaySerial` | `Spec => []NoncesSerial` |
| `NothingRevives` | `Spec => []NoRevival` |
| `EndsAreTrue` | `Spec => []EndedIsTrue` |
| `EndsStay` | `Spec => EndedStays` |
| `QuarantineStaysClosed` | `Spec => QuarantineCloses` |
| `NoNonceIsAbandoned` | `Spec => []HeadIsFollowed` (defined beside it) |

`IInv` says of each worker what it may believe although it may have lost its lease long ago. `Held` is what
the fence buys: while the lease is the worker's, its job is pending, or the worker itself wrote an end and is
about to write over it. `Sighted` ties the receipt it read to the chain: the receipt is of a branch not later
than the present one, and if a receipt of that branch is there it is the same one; at `final` with the lease
held, a finalized height has this very receipt, which is where the timing assumption of `Finalize` enters.
`Serial` says that the jobs before the one held have ended. Of each job, `Settled` says that an ended job's
transaction is final and that a signed one came after the earlier ones of its project; it and `Sighted` hold
while finality does (`~deepened`), the rest always. `EndedIsTrue` is not inductive without `Sighted`: the three
reads of `reconcile` happen at different times. The nonces are serial because an allocation is one above every
stored one or the chain's own count, and the chain only has stored ones (`NextIsFirstFree`). `HeadIsFollowed`
follows from serial nonces and `Settled`: while finality holds, the nonce the chain waits for next belongs to a
job that workers still follow up, or to a quarantined one; no job ends and leaves a gap before the others.
The keeper's `TypeOK` is proved and stays out of the runs.

**The keys of a vault**, for every set of projects, signers and calls, any number of generations and
encryption keys, from `SignerAssumption`:

| Theorem | Statement |
|---|---|
| `Typing` | `Spec => []TypeOK` |
| `BindingsAreTrue` | `Spec => []BindingWasOnChain` |
| `SignersStayApart` | `Spec => []SignersApart` |
| `BindingsGoForward` | `Spec => BindingNeverGoesBack` |
| `RevocationIsFinal` | `Spec => RevokedStaysRevoked` |

`ReignInv`: an envelope's generation is one its vault has reached, and the present generation has the present
signer; since every change takes a new generation, nothing revoked fits again. `CallInv`: a call with a proof
proved a pair the vault really had, of a generation not before the one it read. `BindingInv` and `ClaimInv`:
a bound signer is claimed by its project and a claim belongs to a bound project, so the claim keeps two
projects apart although each call reads before it writes.

**Activation**, for every number of attempts and canaries, all windows and every life of the vault, from
`ActivationAssumption`:

| Theorem | Statement |
|---|---|
| `Typing` | `Spec => []TypeOK` |
| `ReadinessIsEvidenced` | `Spec => []ReadyIsEvidenced` |
| `VerificationIsProven` | `Spec => []VerifiedIsProven` |
| `ProofsStay` | `Spec => []ProvenStaysVerified` |
| `PaidOnceInAGeneration` | `Spec => []CanaryPaysOnce` |
| `SuspensionStays` | `Spec => SuspendedStays` |

`LiveInv`: a generation has one setting of the switch, so when it was last seen on is known. `Evidence` carries
that through every process that holds an observation, the abandoned ones included, up to the binding. A canary
owns the run of its generation (`CanariesApart`, `CanaryGood`) and knows by its place whether it has paid; a
disabled proof's generation never had its switch on (`SyncInv`), so no completed run belongs to it.

**Relayr funding**, for every set of tabs, finite set of operations and number of payments, with or without
locks, from `FundingAssumption`:

| Theorem | Statement |
|---|---|
| `Typing` | `Spec => []TypeOK` |
| `OneAuthorization` | `Spec => []AuthorizedOnce` |
| `OnePayment` | `Spec => []PaidOnce` |
| `PaymentsExecutable` | `Spec => []PaidIsExecutable` |

A signed operation that was not executed is where `Authorizable` looks, in an open row or a publication
(`OpInv`), so at most one operation fits the forwarder's nonce (`SoleExecutable`). `OnceInv`: while no payment of an operation reverted there is one payment, behind a row that
says so or an execution, or one wallet asked and the row already marked. An executed operation has a payment,
so a row dismissed afterwards cannot be paid again.

**Only model-checked.** Liveness and fairness (`HandlerEnds`, `OrphansResolved`, `JobsEnd`,
`ClosureCompletes`, `EverythingComesBack`) are outside the prover; `ClosureNeverStuck` and `HeadIsFollowed` are
the proved safety halves of the last three: something can always be done, not that it is. Every other property of a
passing run is a theorem. The four violations are counterexamples and have nothing to prove. The proofs rest on the assumptions of section 3,
"What holds by assumption", as the runs do.

## 6. Plan

1. `RequestLifecycle`, `ReservationLedger` and their proofs: done.
2. `CreditLedger`, `Budget` and their proofs: done. `Keeper` and its proofs: done.
3. `ComputeVault`, `ProjectPolicy`, `Custody`, `Planner` and the proofs of the first three: done.
4. `SignerKeys`, `Activation`, `RelayrFunding` and their proofs: done.
5. `RowLocks`: the lock order of the project and the reservation row over all transactions (deadlock).
6. `Pricing`: quote and cost rounding, catalogue expiry.
7. `Sessions`: challenge, session, key issue and revocation.
8. The website's pending launch, and direct and Safe transactions over the same activity rows.

An abstract specification still worth stating: a nonce allocator above `Keeper`.

## 7. Not modelled, and why

The stream's bytes and the SSE parser (a failure at any chunk is `Fail`); HTTP headers, logging and
configuration; the idempotency key, rate limits, key expiry and project status in `reserve` (refusals
without an effect, covered by `Refuse`; status and binding are `Activation`'s); the billing proof's pagination (a
proof exists or not); calldata, bytecode pins and event decoding in `chain.mjs` and `registry.mjs` (the answers
are enumerated); the signed envelope's text and clock window; `setAllocationPaused` of the vault, which its only
permitted caller never calls; the construction of Relayr's calls, gas estimates, previews and quote expiry;
challenges, sessions and key issue (single conditional statements); migrations and roles; manifest tooling;
vendored contracts and generated packages. The rest of the website, by far the largest part of the repository,
is a front end over GraphQL and RPC reads: what it keeps is derived page state, and what it writes goes through
wallets and review dialogs. The mapped lines are therefore a large part of the services and contracts and a small
part of the repository.

## 8. Running

    tlc -workers 2 -config MCKeeper.cfg MCKeeper
    tlapm RequestLifecycleProofs.tla
