------------------------------ MODULE CreditLedger ------------------------------
(***************************************************************************)
(* The daily credit of one project: admission against budgets, the         *)
(* provider's balance as the control worker observed it, the rows that     *)
(* close, the UTC rollover, and the operator's retentions.                 *)
(*                                                                         *)
(* services/gateway/store.mjs           reserve, finish, recoverOrphans    *)
(* services/gateway/reconcile.mjs       retentions, proven and unproven    *)
(* services/control-worker/capacity.mjs readProviderCapacity               *)
(* services/control-worker/postgres.mjs updateProviderCapacity,            *)
(*                                      markCapacityUnavailable            *)
(*                                                                         *)
(* Each of these is one transaction that holds the project's row lock, so  *)
(* each is one action.  Which request may still reach the provider is the  *)
(* subject of RequestLifecycle; here a released row is one the provider    *)
(* never charges.  Time is counted in ticks; a day is DayLength of them.   *)
(***************************************************************************)
EXTENDS Integers, FiniteSets, FiniteSetsExt

CONSTANTS Requests, Keys, KeyOf,
          MaxAmount,       \* maximum_microusd of every row
          KeyLimit,        \* daily_limit_microusd of a key
          DailyCredit,     \* what the provider grants each UTC day
          Margin,          \* safetyMarginMicroUsd
          MaxConcurrency,  \* max_concurrency
          Grace,           \* capacityGraceMs
          Skew,            \* how far the worker's clock is ahead of PostgreSQL's
          Readers,         \* capacity readings under way: abandoned ones go on
          DayLength, MaxTime, Nothing

CreditAssumption ==
  /\ KeyOf \in [Requests -> Keys]
  /\ MaxAmount \in Nat \ {0} /\ DayLength \in Nat \ {0}
  /\ KeyLimit \in [Keys -> Nat]
  /\ {DailyCredit, Margin, MaxConcurrency, Grace, Skew, MaxTime} \subseteq Nat
  /\ Nothing \notin Nat
  /\ IsFiniteSet(Requests)

ASSUME CreditAssumption

VARIABLES
  clock,
  \* usage_reservations: state, charged_microusd, provider_epoch, settled_at, and
  \* the epoch of the retention row linked to it
  state, charged, epoch, settledAt, retained,
  \* provider_bindings: observed_at, provider_epoch and remaining_microusd
  observation,
  \* readProviderCapacity under way: its start and the balance it was told
  reading,
  \* the provider: credit left today, what each request was charged, and what of
  \* today's charges came after the gateway had closed the row
  left, charge, belated

rowVars == <<state, charged, epoch, settledAt, retained>>
vars == <<clock, rowVars, observation, reading, left, charge, belated>>

Outstanding == {"reserved", "uncertain"}
Day(t) == t \div DayLength
Today == Day(clock)
Times == 0..MaxTime
Days == {Day(t) : t \in 0..(MaxTime + Skew)}

\* Credit before the belated charges, of which no row knew anything in time.
Covered == left + belated

Observations == [at : 0..(MaxTime + Skew), remaining : 0..DailyCredit]

RowTypes ==
  /\ state \in [Requests -> {"none", "reserved", "settled", "uncertain", "released"}]
  /\ charged \in [Requests -> 0..MaxAmount]
  /\ epoch \in [Requests -> Days \union {Nothing}]
  /\ settledAt \in [Requests -> Times]
  /\ retained \in [Requests -> Days \union {Nothing}]
  /\ charge \in [Requests -> 0..MaxAmount]

CapacityTypes ==
  /\ observation \in Observations \union {Nothing}
  /\ reading \in [Readers -> [at : 0..(MaxTime + Skew), remaining : (0..DailyCredit) \union {Nothing}]
                             \union {Nothing}]

TypeOK ==
  /\ clock \in Times
  /\ RowTypes
  /\ CapacityTypes
  /\ belated \in Nat /\ Covered \in 0..DailyCredit

Init ==
  /\ clock = 0
  /\ state = [r \in Requests |-> "none"]
  /\ charged = [r \in Requests |-> 0]
  /\ epoch = [r \in Requests |-> Nothing]
  /\ settledAt = [r \in Requests |-> 0]
  /\ retained = [r \in Requests |-> Nothing]
  /\ observation = Nothing
  /\ reading = [w \in Readers |-> Nothing]
  /\ left = DailyCredit
  /\ charge = [r \in Requests |-> 0]
  /\ belated = 0

------------------------------------------------------------------------------
(* The sums of the admission query                                         *)

\* Mutant: only a request that still runs is a debt.
DebitReserved(r) == IF state[r] = "reserved" THEN MaxAmount
                    ELSE IF state[r] = "settled" THEN charged[r] ELSE 0

Debit(r) == IF state[r] \in Outstanding THEN MaxAmount
            ELSE IF state[r] = "settled" THEN charged[r] ELSE 0

\* Mutant: only the rows of the current epoch are counted.
CountsEpochOnly(r, day) == epoch[r] = day

\* A row counts in its own epoch, and while it is open in every later one.
Counts(r, day) == epoch[r] = day \/ state[r] \in Outstanding

\* What a row and the retention row linked to it add to a day's spending.
SpentBy(r, day) ==
  (IF Counts(r, day) THEN Debit(r) ELSE 0) + (IF retained[r] = day THEN MaxAmount ELSE 0)

\* project_spent and key_spent.
SpentOn(day, rows) == SumFunctionOnSet([r \in Requests |-> SpentBy(r, day)], rows)

\* Not known to be in the observed balance: open, or closed since its reading
\* began.  (A row created since then has not closed before it either.)
Unreflected(r) == state[r] \in Outstanding \/ settledAt[r] >= observation.at

\* What a row and its retention row add to snapshot_debit.
PendingDebit(r) ==
  IF Unreflected(r) THEN Debit(r) + (IF retained[r] = Nothing THEN 0 ELSE MaxAmount) ELSE 0

SnapshotDebit == SumFunctionOnSet([r \in Requests |-> PendingDebit(r)], Requests)

RowsOf(k) == {r \in Requests : KeyOf[r] = k}
Concurrent == Cardinality({r \in Requests : state[r] = "reserved"})

\* A usable observation: of this epoch, not from the future, within the grace.
Usable ==
  /\ observation # Nothing
  /\ Day(observation.at) = Today
  /\ observation.at <= clock /\ clock - observation.at <= Grace

SlotFree == Concurrent < MaxConcurrency

WithinBudgets(k) ==
  /\ SpentOn(Today, Requests) + MaxAmount <= DailyCredit
  /\ SpentOn(Today, RowsOf(k)) + MaxAmount <= KeyLimit[k]

WithinCapacity == SnapshotDebit + Margin + MaxAmount <= observation.remaining

Reserve(r) ==
  /\ state[r] = "none"
  /\ Usable
  /\ WithinBudgets(KeyOf[r])
  /\ WithinCapacity
  /\ SlotFree
  /\ state' = [state EXCEPT ![r] = "reserved"]
  /\ epoch' = [epoch EXCEPT ![r] = Today]
  /\ UNCHANGED <<clock, charged, settledAt, retained, observation, reading, left, charge, belated>>

------------------------------------------------------------------------------
(* The provider and the rows that close                                    *)

\* The provider meters a request once, within its quote, whatever is left of the day.
Meter(r, c) ==
  /\ charge[r] = 0
  /\ charge' = [charge EXCEPT ![r] = c]
  /\ left' = left - c
  /\ UNCHANGED <<clock, rowVars, observation, reading>>

ProviderCharges(r, c) ==
  /\ state[r] \in Outstanding
  /\ Meter(r, c) /\ UNCHANGED belated

\* It may do so after the row was settled or kept, for no more than the row records.
ProviderChargesLate(r, c) ==
  /\ state[r] = "settled" /\ c <= charged[r]
  /\ Meter(r, c) /\ belated' = belated + c

Close(r, final, cost) ==
  /\ state' = [state EXCEPT ![r] = final]
  /\ charged' = [charged EXCEPT ![r] = cost]
  /\ settledAt' = [settledAt EXCEPT ![r] = clock]
  /\ UNCHANGED <<clock, epoch, observation, reading, left, charge, belated>>

\* finish("settled"): the accounted cost is at least the provider's charge.
Settle(r, cost) ==
  /\ state[r] = "reserved" /\ charge[r] <= cost
  /\ Close(r, "settled", cost) /\ UNCHANGED retained

\* finish("uncertain") or an orphan held by recovery.
Hold(r) ==
  /\ state[r] = "reserved"
  /\ Close(r, "uncertain", 0) /\ UNCHANGED retained

\* finish("released") or an orphan proven undispatched.
Release(r) ==
  /\ state[r] = "reserved" /\ charge[r] = 0
  /\ Close(r, "released", 0) /\ UNCHANGED retained

\* Mutant: no retention row is inserted for an earlier epoch.
RetentionEpochNone(r) == Nothing

\* The epoch of the retention row, when the row's own epoch is over.
RetentionEpoch(r) == IF epoch[r] = Today THEN Nothing ELSE Today

KeepMaximum(r) ==
  /\ Close(r, "settled", MaxAmount)
  /\ retained' = [retained EXCEPT ![r] = RetentionEpoch(r)]

\* The operator keeps the maximum of a row the provider's bill names, one that is
\* still reserved included.
Retain(r) ==
  /\ state[r] \in Outstanding /\ charge[r] # 0
  /\ KeepMaximum(r)

\* Or of an uncertain row without a provider identity, whatever the provider does
\* with it later.
RetainUnproven(r) ==
  /\ state[r] = "uncertain"
  /\ KeepMaximum(r)

------------------------------------------------------------------------------
(* The control worker's capacity loop                                      *)

\* readProviderCapacity takes its start time from the worker's clock.
StartReading(w) ==
  /\ reading[w] = Nothing
  /\ reading' = [reading EXCEPT ![w] = [at |-> clock + Skew, remaining |-> Nothing]]
  /\ UNCHANGED <<clock, rowVars, observation, left, charge, belated>>

\* The provider answers with its balance; another UTC day or a balance below zero
\* discards the reading.
ReadBalance(w) ==
  /\ reading[w] # Nothing /\ reading[w].remaining = Nothing
  /\ reading' = [reading EXCEPT ![w] =
       IF Day(clock + Skew) = Day(@.at) /\ left >= 0 THEN [@ EXCEPT !.remaining = left] ELSE Nothing]
  /\ UNCHANGED <<clock, rowVars, observation, left, charge, belated>>

\* Mutant: an observation is stamped when it is stored.
StampArrival(w) == clock + Skew

\* observedAt is the start of the reading.
Stamp(w) == reading[w].at

\* updateProviderCapacity: only a later observation replaces one.
Observe(w) ==
  /\ reading[w] # Nothing /\ reading[w].remaining # Nothing
  /\ observation' = IF observation = Nothing \/ observation.at < Stamp(w)
                    THEN [at |-> Stamp(w), remaining |-> reading[w].remaining]
                    ELSE observation
  /\ reading' = [reading EXCEPT ![w] = Nothing]
  /\ UNCHANGED <<clock, rowVars, left, charge, belated>>

\* A refresh that failed or ran out of time withdraws the observation; one that
\* ran out of time goes on by itself (runtime.mjs withDeadline).
MarkCapacityUnavailable(w) ==
  /\ reading[w] # Nothing
  /\ observation' = Nothing
  /\ reading' \in {reading, [reading EXCEPT ![w] = Nothing]}
  /\ UNCHANGED <<clock, rowVars, left, charge, belated>>

\* Midnight grants a new day's credit and takes back what was left of the old.
Tick ==
  /\ clock < MaxTime
  /\ clock' = clock + 1
  /\ left' = IF Day(clock + 1) = Today THEN left ELSE DailyCredit
  /\ belated' = IF Day(clock + 1) = Today THEN belated ELSE 0
  /\ UNCHANGED <<rowVars, observation, reading, charge>>

Next ==
  \/ Tick
  \/ \E r \in Requests :
       \/ Reserve(r) \/ Hold(r) \/ Release(r) \/ Retain(r) \/ RetainUnproven(r)
       \/ \E c \in 1..MaxAmount :
            ProviderCharges(r, c) \/ ProviderChargesLate(r, c) \/ Settle(r, c)
  \/ \E w \in Readers :
       StartReading(w) \/ ReadBalance(w) \/ Observe(w) \/ MarkCapacityUnavailable(w)

Spec == Init /\ [][Next]_vars

------------------------------------------------------------------------------
(* Properties                                                              *)

\* No overdraft of the gateway's own making: across refreshes, settlements and
\* retentions racing a refresh, and midnight, the provider's credit covers the maximum
\* of every open request it has not charged yet, and is short by no more than what it
\* charged today to rows that were already closed.
Solvent ==
  MaxAmount * Cardinality({r \in Requests : state[r] \in Outstanding /\ charge[r] = 0})
    <= Covered

\* INVARIANTS.md:19: "UTC rollover cannot erase liabilities": at any moment what a
\* key has spent today, open rows of any day included, is within its limit, the
\* keys together are within the provider's day, and retentions and late
\* settlements never let more handlers in than the project allows.
LimitsHold ==
  /\ \A k \in Keys : SpentOn(Today, RowsOf(k)) <= KeyLimit[k]
  /\ SpentOn(Today, Requests) <= DailyCredit
  /\ Concurrent <= MaxConcurrency

\* services/gateway/README.md:115: a retention puts the maximum into the current
\* epoch before the open row stops counting, so it frees nothing today.
RetentionFreesNothing ==
  [][\A r \in Requests : state[r] = "uncertain" /\ state'[r] # "uncertain" =>
       SpentOn(Today, RowsOf(KeyOf[r]))' >= SpentOn(Today, RowsOf(KeyOf[r]))]_vars

\* The rows implement the budget: what a request takes of today is what its row and
\* its retention row add to today's spending, whatever epoch they are of.
PhaseOf(r) ==
  CASE state[r] = "none" -> "new"
    [] state[r] = "reserved" -> "running"
    [] state[r] = "uncertain" -> "held"
    [] OTHER -> "closed"

Promise == INSTANCE Budget WITH
  phase <- [r \in Requests |-> PhaseOf(r)],
  takes <- [r \in Requests |-> SpentBy(r, Today)],
  DayLimit <- DailyCredit

\* INVARIANTS.md:19, as a whole: the only step that takes more of a day is an
\* admission within every limit, and the only ones that give back are a normal finish
\* and midnight, the latter for closed requests alone.
BudgetSpec == Promise!Spec

==============================================================================
