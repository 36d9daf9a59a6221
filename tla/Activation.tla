------------------------------ MODULE Activation ------------------------------
(* When a project may serve inference.  Four writers share its two rows        *)
(* (projects, provider_bindings) and one record of the funded proof            *)
(* (canary_runs): the worker's capacity loop with the attempts its deadline    *)
(* has abandoned (control-worker/runtime.mjs, postgres.mjs), the operator's    *)
(* canary (gateway/canary.mjs), the creator's synchronization                  *)
(* (gateway/authentication.mjs) and the operator.  The vault moves on its own. *)
(* A generation of the vault has one signer and one setting of the switch      *)
(* (SignerKeys), so a generation stands for both.                              *)
EXTENDS Integers, Sequences

CONSTANTS
  Attempts,             \* refresh attempts alive at once
  Canaries,             \* canary processes alive at once
  None,
  Grace,                \* capacityGraceMs, in ticks
  MaxAge,               \* maxAgeMs of the chain evidence, in ticks
  Life,                 \* the phases the vault goes through, in order
  MaxGeneration,        \* bound: generations of the vault
  MaxTime               \* bound: ticks

ASSUME ActivationAssumption ==
  /\ None \notin Attempts
  /\ Life # <<>>
  /\ Life \in Seq({"empty", "staked", "winding", "closed"})
  /\ {Grace, MaxAge, MaxTime} \subseteq Nat
  /\ MaxGeneration \in Nat \ {0}

VARIABLES
  vault,                \* phase, generation and switch, on Base
  now,
  project,              \* projects.status
  binding,              \* provider_bindings
  run,                  \* canary_runs, by generation
  attempts,             \* refreshProject calls under way
  loop,                 \* the attempt refreshCapacity awaits, None or "mark"
  canaries,             \* runCanary calls under way
  sync,                 \* the synchronization under way, after its proof
  live,                 \* when each generation last had its switch on
  paid                  \* paid canary completions, by generation

vars == <<vault, now, project, binding, run, attempts, loop, canaries, sync,
          live, paid>>

Never == -1             \* observed_at IS NULL
Generations == 1..MaxGeneration

Waiting == [pc |-> "idle", seen |-> None, generation |-> 0, at |-> 0]
Resting == [pc |-> "idle", generation |-> 0, observed |-> 0]

Init ==
  /\ vault = [phase |-> 1, generation |-> 1, enabled |-> TRUE]
  /\ now = 0
  /\ project = "accumulating"
  /\ binding = [status |-> "pending", generation |-> 1, observed |-> Never,
                verified |-> FALSE]
  /\ run = [g \in Generations |-> "none"]
  /\ attempts = [a \in Attempts |-> Waiting]
  /\ loop = None
  /\ canaries = [c \in Canaries |-> Resting]
  /\ sync = None
  /\ live = [g \in Generations |-> IF g = 1 THEN 0 ELSE Never]
  /\ paid = [g \in Generations |-> 0]

(***************************** The vault and the clock ************************)
Witness(v, t) ==
  live' = IF v.enabled THEN [live EXCEPT ![v.generation] = t] ELSE live

VaultMoves(to) ==
  /\ vault' = to
  /\ Witness(to, now)
  /\ UNCHANGED <<now, project, binding, run, attempts, loop, canaries, sync, paid>>

Phase(v) == Life[v.phase]

Advance ==
  /\ vault.phase < Len(Life)
  /\ VaultMoves([vault EXCEPT !.phase = @ + 1])

\* Mutant: pausing and resuming keep the generation.
TurnAlone(on) ==
  /\ Phase(vault) # "closed"
  /\ VaultMoves([vault EXCEPT !.enabled = on])

\* Pausing, resuming and a new signer each begin a generation.
Turn(on) ==
  /\ vault.generation < MaxGeneration
  /\ Phase(vault) # "closed"
  /\ VaultMoves([vault EXCEPT !.generation = @ + 1, !.enabled = on])

Tick ==
  /\ now < MaxTime
  /\ now' = now + 1
  /\ Witness(vault, now + 1)
  /\ UNCHANGED <<vault, project, binding, run, attempts, loop, canaries, sync, paid>>

(********************************* The capacity loop **************************)
Cleared(b) == IF b.status = "disabled" THEN b
              ELSE [b EXCEPT !.status = "pending", !.observed = Never]

\* listRefreshableProjects
Refreshable ==
  /\ project \in {"active", "accumulating", "winddown"}
  /\ binding.status # "disabled"

\* refreshCapacity takes the project up; readDiemEvidence reads the chain.
StartRefresh(a) ==
  /\ loop = None
  /\ Refreshable
  /\ attempts[a].pc = "idle"
  /\ loop' = a
  /\ attempts' = [attempts EXCEPT ![a].pc = "reconcile", ![a].seen = vault,
                                  ![a].at = now]
  /\ UNCHANGED <<vault, now, project, binding, run, canaries, sync, live, paid>>

\* The attempt is over; the loop goes on if it still waited for it.
Ends(a, next) ==
  /\ attempts' = [attempts EXCEPT ![a] = Waiting]
  /\ loop' = IF loop = a THEN next ELSE loop

Matches(seen) == binding.generation = seen.generation

\* Mutant: the status the project has is not looked at.
StatusOfRevived(seen) ==
  CASE Phase(seen) = "closed" -> "closed"
    [] Phase(seen) = "winding" -> "winddown"
    [] OTHER -> "accumulating"

StatusOf(seen) ==
  IF project = "suspended" THEN "suspended"
  ELSE CASE Phase(seen) = "closed" -> "closed"
         [] Phase(seen) = "winding" -> "winddown"
         [] Phase(seen) = "staked" /\ seen.enabled /\ binding.verified /\ Matches(seen)
              -> "active"
         [] OTHER -> "accumulating"

ReconcileProjectState(a) ==
  LET seen == attempts[a].seen
      usable == Matches(seen) /\ seen.enabled
  IN  /\ attempts[a].pc = "reconcile"
      /\ binding' = IF usable THEN binding ELSE Cleared(binding)
      /\ project' = StatusOf(seen)
      /\ IF usable
           THEN /\ attempts' = [attempts EXCEPT ![a].pc = "balance",
                  ![a].seen = None, ![a].generation = seen.generation]
                /\ loop' = loop
           ELSE Ends(a, None)
      /\ UNCHANGED <<vault, now, run, canaries, sync, live, paid>>

\* readProviderCapacity takes its start as the time of the observation.
ReadBalance(a) ==
  /\ attempts[a].pc = "balance"
  /\ now - attempts[a].at <= MaxAge
  /\ attempts' = [attempts EXCEPT ![a].pc = "store", ![a].at = now]
  /\ UNCHANGED <<vault, now, project, binding, run, loop, canaries, sync, live,
                 paid>>

\* Mutant: the generation observed is not compared with the binding's.
StorableAnyway(generation, observed) == Refreshable /\ binding.observed < observed

\* The guard of updateProviderCapacity.
Storable(generation, observed) ==
  /\ Refreshable
  /\ binding.observed < observed
  /\ binding.generation = generation

Observed(observed) == [binding EXCEPT !.status = "ready", !.observed = observed]

UpdateProviderCapacity(a) ==
  LET at == attempts[a]
  IN  /\ at.pc = "store"
      /\ binding' = IF Storable(at.generation, at.at)
                      THEN Observed(at.at) ELSE binding
      /\ Ends(a, None)
      /\ UNCHANGED <<vault, now, project, run, canaries, sync, live, paid>>

\* The chain, the signer, Venice or the database fails the attempt.
FailRefresh(a) ==
  /\ attempts[a].pc # "idle"
  /\ Ends(a, "mark")
  /\ UNCHANGED <<vault, now, project, binding, run, canaries, sync, live, paid>>

\* withDeadline stops waiting; the attempt goes on.
Deadline(a) ==
  /\ loop = a
  /\ loop' = "mark"
  /\ UNCHANGED <<vault, now, project, binding, run, attempts, canaries, sync,
                 live, paid>>

MarkCapacityUnavailable ==
  /\ loop = "mark"
  /\ loop' = None
  /\ binding' \in {binding, Cleared(binding)}     \* the first: the database fails
  /\ UNCHANGED <<vault, now, project, run, attempts, canaries, sync, live, paid>>

\* invalidateReorg, when the evidence stored lies on an orphaned block.
InvalidateReorg ==
  /\ binding.observed # Never
  /\ binding' = Cleared(binding)
  /\ UNCHANGED <<vault, now, project, run, attempts, loop, canaries, sync, live,
                 paid>>

(************************************ The canary ******************************)
Continue(c, pc) == canaries' = [canaries EXCEPT ![c].pc = pc]

\* Mutant: an uncertain run is tried again.
BeginCanaryAgain(c) ==
  LET g == binding.generation
  IN  /\ canaries[c].pc = "idle"
      /\ project \in {"accumulating", "active"}
      /\ binding.status # "disabled"
      /\ run[g] \in {"none", "uncertain"}
      /\ run' = [run EXCEPT ![g] = "prepared"]
      /\ canaries' = [canaries EXCEPT ![c] =
           [pc |-> "before", generation |-> g, observed |-> 0]]
      /\ UNCHANGED <<vault, now, project, binding, attempts, loop, sync, live, paid>>

\* The first transaction: one run for a project and generation, ever.
BeginCanary(c) ==
  LET g == binding.generation
  IN  /\ canaries[c].pc = "idle"
      /\ project \in {"accumulating", "active"}
      /\ binding.status # "disabled"
      /\ run[g] = "none"
      /\ run' = [run EXCEPT ![g] = "prepared"]
      /\ canaries' = [canaries EXCEPT ![c] =
           [pc |-> "before", generation |-> g, observed |-> 0]]
      /\ UNCHANGED <<vault, now, project, binding, attempts, loop, sync, live, paid>>

\* A capacity reading of the canary, with the vault in the same state.
ReadCapacity(c, from, to) ==
  /\ canaries[c].pc = from
  /\ vault.enabled
  /\ Phase(vault) # "empty"
  /\ vault.generation = canaries[c].generation
  /\ canaries' = [canaries EXCEPT ![c].pc = to, ![c].observed = now]
  /\ UNCHANGED <<vault, now, project, binding, run, attempts, loop, sync, live,
                 paid>>

SaveCapacity(c, from, to) ==
  LET at == canaries[c]
  IN  /\ at.pc = from
      /\ Storable(at.generation, at.observed)
      /\ binding' = Observed(at.observed)
      /\ Continue(c, to)
      /\ UNCHANGED <<vault, now, project, run, attempts, loop, sync, live, paid>>

Fresh == binding.observed # Never /\ now - binding.observed <= Grace

\* store.reserve with the canary's run.
Submit(c) ==
  LET g == canaries[c].generation
  IN  /\ canaries[c].pc = "reserve"
      /\ run[g] = "prepared"
      /\ project \in {"active", "winddown", "accumulating"}
      /\ binding.status = "ready"
      /\ binding.generation = g
      /\ Fresh
      /\ run' = [run EXCEPT ![g] = "submitted"]
      /\ Continue(c, "inference")
      /\ UNCHANGED <<vault, now, project, binding, attempts, loop, sync, live, paid>>

\* Venice meters the completion, and the reservation settles.
Infer(c) ==
  /\ canaries[c].pc = "inference"
  /\ vault.enabled
  /\ vault.generation = canaries[c].generation
  /\ paid' = [paid EXCEPT ![canaries[c].generation] = @ + 1]
  /\ Continue(c, "after")
  /\ UNCHANGED <<vault, now, project, binding, run, attempts, loop, sync, live>>

Confirms(c) ==
  /\ project \in {"accumulating", "active"}
  /\ binding.status = "ready"
  /\ binding.generation = canaries[c].generation
  /\ run[canaries[c].generation] = "submitted"

Activate(c) ==
  /\ canaries[c].pc = "activation"
  /\ Confirms(c)
  /\ binding' = [binding EXCEPT !.verified = TRUE]
  /\ project' = "active"
  /\ run' = [run EXCEPT ![canaries[c].generation] = "completed"]
  /\ canaries' = [canaries EXCEPT ![c] = Resting]
  /\ UNCHANGED <<vault, now, attempts, loop, sync, live, paid>>

\* Any failure leaves the run uncertain, a crash leaves it as it is.
EndCanary(c) ==
  LET g == canaries[c].generation
  IN  /\ canaries[c].pc # "idle"
      /\ run' \in {run} \union
           IF run[g] \in {"prepared", "submitted"}
             THEN {[run EXCEPT ![g] = "uncertain"]} ELSE {}
      /\ canaries' = [canaries EXCEPT ![c] = Resting]
      /\ UNCHANGED <<vault, now, project, binding, attempts, loop, sync, live, paid>>

(*************************** The creator and the operator *********************)
\* Mutant: the proof trusts a block that is not confirmed.
ProveSyncEarly ==
  /\ sync = None
  /\ binding.status # "disabled"
  /\ \E g \in {vault.generation, vault.generation + 1} \intersect Generations :
       sync' = [from |-> binding.generation, generation |-> g, enabled |-> TRUE]
  /\ UNCHANGED <<vault, now, project, binding, run, attempts, loop, canaries,
                 live, paid>>

\* syncProjectAuthentication reads the binding and proves the vault's state ...
ProveSync ==
  /\ sync = None
  /\ binding.status # "disabled"
  /\ vault.generation >= binding.generation
  /\ sync' = [from |-> binding.generation, generation |-> vault.generation,
              enabled |-> vault.enabled]
  /\ UNCHANGED <<vault, now, project, binding, run, attempts, loop, canaries,
                 live, paid>>

\* Mutant: a new generation keeps the proof of the one before.
CommitSyncProven ==
  /\ sync # None
  /\ sync' = None
  /\ IF binding.generation = sync.from /\ binding.status # "disabled"
       THEN binding' = [binding EXCEPT !.generation = sync.generation]
       ELSE UNCHANGED binding
  /\ UNCHANGED <<vault, now, project, run, attempts, loop, canaries, live, paid>>

\* ... and commits it, if the binding is still the one it read.
CommitSync ==
  /\ sync # None
  /\ sync' = None
  /\ IF /\ binding.generation = sync.from
        /\ binding.status # "disabled"
        /\ sync.generation # sync.from \/ ~ sync.enabled
       THEN /\ binding' = [status |-> "pending", generation |-> sync.generation,
                           observed |-> Never, verified |-> FALSE]
            /\ project' = IF project = "active" THEN "accumulating" ELSE project
       ELSE UNCHANGED <<binding, project>>
  /\ UNCHANGED <<vault, now, run, attempts, loop, canaries, live, paid>>

Disable ==
  /\ binding.status # "disabled"
  /\ binding' = [binding EXCEPT !.status = "disabled"]
  /\ UNCHANGED <<vault, now, project, run, attempts, loop, canaries, sync, live,
                 paid>>

\* reconcileReservation finds that Venice charged more than was admitted.
Suspend ==
  /\ project # "suspended"
  /\ project' = "suspended"
  /\ binding' = [Cleared(binding) EXCEPT !.observed = Never, !.verified = FALSE]
  /\ UNCHANGED <<vault, now, run, attempts, loop, canaries, sync, live, paid>>

Refresh(a) ==
  \/ ReconcileProjectState(a) \/ ReadBalance(a) \/ UpdateProviderCapacity(a)
  \/ FailRefresh(a)

Next ==
  \/ Advance
  \/ \E on \in BOOLEAN : Turn(on)
  \/ Tick
  \/ \E a \in Attempts : StartRefresh(a) \/ Refresh(a) \/ Deadline(a)
  \/ MarkCapacityUnavailable
  \/ InvalidateReorg
  \/ \E c \in Canaries :
       \/ BeginCanary(c)
       \/ ReadCapacity(c, "before", "save") \/ SaveCapacity(c, "save", "reserve")
       \/ Submit(c)
       \/ Infer(c)
       \/ ReadCapacity(c, "after", "confirm")
       \/ SaveCapacity(c, "confirm", "activation")
       \/ Activate(c)
       \/ EndCanary(c)
  \/ ProveSync
  \/ CommitSync
  \/ Disable
  \/ Suspend

Spec == Init /\ [][Next]_vars

(********************************* Properties *********************************)
TypeOK ==
  /\ vault \in [phase : 1..Len(Life), generation : Generations, enabled : BOOLEAN]
  /\ now \in 0..MaxTime
  /\ project \in {"accumulating", "active", "winddown", "closed", "suspended"}
  /\ binding \in [status : {"pending", "ready", "disabled"},
                  generation : Generations, observed : Never..MaxTime,
                  verified : BOOLEAN]
  /\ binding.generation <= vault.generation
  /\ binding.observed <= now
  /\ loop \in Attempts \union {None, "mark"}

\* What a reservation relies on, an ordinary one or a canary's, is true or was
\* a moment ago: at most the two windows earlier the vault had the binding's
\* generation and its switch on.  Neither an attempt the deadline abandoned nor a
\* late synchronization makes older evidence usable.
ReadyIsEvidenced ==
  binding.status = "ready" /\ Fresh =>
    /\ live[binding.generation] # Never
    /\ now - live[binding.generation] <= Grace + MaxAge

\* What the gateway takes as proof is a completed, paid canary of this very
\* generation, and only a verified project is active.
VerifiedIsProven ==
  /\ binding.verified =>
       run[binding.generation] = "completed" /\ paid[binding.generation] = 1
  /\ project = "active" => binding.verified

\* A proof that was completed is never lost while its generation is bound: a paid
\* canary that was proven need not be repeated.  (One whose run ended uncertain is
\* spent, and only a new generation can be activated.)
ProvenStaysVerified ==
  run[binding.generation] = "completed" /\ project # "suspended" => binding.verified

\* The canary is paid once in a generation, with crashes and repeated calls.
CanaryPaysOnce == \A g \in Generations : paid[g] <= 1

\* A project the operator's reconciliation suspended is not revived by a writer
\* that had read it before.
SuspendedStays ==
  [][project = "suspended" => project' = "suspended" /\ ~ binding'.verified]_vars
==============================================================================
