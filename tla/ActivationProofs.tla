--------------------------- MODULE ActivationProofs ---------------------------
(* For any number of refresh attempts and canaries, any grace, age of evidence *)
(* and life of the vault: what a reservation relies on is evidenced, a verified *)
(* project is proven and stays so, a canary pays once and a suspension stays.  *)
EXTENDS Activation, TLAPS

USE ActivationAssumption DEF ActivationAssumption

VaultType == [phase : 1..Len(Life), generation : Generations, enabled : BOOLEAN]
ProjectType == {"accumulating", "active", "winddown", "closed", "suspended"}
BindingType == [status : {"pending", "ready", "disabled"}, generation : Generations,
                observed : Never..MaxTime, verified : BOOLEAN]
RunType == {"none", "prepared", "submitted", "completed", "uncertain"}
AttemptType == [pc : {"idle", "reconcile", "balance", "store"},
                seen : VaultType \union {None}, generation : 0..MaxGeneration,
                at : 0..MaxTime]
BeforePaying == {"before", "save", "reserve", "inference"}
AfterPaying == {"after", "confirm", "activation"}
CanaryType == [pc : {"idle"} \union BeforePaying \union AfterPaying,
               generation : 0..MaxGeneration, observed : 0..MaxTime]
SyncType == [from : Generations, generation : Generations, enabled : BOOLEAN]

Types ==
  /\ vault \in VaultType
  /\ now \in 0..MaxTime
  /\ project \in ProjectType
  /\ binding \in BindingType
  /\ run \in [Generations -> RunType]
  /\ attempts \in [Attempts -> AttemptType]
  /\ loop \in Attempts \union {None, "mark"}
  /\ canaries \in [Canaries -> CanaryType]
  /\ sync = None \/ sync \in SyncType
  /\ live \in [Generations -> Never..MaxTime]
  /\ paid \in [Generations -> Nat]

\* A generation has one setting of the switch, and its last sight is known.
LiveInv ==
  /\ vault.enabled => live[vault.generation] = now
  /\ ~ vault.enabled => live[vault.generation] = Never
  /\ \A g \in Generations : /\ g > vault.generation => live[g] = Never
                           /\ live[g] <= now

\* An observation at time t of generation g had its switch on not long before.
Evidence(g, t) == g \in Generations /\ live[g] >= 0 /\ live[g] >= t - MaxAge

AttemptGood(x) ==
  /\ x.at <= now
  /\ x.pc = "reconcile" =>
       x.seen \in VaultType /\ (x.seen.enabled => live[x.seen.generation] >= x.at)
  /\ x.pc = "balance" => x.generation \in Generations /\ live[x.generation] >= x.at
  /\ x.pc = "store" => Evidence(x.generation, x.at)

\* A canary under way owns the run of its generation and knows what it has paid.
CanaryGood(x) ==
  x.pc # "idle" =>
    /\ x.generation \in Generations
    /\ run[x.generation] # "none"
    /\ x.observed <= now
    /\ x.pc \in BeforePaying => paid[x.generation] = 0
    /\ x.pc \in AfterPaying => paid[x.generation] = 1
    /\ x.pc \in {"save", "confirm"} => Evidence(x.generation, x.observed)

CanariesApart ==
  \A c, d \in Canaries :
    canaries[c].pc # "idle" /\ canaries[d].pc # "idle"
    /\ canaries[c].generation = canaries[d].generation => c = d

RunGood(g) ==
  /\ paid[g] <= 1
  /\ paid[g] = 1 => live[g] # Never
  /\ run[g] = "completed" => paid[g] = 1
  /\ run[g] = "none" => paid[g] = 0
  /\ run[g] # "none" => g <= binding.generation

SyncInv ==
  sync # None =>
    /\ sync.from <= sync.generation /\ sync.generation <= vault.generation
    /\ ~ sync.enabled => live[sync.generation] = Never

BindingInv ==
  /\ binding.generation <= vault.generation
  /\ binding.observed <= now
  /\ binding.status = "ready" => Evidence(binding.generation, binding.observed)
  /\ binding.verified => run[binding.generation] = "completed"
  /\ run[binding.generation] = "completed" /\ project # "suspended" => binding.verified
  /\ project = "active" => binding.verified
  /\ project = "suspended" => ~ binding.verified

IInv ==
  /\ Types
  /\ LiveInv
  /\ \A a \in Attempts : AttemptGood(attempts[a])
  /\ \A c \in Canaries : CanaryGood(canaries[c])
  /\ CanariesApart
  /\ \A g \in Generations : RunGood(g)
  /\ SyncInv
  /\ BindingInv

\* What the invariant says at once.
LEMMA IInvIsEnough ==
  IInv => TypeOK /\ ReadyIsEvidenced /\ VerifiedIsProven /\ ProvenStaysVerified
          /\ CanaryPaysOnce
<1> SUFFICES ASSUME IInv
             PROVE  TypeOK /\ ReadyIsEvidenced /\ VerifiedIsProven
                    /\ ProvenStaysVerified /\ CanaryPaysOnce
  OBVIOUS
<1>0. /\ binding.generation \in Generations /\ binding.observed \in Int
      /\ live \in [Generations -> Never..MaxTime] /\ now \in Int
  BY DEF IInv, Types, BindingType, Never
<1>1. TypeOK
  BY Zenon DEF IInv, Types, TypeOK, VaultType, ProjectType, BindingType, BindingInv
<1>2. ReadyIsEvidenced
  BY <1>0, SMTT(30) DEF IInv, BindingInv, ReadyIsEvidenced, Evidence, Fresh, Never, Generations
<1>3. VerifiedIsProven
  BY <1>0 DEF IInv, BindingInv, VerifiedIsProven, RunGood
<1>4. ProvenStaysVerified
  BY DEF IInv, BindingInv, ProvenStaysVerified
<1>5. CanaryPaysOnce
  BY DEF IInv, CanaryPaysOnce, RunGood
<1>6. QED BY <1>1, <1>2, <1>3, <1>4, <1>5

LEMMA InitIInv == Init => IInv
<1> SUFFICES ASSUME Init PROVE IInv
  OBVIOUS
<1>1. Types
  <2>1. Len(Life) >= 1 /\ 1 \in 1..Len(Life) /\ 1 \in Generations /\ 0 \in 0..MaxTime
    BY DEF Generations
  <2>2. vault \in VaultType
    BY <2>1, Zenon DEF Init, VaultType
  <2>3. Never \in Never..MaxTime /\ 0 \in Never..MaxTime
    BY DEF Never
  <2>4. binding \in BindingType
    BY <2>1, <2>3, Zenon DEF Init, BindingType
  <2>5. Waiting \in AttemptType
    BY DEF Waiting, AttemptType
  <2>6. Resting \in CanaryType
    BY DEF Resting, CanaryType
  <2>7. live \in [Generations -> Never..MaxTime]
    BY <2>3 DEF Init
  <2>8. QED BY <2>1, <2>2, <2>4, <2>5, <2>6, <2>7 DEF Init, Types, ProjectType, RunType
<1>2. LiveInv
  <2>1. vault.enabled /\ vault.generation = 1 /\ now = 0
    BY DEF Init
  <2>2. /\ \A g \in Generations : live[g] = IF g = 1 THEN 0 ELSE Never
        /\ 1 \in Generations
    BY DEF Init, Generations
  <2>3. QED BY <2>1, <2>2 DEF LiveInv, Never, Generations
<1>3. ASSUME NEW a \in Attempts PROVE AttemptGood(attempts[a])
  <2>1. attempts[a] = Waiting /\ now = 0
    BY DEF Init
  <2>2. Waiting.pc = "idle" /\ Waiting.at = 0
    BY DEF Waiting
  <2>3. QED BY <2>1, <2>2 DEF AttemptGood
<1>4. \A c \in Canaries : CanaryGood(canaries[c])
  BY DEF Init, CanaryGood, Resting
<1>5. CanariesApart
  BY DEF Init, CanariesApart, Resting
<1>6. \A g \in Generations : RunGood(g)
  BY DEF Init, RunGood
<1>7. SyncInv /\ BindingInv
  BY DEF Init, SyncInv, BindingInv, Never, Generations
<1>8. QED BY <1>1, <1>2, <1>3, <1>4, <1>5, <1>6, <1>7 DEF IInv

(***************************** The vault and the clock ************************)
\* Time and the vault go on together.
Moves(to, t) ==
  /\ to \in VaultType /\ t \in now..MaxTime
  /\ \/ to.generation = vault.generation /\ to.enabled = vault.enabled
     \/ to.generation = vault.generation + 1 /\ t = now
  /\ vault' = to /\ now' = t
  /\ Witness(to, t)
  /\ UNCHANGED <<project, binding, run, attempts, loop, canaries, sync, paid>>

LEMMA MovesKeep ==
  ASSUME IInv, NEW to, NEW t, Moves(to, t)
  PROVE  IInv'
<1>0. /\ vault \in VaultType /\ now \in 0..MaxTime
      /\ live \in [Generations -> Never..MaxTime]
      /\ vault.generation \in Generations /\ to.generation \in Generations
      /\ vault.enabled \in BOOLEAN /\ to.enabled \in BOOLEAN
      /\ t \in Int /\ t >= now /\ t <= MaxTime
  BY DEF IInv, Types, Moves, VaultType
<1>1. /\ vault' = to /\ now' = t
      /\ UNCHANGED <<project, binding, run, attempts, loop, canaries, sync, paid>>
      /\ live' = IF to.enabled THEN [live EXCEPT ![to.generation] = t] ELSE live
  BY DEF Moves, Witness
<1>2. live' \in [Generations -> Never..MaxTime]
  <2>1. t \in Never..MaxTime
    BY <1>0 DEF Never
  <2>2. QED BY <1>0, <1>1, <2>1
\* What was seen live stays so, and what never was stays so.
<1>3. ASSUME NEW g \in Generations
      PROVE  /\ live'[g] >= live[g] /\ live[g] \in Int /\ live'[g] \in Int
             /\ live'[g] <= t
             /\ live[g] = Never /\ g <= vault.generation => live'[g] = Never
             /\ g > to.generation => live'[g] = Never
             /\ g = to.generation => live'[g] = IF to.enabled THEN t ELSE live[g]
  <2>1. /\ live[g] <= now /\ live[g] \in Int
        /\ g > vault.generation => live[g] = Never
        /\ vault.enabled => live[vault.generation] = now
    BY <1>0 DEF IInv, LiveInv, Never
  <2>2. CASE to.enabled
    <3>1. live'[g] = IF g = to.generation THEN t ELSE live[g]
      BY <1>0, <1>1, <2>2
    <3>2. live[g] = Never /\ g <= vault.generation => g # to.generation
      <4>1. CASE to.generation = vault.generation /\ to.enabled = vault.enabled
        <5>1. live[vault.generation] = now
          BY <2>1, <2>2, <4>1
        <5>2. QED BY <1>0, <4>1, <5>1 DEF Never
      <4>2. CASE to.generation = vault.generation + 1
        <5>1. vault.generation \in Int
          BY <1>0 DEF Generations
        <5>2. QED BY <4>2, <5>1, SMTT(30)
      <4>3. QED BY <4>1, <4>2 DEF Moves
    <3>3. g > to.generation => live[g] = Never
      BY <1>0, <2>1, SMTT(30) DEF Moves, Generations
    <3>4. QED BY <1>0, <2>1, <2>2, <3>1, <3>2, <3>3, SMTT(30) DEF Generations
  <2>3. CASE ~ to.enabled
    <3>1. live'[g] = live[g]
      BY <1>1, <2>3
    <3>2. g > to.generation => live[g] = Never
      BY <1>0, <2>1, SMTT(30) DEF Moves, Generations
    <3>3. QED BY <1>0, <2>1, <2>3, <3>1, <3>2, SMTT(30)
  <2>4. QED BY <2>2, <2>3
<1>4. Types'
  <2>1. vault' \in VaultType /\ now' \in 0..MaxTime
    BY <1>0, <1>1 DEF Moves
  <2>2. QED BY <1>1, <1>2, <2>1 DEF IInv, Types
<1>5. LiveInv'
  <2>1. to.enabled => live'[to.generation] = t
    BY <1>0, <1>3
  <2>2. ~ to.enabled => live'[to.generation] = Never
    <3>1. CASE to.generation = vault.generation /\ to.enabled = vault.enabled
      BY <1>0, <1>3, <3>1 DEF IInv, LiveInv
    <3>2. CASE to.generation = vault.generation + 1
      BY <1>0, <1>3, <3>2 DEF IInv, LiveInv, Generations
    <3>3. QED BY <3>1, <3>2 DEF Moves
  <2>3. QED BY <1>1, <1>3, <2>1, <2>2 DEF LiveInv
<1>6. ASSUME NEW g, NEW u \in Int, Evidence(g, u) PROVE Evidence(g, u)'
  BY <1>3, <1>6 DEF Evidence
<1>7. ASSUME NEW a \in Attempts PROVE AttemptGood(attempts[a])'
  <2> DEFINE x == attempts[a]
  <2>1. x \in AttemptType /\ AttemptGood(x) /\ attempts'[a] = x
    BY <1>1 DEF IInv, Types
  <2>2. x.at \in Int /\ x.at <= t
    BY <1>0, <2>1 DEF AttemptType, AttemptGood
  <2>3. ASSUME x.pc = "reconcile", x.seen.enabled
        PROVE  live'[x.seen.generation] >= x.at
    <3>1. x.seen.generation \in Generations /\ live[x.seen.generation] >= x.at
      BY <2>1, <2>3 DEF AttemptGood, VaultType
    <3>2. QED BY <1>3, <2>2, <3>1
  <2>4. ASSUME x.pc = "balance" PROVE live'[x.generation] >= x.at
    BY <1>3, <2>1, <2>2, <2>4 DEF AttemptGood
  <2>5. ASSUME x.pc = "store" PROVE Evidence(x.generation, x.at)'
    BY <1>3, <1>1, <2>1, <2>2, <2>5 DEF AttemptGood, Evidence
  <2>6. QED BY <1>1, <2>1, <2>2, <2>3, <2>4, <2>5 DEF AttemptGood, VaultType, Evidence
<1>8. ASSUME NEW c \in Canaries PROVE CanaryGood(canaries[c])'
  <2> DEFINE x == canaries[c]
  <2>1. x \in CanaryType /\ CanaryGood(x) /\ canaries'[c] = x /\ run' = run /\ paid' = paid
    BY <1>1 DEF IInv, Types
  <2>2. x.observed \in Int
    BY <2>1 DEF CanaryType
  <2>3. Evidence(x.generation, x.observed) => Evidence(x.generation, x.observed)'
    BY <1>1, <1>3, <2>1, <2>2 DEF Evidence
  <2>4. x.observed <= now => x.observed <= now'
    BY <1>0, <1>1, <2>2
  <2>5. QED BY <2>1, <2>3, <2>4 DEF CanaryGood, Evidence
<1>9. CanariesApart'
  BY <1>1 DEF IInv, CanariesApart
<1>10. ASSUME NEW g \in Generations PROVE RunGood(g)'
  <2>1. RunGood(g) /\ run' = run /\ paid' = paid /\ binding' = binding
    BY <1>1 DEF IInv
  <2>2. live[g] # Never => live'[g] # Never
    BY <1>0, <1>3 DEF Never
  <2>3. QED BY <2>1, <2>2 DEF RunGood
<1>11. SyncInv'
  <2> SUFFICES ASSUME sync # None
               PROVE  /\ sync.from <= sync.generation /\ sync.generation <= to.generation
                      /\ ~ sync.enabled => live'[sync.generation] = Never
    BY <1>1 DEF SyncInv
  <2>1. /\ sync \in SyncType /\ sync.from <= sync.generation
        /\ sync.generation <= vault.generation
        /\ ~ sync.enabled => live[sync.generation] = Never
    BY DEF IInv, Types, SyncInv
  <2>2. sync.generation \in Generations
    BY <2>1 DEF SyncType
  <2>3. sync.generation <= to.generation
    <3>1. sync.generation \in Int /\ vault.generation \in Int
      BY <1>0, <2>2 DEF Generations
    <3>2. to.generation = vault.generation \/ to.generation = vault.generation + 1
      BY DEF Moves
    <3>3. QED BY <2>1, <3>1, <3>2, SMTT(30)
  <2>4. QED BY <1>3, <2>1, <2>2, <2>3
<1>12. BindingInv'
  <2>1. /\ binding \in BindingType /\ BindingInv
        /\ binding' = binding /\ run' = run /\ project' = project
    BY <1>1 DEF IInv, Types
  <2>2. binding.observed \in Int /\ binding.generation \in Generations
    BY <2>1 DEF BindingType, Never
  <2>3. Evidence(binding.generation, binding.observed) =>
          Evidence(binding.generation, binding.observed)'
    BY <1>1, <1>3, <2>1, <2>2 DEF Evidence
  <2>4. binding.generation <= to.generation /\ binding.observed <= t
    BY <1>0, <2>1, <2>2, SMTT(30) DEF BindingInv, Moves, Generations
  <2>5. QED BY <1>1, <2>1, <2>3, <2>4 DEF BindingInv, Evidence
<1>13. QED BY <1>4, <1>5, <1>7, <1>8, <1>9, <1>10, <1>11, <1>12 DEF IInv

LEMMA VaultSteps ==
  ASSUME IInv, Advance \/ (\E on \in BOOLEAN : Turn(on)) \/ Tick
  PROVE  IInv'
<1>0. /\ vault \in VaultType /\ now \in 0..MaxTime /\ now \in now..MaxTime
      /\ vault.generation \in Generations /\ Len(Life) \in Nat
  BY DEF IInv, Types, VaultType
<1>1. CASE Advance
  <2> DEFINE to == [vault EXCEPT !.phase = @ + 1]
  <2>1. vault.phase + 1 \in 1..Len(Life)
    BY <1>0, <1>1 DEF Advance, VaultType
  <2>2. to \in VaultType
    BY <1>0, <2>1, Zenon DEF VaultType
  <2>3. to.generation = vault.generation /\ to.enabled = vault.enabled
    BY <1>0, Zenon DEF VaultType
  <2>4. Moves(to, now)
    BY <1>0, <1>1, <2>2, <2>3 DEF Advance, VaultMoves, Moves
  <2> HIDE DEF to
  <2>5. QED BY <2>4, MovesKeep
<1>2. ASSUME NEW on \in BOOLEAN, Turn(on) PROVE IInv'
  <2> DEFINE to == [vault EXCEPT !.generation = @ + 1, !.enabled = on]
  <2>1. vault.generation + 1 \in Generations
    <3>1. vault.generation < MaxGeneration
      BY <1>2, Zenon DEF Turn
    <3>2. QED BY <1>0, <3>1 DEF Generations
  <2>2. to \in VaultType
    BY <1>0, <2>1, Zenon DEF VaultType
  <2>3. to.generation = vault.generation + 1
    BY <1>0, Zenon DEF VaultType
  <2>4. Moves(to, now)
    BY <1>0, <1>2, <2>2, <2>3 DEF Turn, VaultMoves, Moves
  <2> HIDE DEF to
  <2>5. QED BY <2>4, MovesKeep
<1>3. CASE Tick
  <2>1. now + 1 \in now..MaxTime
    BY <1>0, <1>3 DEF Tick
  <2>2. Moves(vault, now + 1)
    BY <1>0, <1>3, <2>1 DEF Tick, Moves
  <2>3. QED BY <2>2, MovesKeep
<1>4. QED BY <1>1, <1>2, <1>3

(**************************** Observations of capacity ************************)
\* The binding's status and observation change, and the project's status as it may.
Settles ==
  /\ binding' \in BindingType
  /\ binding'.generation = binding.generation
  /\ binding'.verified = binding.verified
  /\ binding'.observed <= now
  /\ binding'.status = "ready" => Evidence(binding'.generation, binding'.observed)
  /\ project' \in ProjectType
  /\ project' = "active" => binding.verified
  /\ project' = "suspended" <=> project = "suspended"

LEMMA SettlesKeep ==
  ASSUME IInv, Settles, UNCHANGED <<vault, now, run, live, paid>>
  PROVE  /\ LiveInv'
         /\ \A g \in Generations : RunGood(g)'
         /\ BindingInv'
<1>1. LiveInv'
  BY DEF IInv, LiveInv
<1>2. ASSUME NEW g \in Generations PROVE RunGood(g)'
  BY DEF IInv, RunGood, Settles
<1>3. BindingInv'
  BY DEF IInv, BindingInv, Settles, Evidence
<1>4. QED BY <1>1, <1>2, <1>3

LEMMA ProjectStays ==
  ASSUME IInv
  PROVE  /\ project \in ProjectType
         /\ project = "active" => binding.verified
BY DEF IInv, Types, BindingInv

LEMMA ClearedSettles ==
  ASSUME IInv
  PROVE  LET b == Cleared(binding) IN
         /\ b \in BindingType /\ b.generation = binding.generation
         /\ b.verified = binding.verified /\ b.observed <= now /\ b.status # "ready"
<1>1. binding \in BindingType /\ binding.observed <= now /\ Never <= now
  BY DEF IInv, Types, BindingInv, Never
<1>2. Never \in Never..MaxTime
  BY DEF Never
<1>3. CASE binding.status = "disabled"
  BY <1>1, <1>3 DEF Cleared
<1>4. CASE binding.status # "disabled"
  <2> DEFINE b == [binding EXCEPT !.status = "pending", !.observed = Never]
  <2>1. b \in BindingType
    BY <1>1, <1>2, Zenon DEF BindingType
  <2>2. /\ b.generation = binding.generation /\ b.verified = binding.verified
        /\ b.observed = Never /\ b.status = "pending"
    BY <1>1, Zenon DEF BindingType
  <2>3. Cleared(binding) = b
    BY <1>4 DEF Cleared
  <2> HIDE DEF b
  <2>4. QED BY <1>1, <2>1, <2>2, <2>3
<1>5. QED BY <1>3, <1>4

LEMMA ObservedIs ==
  ASSUME IInv, NEW t \in 0..MaxTime
  PROVE  LET b == Observed(t) IN
         /\ b \in BindingType /\ b.generation = binding.generation
         /\ b.verified = binding.verified /\ b.observed = t /\ b.status = "ready"
<1>1. binding \in BindingType /\ t \in Never..MaxTime
  BY DEF IInv, Types, Never
<1>2. Observed(t) \in BindingType
  BY <1>1, Zenon DEF Observed, BindingType
<1>3. QED BY <1>1, <1>2, Zenon DEF Observed, BindingType

\* Nothing has changed but what is observed.
LEMMA LocalKeeps ==
  ASSUME IInv, Settles, UNCHANGED <<vault, now, run, live, paid, canaries, sync>>,
         loop' \in Attempts \union {None, "mark"},
         attempts' \in [Attempts -> AttemptType],
         \A a \in Attempts : AttemptGood(attempts'[a])
  PROVE  IInv'
<1>1. Types'
  BY DEF IInv, Types, Settles
<1>2. ASSUME NEW a \in Attempts PROVE AttemptGood(attempts[a])'
  BY DEF AttemptGood, Evidence
<1>3. ASSUME NEW c \in Canaries PROVE CanaryGood(canaries[c])'
  BY DEF IInv, CanaryGood, Evidence
<1>4. CanariesApart' /\ SyncInv'
  BY DEF IInv, CanariesApart, SyncInv
<1>5. QED BY <1>1, <1>2, <1>3, <1>4, SettlesKeep DEF IInv

LEMMA AttemptBecomes ==
  ASSUME IInv, NEW a \in Attempts, NEW x \in AttemptType, AttemptGood(x),
         attempts' = [attempts EXCEPT ![a] = x]
  PROVE  /\ attempts' \in [Attempts -> AttemptType]
         /\ \A b \in Attempts : AttemptGood(attempts'[b])
<1>1. attempts \in [Attempts -> AttemptType]
  BY DEF IInv, Types
<1>2. \A b \in Attempts : attempts'[b] = IF b = a THEN x ELSE attempts[b]
  BY <1>1
<1>3. QED BY <1>1, <1>2 DEF IInv

LEMMA AttemptEnds ==
  ASSUME IInv, NEW a \in Attempts, attempts' = [attempts EXCEPT ![a] = Waiting]
  PROVE  /\ attempts' \in [Attempts -> AttemptType]
         /\ \A b \in Attempts : AttemptGood(attempts'[b])
<1>1. Waiting \in AttemptType /\ Waiting.pc = "idle" /\ Waiting.at = 0
  BY DEF Waiting, AttemptType
<1>2. AttemptGood(Waiting)
  <2>1. now >= 0
    BY DEF IInv, Types
  <2>2. QED BY <1>1, <2>1 DEF AttemptGood
<1>3. QED BY <1>1, <1>2, AttemptBecomes

\* The status a reconciliation gives keeps a suspension and activates only what is
\* verified; then the evidence is usable.
LEMMA StatusIs ==
  ASSUME IInv, NEW seen
  PROVE  /\ StatusOf(seen) \in ProjectType
         /\ StatusOf(seen) = "active" => binding.verified
         /\ StatusOf(seen) = "suspended" <=> project = "suspended"
<1>1. CASE project = "suspended"
  BY <1>1 DEF StatusOf, ProjectType
<1>2. CASE project # "suspended" /\ Phase(seen) = "closed"
  BY <1>2 DEF StatusOf, ProjectType
<1>3. CASE project # "suspended" /\ Phase(seen) # "closed" /\ Phase(seen) = "winding"
  BY <1>3 DEF StatusOf, ProjectType
<1>4. CASE /\ project # "suspended"
           /\ Phase(seen) # "closed" /\ Phase(seen) # "winding"
           /\ Phase(seen) = "staked" /\ seen.enabled /\ binding.verified /\ Matches(seen)
  BY <1>4 DEF StatusOf, ProjectType
<1>5. CASE /\ project # "suspended"
           /\ Phase(seen) # "closed" /\ Phase(seen) # "winding"
           /\ ~ (Phase(seen) = "staked" /\ seen.enabled /\ binding.verified /\ Matches(seen))
  BY <1>5 DEF StatusOf, ProjectType
<1>6. QED BY <1>1, <1>2, <1>3, <1>4, <1>5

LEMMA RefreshSteps ==
  ASSUME IInv, NEW a \in Attempts, StartRefresh(a) \/ Refresh(a) \/ Deadline(a)
  PROVE  IInv'
<1> DEFINE at == attempts[a]
<1>0. /\ at \in AttemptType /\ AttemptGood(at) /\ now \in 0..MaxTime
      /\ vault \in VaultType /\ binding \in BindingType
      /\ attempts \in [Attempts -> AttemptType]
      /\ loop \in Attempts \union {None, "mark"}
      /\ \A b \in Attempts : AttemptGood(attempts[b])
      /\ binding.observed <= now
      /\ binding.status = "ready" => Evidence(binding.generation, binding.observed)
      /\ project = "active" => binding.verified
      /\ project \in ProjectType
  BY DEF IInv, Types, BindingInv
<1>a. ASSUME UNCHANGED <<binding, project>> PROVE Settles
  BY <1>0, <1>a DEF Settles
<1>b. ASSUME NEW next \in {None, "mark"}, Ends(a, next)
      PROVE  /\ attempts' = [attempts EXCEPT ![a] = Waiting]
             /\ loop' \in Attempts \union {None, "mark"}
  BY <1>0, <1>b DEF Ends
<1>1. CASE StartRefresh(a)
  <2> DEFINE x == [at EXCEPT !.pc = "reconcile", !.seen = vault, !.at = now]
  <2>1. x \in AttemptType
    BY <1>0 DEF AttemptType
  <2>2. x.pc = "reconcile" /\ x.seen = vault /\ x.at = now
    BY <1>0 DEF AttemptType
  <2>3. AttemptGood(x)
    <3>1. vault.enabled => live[vault.generation] >= now
      BY <1>0 DEF IInv, LiveInv
    <3> HIDE DEF x
    <3>2. QED BY <1>0, <2>2, <3>1 DEF AttemptGood
  <2>4. attempts' = [attempts EXCEPT ![a] = x] /\ loop' = a
    BY <1>1 DEF StartRefresh
  <2>5. UNCHANGED <<vault, now, project, binding, run, canaries, sync, live, paid>>
    BY <1>1 DEF StartRefresh
  <2> HIDE DEF x
  <2>6. QED BY <1>a, <2>1, <2>3, <2>4, <2>5, AttemptBecomes, LocalKeeps
<1>2. CASE ReconcileProjectState(a)
  <2> DEFINE seen == at.seen
             usable == Matches(seen) /\ seen.enabled
  <2>1. /\ at.pc = "reconcile"
        /\ binding' = IF usable THEN binding ELSE Cleared(binding)
        /\ project' = StatusOf(seen)
        /\ UNCHANGED <<vault, now, run, canaries, sync, live, paid>>
    BY <1>2 DEF ReconcileProjectState
  <2>2. Settles
    <3> DEFINE b == Cleared(binding)
    <3>1. /\ b \in BindingType /\ b.generation = binding.generation
          /\ b.verified = binding.verified /\ b.observed <= now /\ b.status # "ready"
      BY ClearedSettles
    <3>2. /\ project' \in ProjectType /\ (project' = "active" => binding.verified)
          /\ (project' = "suspended" <=> project = "suspended")
      BY <2>1, StatusIs
    <3> HIDE DEF b
    <3>3. CASE usable
      BY <1>0, <2>1, <3>2, <3>3 DEF Settles
    <3>4. CASE ~ usable
      <4>1. binding' = b
        BY <2>1, <3>4 DEF b
      <4>2. QED BY <3>1, <3>2, <4>1 DEF Settles
    <3>5. QED BY <3>3, <3>4
  <2>3. CASE usable
    <3> DEFINE x == [at EXCEPT !.pc = "balance", !.seen = None,
                               !.generation = seen.generation]
    <3>1. seen \in VaultType /\ live[seen.generation] >= at.at
      BY <1>0, <2>1, <2>3 DEF AttemptGood
    <3>2. seen.generation \in Generations /\ seen.generation \in 0..MaxGeneration
      BY <3>1 DEF VaultType, Generations
    <3>3. /\ x \in AttemptType /\ x.pc = "balance" /\ x.at = at.at
          /\ x.generation = seen.generation
      BY <1>0, <3>2 DEF AttemptType
    <3>4. AttemptGood(x)
      <4> HIDE DEF x
      <4>1. QED BY <1>0, <3>1, <3>2, <3>3 DEF AttemptGood
    <3>5. attempts' = [attempts EXCEPT ![a] = x] /\ loop' = loop
      BY <1>2, <2>3 DEF ReconcileProjectState
    <3> HIDE DEF x
    <3>6. QED BY <1>0, <2>1, <2>2, <3>3, <3>4, <3>5, AttemptBecomes, LocalKeeps
  <2>4. CASE ~ usable
    <3>1. Ends(a, None)
      BY <1>2, <2>4 DEF ReconcileProjectState
    <3>2. QED BY <1>b, <2>1, <2>2, <3>1, AttemptEnds, LocalKeeps
  <2>5. QED BY <2>3, <2>4
<1>3. CASE ReadBalance(a)
  <2> DEFINE x == [at EXCEPT !.pc = "store", !.at = now]
  <2>1. /\ at.pc = "balance" /\ now - at.at <= MaxAge
        /\ attempts' = [attempts EXCEPT ![a] = x]
        /\ UNCHANGED <<vault, now, project, binding, run, loop, canaries, sync, live,
                       paid>>
    BY <1>3 DEF ReadBalance
  <2>2. /\ x \in AttemptType /\ x.pc = "store" /\ x.at = now
        /\ x.generation = at.generation
    BY <1>0 DEF AttemptType
  <2>3. at.generation \in Generations /\ live[at.generation] >= at.at /\ at.at \in 0..MaxTime
    BY <1>0, <2>1 DEF AttemptGood, AttemptType
  <2>4. live[at.generation] \in Int
    BY <2>3 DEF IInv, Types, Never
  <2> HIDE DEF x
  <2>5. AttemptGood(x)
    BY <1>0, <2>1, <2>2, <2>3, <2>4 DEF AttemptGood, Evidence
  <2>6. QED BY <1>0, <1>a, <2>1, <2>2, <2>5, AttemptBecomes, LocalKeeps
<1>4. CASE UpdateProviderCapacity(a)
  <2> DEFINE b == Observed(at.at)
  <2>1. /\ at.pc = "store" /\ Ends(a, None)
        /\ binding' = IF Storable(at.generation, at.at) THEN b ELSE binding
        /\ UNCHANGED <<vault, now, project, run, canaries, sync, live, paid>>
    BY <1>4 DEF UpdateProviderCapacity
  <2>2. Evidence(at.generation, at.at) /\ at.at <= now /\ at.at \in 0..MaxTime
    BY <1>0, <2>1 DEF AttemptGood, AttemptType
  <2>3. /\ b \in BindingType /\ b.generation = binding.generation
        /\ b.verified = binding.verified /\ b.observed = at.at
    BY <2>2, ObservedIs
  <2> HIDE DEF b
  <2>4. Settles
    BY <1>0, <2>1, <2>2, <2>3 DEF Settles, Storable
  <2>5. QED BY <1>b, <2>1, <2>4, AttemptEnds, LocalKeeps
<1>5. CASE FailRefresh(a)
  BY <1>5, <1>a, <1>b, AttemptEnds, LocalKeeps DEF FailRefresh
<1>6. CASE Deadline(a)
  BY <1>0, <1>6, <1>a, LocalKeeps DEF Deadline
<1>7. QED BY <1>1, <1>2, <1>3, <1>4, <1>5, <1>6 DEF Refresh

LEMMA ClearingSteps ==
  ASSUME IInv, MarkCapacityUnavailable \/ InvalidateReorg
  PROVE  IInv'
<1> DEFINE b == Cleared(binding)
<1>0. /\ binding \in BindingType /\ project \in ProjectType
      /\ attempts \in [Attempts -> AttemptType]
      /\ loop \in Attempts \union {None, "mark"}
      /\ \A a \in Attempts : AttemptGood(attempts[a])
      /\ binding.observed <= now
      /\ binding.status = "ready" => Evidence(binding.generation, binding.observed)
      /\ project = "active" => binding.verified
  BY DEF IInv, Types, BindingInv
<1>1. /\ b \in BindingType /\ b.generation = binding.generation
      /\ b.verified = binding.verified /\ b.observed <= now /\ b.status # "ready"
  BY ClearedSettles
<1>2. /\ binding' \in {binding, b}
      /\ loop' \in {loop, None}
      /\ UNCHANGED <<vault, now, project, run, attempts, canaries, sync, live, paid>>
  BY DEF MarkCapacityUnavailable, InvalidateReorg
<1> HIDE DEF b
<1>3. Settles
  BY <1>0, <1>1, <1>2 DEF Settles
<1>4. QED BY <1>0, <1>2, <1>3, LocalKeeps

(************************************ The canary ******************************)
\* A canary that changes only the run and the payments of its own generation
\* leaves the others good.
LEMMA OthersGood ==
  ASSUME IInv, NEW c \in Canaries, NEW g \in Generations, NEW x \in CanaryType,
         UNCHANGED <<now, live>>,
         canaries' = [canaries EXCEPT ![c] = x],
         x.pc # "idle" => x.generation = g,
         \A h \in Generations \ {g} : run'[h] = run[h] /\ paid'[h] = paid[h],
         \A d \in Canaries \ {c} : canaries[d].pc # "idle" => canaries[d].generation # g
  PROVE  /\ canaries' \in [Canaries -> CanaryType]
         /\ canaries'[c] = x
         /\ \A d \in Canaries \ {c} : CanaryGood(canaries[d])'
         /\ CanariesApart'
<1>1. canaries \in [Canaries -> CanaryType]
  BY DEF IInv, Types
<1>2. /\ canaries' \in [Canaries -> CanaryType]
      /\ canaries'[c] = x
      /\ \A d \in Canaries \ {c} : canaries'[d] = canaries[d]
  BY <1>1
<1>3. ASSUME NEW d \in Canaries \ {c} PROVE CanaryGood(canaries[d])'
  <2> DEFINE y == canaries[d]
  <2>1. CanaryGood(y) /\ canaries'[d] = y
    BY <1>2 DEF IInv
  <2>2. CASE y.pc = "idle"
    BY <2>1, <2>2 DEF CanaryGood
  <2>3. CASE y.pc # "idle"
    <3>1. y.generation \in Generations \ {g}
      BY <2>1, <2>3 DEF CanaryGood
    <3>2. run'[y.generation] = run[y.generation] /\ paid'[y.generation] = paid[y.generation]
      BY <3>1
    <3>3. QED BY <2>1, <3>2 DEF CanaryGood, Evidence
  <2>4. QED BY <2>2, <2>3
<1>4. CanariesApart'
  <2> SUFFICES ASSUME NEW d \in Canaries, NEW e \in Canaries,
                      canaries'[d].pc # "idle", canaries'[e].pc # "idle",
                      canaries'[d].generation = canaries'[e].generation
               PROVE  d = e
    BY DEF CanariesApart
  <2>1. CASE d = c \/ e = c
    BY <1>2, <2>1
  <2>2. CASE d # c /\ e # c
    BY <1>2, <2>2 DEF IInv, CanariesApart
  <2>3. QED BY <2>1, <2>2
<1>5. QED BY <1>2, <1>3, <1>4

\* A step of a canary keeps what it says of itself, of the runs and the binding;
\* the rest stays.
LEMMA CanaryKeeps ==
  ASSUME IInv, NEW c \in Canaries, NEW g \in Generations, NEW x \in CanaryType,
         UNCHANGED <<vault, now, attempts, loop, sync, live>>,
         canaries' = [canaries EXCEPT ![c] = x],
         x.pc # "idle" => x.generation = g,
         run' \in [Generations -> RunType], paid' \in [Generations -> Nat],
         \A h \in Generations \ {g} : run'[h] = run[h] /\ paid'[h] = paid[h],
         \A d \in Canaries \ {c} : canaries[d].pc # "idle" => canaries[d].generation # g,
         binding' \in BindingType, project' \in ProjectType,
         binding'.generation = binding.generation,
         CanaryGood(canaries[c])', RunGood(g)', BindingInv'
  PROVE  IInv'
<1>1. /\ canaries' \in [Canaries -> CanaryType]
      /\ canaries'[c] = x
      /\ \A d \in Canaries \ {c} : CanaryGood(canaries[d])'
      /\ CanariesApart'
  BY OthersGood
<1>3. \A d \in Canaries : CanaryGood(canaries[d])'
  BY <1>1
<1>4. ASSUME NEW h \in Generations PROVE RunGood(h)'
  <2>1. CASE h = g
    BY <2>1
  <2>2. CASE h # g
    BY <2>2 DEF IInv, RunGood
  <2>3. QED BY <2>1, <2>2
<1>5. Types'
  BY <1>1 DEF IInv, Types
<1>6. LiveInv' /\ SyncInv'
  BY DEF IInv, LiveInv, SyncInv
<1>7. ASSUME NEW a \in Attempts PROVE AttemptGood(attempts[a])'
  BY DEF IInv, AttemptGood, Evidence
<1>8. QED BY <1>1, <1>3, <1>4, <1>5, <1>6, <1>7 DEF IInv

LEMMA CanarySteps ==
  ASSUME IInv, NEW c \in Canaries,
         \/ BeginCanary(c)
         \/ ReadCapacity(c, "before", "save") \/ SaveCapacity(c, "save", "reserve")
         \/ Submit(c)
         \/ Infer(c)
         \/ ReadCapacity(c, "after", "confirm")
         \/ SaveCapacity(c, "confirm", "activation")
         \/ Activate(c)
         \/ EndCanary(c)
  PROVE  IInv'
<1>c. PICK at : at = canaries[c]
  OBVIOUS
<1>g. PICK g : g = at.generation
  OBVIOUS
<1>0. /\ at \in CanaryType /\ CanaryGood(at) /\ now \in 0..MaxTime
      /\ binding \in BindingType /\ project \in ProjectType
      /\ run \in [Generations -> RunType] /\ paid \in [Generations -> Nat]
      /\ live \in [Generations -> Never..MaxTime]
      /\ canaries \in [Canaries -> CanaryType]
      /\ BindingInv /\ LiveInv
      /\ \A h \in Generations : RunGood(h)
      /\ binding.generation \in Generations
  BY <1>c DEF IInv, Types, BindingType
<1>a. ASSUME at.pc # "idle"
      PROVE  /\ g \in Generations
             /\ \A d \in Canaries \ {c} :
                  canaries[d].pc # "idle" => canaries[d].generation # g
  BY <1>0, <1>a, <1>c, <1>g DEF CanaryGood, IInv, CanariesApart
\* Steps that leave runs, payments and binding alone.
<1>b. ASSUME NEW x \in CanaryType, at.pc # "idle", x.pc # "idle" => x.generation = g,
             canaries' = [canaries EXCEPT ![c] = x], CanaryGood(x),
             UNCHANGED <<vault, now, project, binding, run, attempts, loop, sync, live,
                         paid>>
      PROVE  IInv'
  <2>0. canaries'[c] = x
    BY <1>0, <1>b
  <2>1. CanaryGood(canaries[c])' /\ RunGood(g)' /\ BindingInv'
    BY <1>0, <1>a, <1>b, <2>0 DEF CanaryGood, RunGood, BindingInv, Evidence
  <2>2. QED BY <1>0, <1>a, <1>b, <2>1, CanaryKeeps
<1>1. CASE BeginCanary(c)
  <2>0. PICK h : h = binding.generation
    OBVIOUS
  <2> DEFINE x == [pc |-> "before", generation |-> h, observed |-> 0]
  <2>1. /\ run[h] = "none" /\ run' = [run EXCEPT ![h] = "prepared"]
        /\ canaries' = [canaries EXCEPT ![c] = x]
        /\ UNCHANGED <<vault, now, project, binding, attempts, loop, sync, live, paid>>
    BY <1>1, <2>0 DEF BeginCanary
  <2>2. x \in CanaryType
    BY <1>0, <2>0 DEF CanaryType, Generations, BeforePaying
  <2>3. \A d \in Canaries \ {c} : canaries[d].pc # "idle" => canaries[d].generation # h
    BY <1>0, <2>0, <2>1 DEF IInv, CanaryGood
  <2>4. run' \in [Generations -> RunType] /\ run'[h] = "prepared"
    BY <1>0, <2>0, <2>1 DEF RunType
  <2>5. paid[h] = 0
    BY <1>0, <2>0, <2>1 DEF RunGood
  <2>6. CanaryGood(canaries[c])'
    BY <1>0, <1>g, <2>0, <2>1, <2>4, <2>5 DEF CanaryGood, BeforePaying, AfterPaying
  <2>7. RunGood(h)'
    BY <1>0, <2>0, <2>1, <2>4, <2>5 DEF RunGood, Generations
  <2>8. BindingInv'
    <3>1. ~ binding.verified
      BY <1>0, <2>0, <2>1 DEF BindingInv
    <3>2. QED BY <1>0, <2>0, <2>1, <2>4, <3>1 DEF BindingInv, Evidence
  <2>9. \A j \in Generations \ {h} : run'[j] = run[j] /\ paid'[j] = paid[j]
    BY <1>0, <2>0, <2>1
  <2>10. x.generation = h
    OBVIOUS
  <2> HIDE DEF x
  <2>11. QED BY <1>0, <2>0, <2>1, <2>2, <2>3, <2>4, <2>6, <2>7, <2>8, <2>9, <2>10, CanaryKeeps
<1>2. ASSUME NEW from, NEW to, ReadCapacity(c, from, to),
             \/ from = "before" /\ to = "save"
             \/ from = "after" /\ to = "confirm"
      PROVE  IInv'
  <2> DEFINE x == [at EXCEPT !.pc = to, !.observed = now]
  <2>1. /\ at.pc = from /\ vault.enabled /\ vault.generation = g
        /\ canaries' = [canaries EXCEPT ![c] = x]
        /\ UNCHANGED <<vault, now, project, binding, run, attempts, loop, sync, live,
                       paid>>
    BY <1>2, <1>c, <1>g DEF ReadCapacity
  <2>2. /\ x \in CanaryType /\ x.pc = to /\ x.generation = g /\ x.observed = now
    BY <1>0, <1>2, <1>g DEF CanaryType, BeforePaying, AfterPaying
  <2>3. Evidence(g, now)
    BY <1>0, <1>2, <1>a, <2>1 DEF Evidence, LiveInv
  <2> HIDE DEF x
  <2>4. CanaryGood(x)
    BY <1>0, <1>2, <1>g, <2>1, <2>2, <2>3 DEF CanaryGood, BeforePaying, AfterPaying
  <2>5. at.pc # "idle"
    BY <1>2, <2>1
  <2>6. QED BY <1>b, <2>1, <2>2, <2>4, <2>5
<1>3. ASSUME NEW from, NEW to, SaveCapacity(c, from, to),
             \/ from = "save" /\ to = "reserve"
             \/ from = "confirm" /\ to = "activation"
      PROVE  IInv'
  <2> DEFINE x == [at EXCEPT !.pc = to]
             b == Observed(at.observed)
  <2>1. /\ at.pc = from /\ Storable(g, at.observed) /\ binding' = b
        /\ canaries' = [canaries EXCEPT ![c] = x]
        /\ UNCHANGED <<vault, now, project, run, attempts, loop, sync, live, paid>>
    BY <1>3, <1>c, <1>g DEF SaveCapacity, Continue
  <2>2. /\ x \in CanaryType /\ x.pc = to /\ x.generation = g /\ x.observed = at.observed
    BY <1>0, <1>3, <1>g DEF CanaryType, BeforePaying, AfterPaying
  <2>3. /\ Evidence(g, at.observed) /\ at.observed <= now
        /\ at.observed \in 0..MaxTime /\ at.pc # "idle"
    BY <1>0, <1>3, <1>g, <2>1 DEF CanaryGood, CanaryType
  <2>4. /\ b \in BindingType /\ b.generation = binding.generation
        /\ b.verified = binding.verified /\ b.observed = at.observed
    BY <2>3, ObservedIs
  <2>5. binding.generation = g
    BY <2>1 DEF Storable
  <2> HIDE DEF x, b
  <2>6. CanaryGood(canaries[c])'
    BY <1>0, <1>g, <1>3, <2>1, <2>2 DEF CanaryGood, BeforePaying, AfterPaying
  <2>7. RunGood(g)'
    BY <1>0, <1>a, <2>1, <2>3, <2>4 DEF RunGood
  <2>8. BindingInv'
    BY <1>0, <2>1, <2>3, <2>4, <2>5 DEF BindingInv, Evidence
  <2>9. QED BY <1>0, <1>a, <2>1, <2>2, <2>3, <2>4, <2>6, <2>7, <2>8, CanaryKeeps
<1>4. CASE Submit(c)
  <2> DEFINE x == [at EXCEPT !.pc = "inference"]
  <2>1. /\ at.pc = "reserve" /\ run[g] = "prepared"
        /\ run' = [run EXCEPT ![g] = "submitted"]
        /\ canaries' = [canaries EXCEPT ![c] = x]
        /\ UNCHANGED <<vault, now, project, binding, attempts, loop, sync, live, paid>>
    BY <1>4, <1>c, <1>g DEF Submit, Continue
  <2>2. /\ x \in CanaryType /\ x.pc = "inference" /\ x.generation = g
        /\ x.observed = at.observed
    BY <1>0, <1>g DEF CanaryType, BeforePaying
  <2>3. g \in Generations /\ at.pc # "idle"
    BY <1>a, <2>1
  <2>4. /\ run' \in [Generations -> RunType] /\ run'[g] = "submitted"
        /\ \A j \in Generations \ {g} : run'[j] = run[j] /\ paid'[j] = paid[j]
    BY <1>0, <2>1, <2>3 DEF RunType
  <2> HIDE DEF x
  <2>5. CanaryGood(canaries[c])'
    BY <1>0, <1>g, <2>1, <2>2, <2>3, <2>4 DEF CanaryGood, BeforePaying, AfterPaying
  <2>6. RunGood(g)'
    BY <1>0, <2>1, <2>3, <2>4 DEF RunGood
  <2>7. BindingInv'
    <3>1. (run'[binding.generation] = "completed") <=> (run[binding.generation] = "completed")
      BY <1>0, <2>1, <2>3, <2>4
    <3>2. QED BY <1>0, <2>1, <3>1 DEF BindingInv, Evidence
  <2>8. QED BY <1>0, <1>a, <2>1, <2>2, <2>3, <2>4, <2>5, <2>6, <2>7, CanaryKeeps
<1>5. CASE Infer(c)
  <2> DEFINE x == [at EXCEPT !.pc = "after"]
  <2>1. /\ at.pc = "inference" /\ vault.enabled /\ vault.generation = g
        /\ paid' = [paid EXCEPT ![g] = @ + 1]
        /\ canaries' = [canaries EXCEPT ![c] = x]
        /\ UNCHANGED <<vault, now, project, binding, run, attempts, loop, sync, live>>
    BY <1>5, <1>c, <1>g DEF Infer, Continue
  <2>2. /\ x \in CanaryType /\ x.pc = "after" /\ x.generation = g
        /\ x.observed = at.observed
    BY <1>0, <1>g DEF CanaryType, AfterPaying
  <2>3. g \in Generations /\ at.pc # "idle" /\ paid[g] = 0 /\ live[g] = now /\ now # Never
    BY <1>0, <1>a, <1>g, <2>1 DEF CanaryGood, BeforePaying, LiveInv, Never
  <2>4. /\ paid' \in [Generations -> Nat] /\ paid'[g] = 1
        /\ \A j \in Generations \ {g} : run'[j] = run[j] /\ paid'[j] = paid[j]
    BY <1>0, <2>1, <2>3
  <2> HIDE DEF x
  <2>5. CanaryGood(canaries[c])'
    BY <1>0, <1>g, <2>1, <2>2, <2>3, <2>4 DEF CanaryGood, BeforePaying, AfterPaying
  <2>6. RunGood(g)'
    BY <1>0, <1>g, <2>1, <2>3, <2>4 DEF RunGood, CanaryGood
  <2>7. BindingInv'
    BY <1>0, <2>1 DEF BindingInv, Evidence
  <2>8. QED BY <1>0, <1>a, <2>1, <2>2, <2>3, <2>4, <2>5, <2>6, <2>7, CanaryKeeps
<1>6. CASE Activate(c)
  <2> DEFINE b == [binding EXCEPT !.verified = TRUE]
  <2>1. /\ at.pc = "activation" /\ Confirms(c) /\ binding' = b /\ project' = "active"
        /\ run' = [run EXCEPT ![g] = "completed"]
        /\ canaries' = [canaries EXCEPT ![c] = Resting]
        /\ UNCHANGED <<vault, now, attempts, loop, sync, live, paid>>
    BY <1>6, <1>c, <1>g DEF Activate
  <2>2. Resting \in CanaryType /\ Resting.pc = "idle"
    BY DEF Resting, CanaryType
  <2>3. g \in Generations /\ at.pc # "idle" /\ paid[g] = 1 /\ binding.generation = g
    BY <1>0, <1>a, <1>c, <1>g, <2>1 DEF CanaryGood, AfterPaying, Confirms
  <2>4. /\ run' \in [Generations -> RunType] /\ run'[g] = "completed"
        /\ \A j \in Generations \ {g} : run'[j] = run[j] /\ paid'[j] = paid[j]
    BY <1>0, <2>1, <2>3 DEF RunType
  <2>5. b \in BindingType
    BY <1>0, Zenon DEF BindingType
  <2>6. /\ b.generation = binding.generation /\ b.verified = TRUE
        /\ b.observed = binding.observed /\ b.status = binding.status
    BY <1>0, Zenon DEF BindingType
  <2> HIDE DEF b
  <2>a. /\ binding' \in BindingType /\ binding'.generation = binding.generation
        /\ UNCHANGED <<vault, now, attempts, loop, sync, live, paid>>
    BY <2>1, <2>5, <2>6
  <2>7. RunGood(g)'
    <3>1. RunGood(g) /\ g <= binding.generation
      BY <1>0, <2>3 DEF Generations
    <3>2. QED BY <2>3, <2>4, <2>a, <3>1 DEF RunGood
  <2>8. BindingInv'
    BY <1>0, <2>1, <2>3, <2>4, <2>6 DEF BindingInv, Evidence
  <2>9. CanaryGood(canaries[c])'
    BY <1>0, <1>g, <2>1, <2>2 DEF CanaryGood
  <2>10. project' \in ProjectType
    BY <2>1 DEF ProjectType
  <2>11. canaries' = [canaries EXCEPT ![c] = Resting] /\ paid' \in [Generations -> Nat]
    BY <1>0, <2>1
  <2>12. \A d \in Canaries \ {c} : canaries[d].pc # "idle" => canaries[d].generation # g
    BY <1>a, <2>3
  <2>13. QED BY <2>2, <2>3, <2>4, <2>a, <2>7, <2>8, <2>9, <2>10, <2>11, <2>12, CanaryKeeps
<1>7. CASE EndCanary(c)
  <2>1. /\ at.pc # "idle"
        /\ \/ run' = run
           \/ run[g] \in {"prepared", "submitted"} /\ run' = [run EXCEPT ![g] = "uncertain"]
        /\ canaries' = [canaries EXCEPT ![c] = Resting]
        /\ UNCHANGED <<vault, now, project, binding, attempts, loop, sync, live, paid>>
    BY <1>7, <1>c, <1>g DEF EndCanary
  <2>2. Resting \in CanaryType /\ Resting.pc = "idle"
    BY DEF Resting, CanaryType
  <2>3. g \in Generations
    BY <1>a, <2>1
  <2>4. /\ run' \in [Generations -> RunType]
        /\ \A j \in Generations : /\ (run'[j] = "completed") <=> (run[j] = "completed")
                                  /\ (run'[j] = "none") <=> (run[j] = "none")
                                  /\ j # g => run'[j] = run[j]
    BY <1>0, <2>1, <2>3 DEF RunType
  <2>5. RunGood(g)'
    BY <1>0, <2>1, <2>3, <2>4 DEF RunGood
  <2>6. BindingInv'
    BY <1>0, <2>1, <2>4 DEF BindingInv, Evidence
  <2>7. CanaryGood(canaries[c])'
    BY <1>0, <1>g, <2>1, <2>2 DEF CanaryGood
  <2>8. QED BY <1>0, <1>a, <2>1, <2>2, <2>3, <2>4, <2>5, <2>6, <2>7, CanaryKeeps
<1>8. QED BY <1>1, <1>2, <1>3, <1>4, <1>5, <1>6, <1>7

(*************************** The creator and the operator *********************)
\* A step that changes the binding and the project, or the synchronization, as
\* long as the binding stays true and its generation does not fall.
LEMMA BindingKeeps ==
  ASSUME IInv, UNCHANGED <<vault, now, run, attempts, loop, canaries, live, paid>>,
         binding' \in BindingType, project' \in ProjectType,
         binding'.generation >= binding.generation,
         sync' = None \/ sync' \in SyncType,
         SyncInv', BindingInv'
  PROVE  IInv'
<1>1. Types'
  BY DEF IInv, Types
<1>2. LiveInv' /\ CanariesApart'
  BY DEF IInv, LiveInv, CanariesApart
<1>3. ASSUME NEW a \in Attempts PROVE AttemptGood(attempts[a])'
  BY DEF IInv, AttemptGood, Evidence
<1>4. ASSUME NEW c \in Canaries PROVE CanaryGood(canaries[c])'
  BY DEF IInv, CanaryGood, Evidence
<1>5. ASSUME NEW g \in Generations PROVE RunGood(g)'
  <2>1. binding.generation \in Int /\ binding'.generation \in Int /\ g \in Int
    BY DEF IInv, Types, BindingType, Generations
  <2>2. QED BY <2>1 DEF IInv, RunGood
<1>6. QED BY <1>1, <1>2, <1>3, <1>4, <1>5 DEF IInv

LEMMA SyncSteps ==
  ASSUME IInv, ProveSync \/ CommitSync
  PROVE  IInv'
<1>0. /\ binding \in BindingType /\ project \in ProjectType /\ BindingInv
      /\ binding.generation \in Generations /\ vault \in VaultType
      /\ vault.generation \in Generations /\ LiveInv
      /\ now \in 0..MaxTime
      /\ \A g \in Generations : RunGood(g)
  BY DEF IInv, Types, BindingType, VaultType
<1>1. CASE ProveSync
  <2> DEFINE new == [from |-> binding.generation, generation |-> vault.generation,
                     enabled |-> vault.enabled]
  <2>1. /\ sync' = new /\ vault.generation >= binding.generation
        /\ UNCHANGED <<vault, now, project, binding, run, attempts, loop, canaries,
                       live, paid>>
    BY <1>1 DEF ProveSync
  <2>2. vault.enabled \in BOOLEAN
    BY <1>0, Zenon DEF VaultType
  <2>3. new \in SyncType
    BY <1>0, <2>2, Zenon DEF SyncType
  <2>4. SyncInv'
    <3>1. ~ vault.enabled => live[vault.generation] = Never
      BY <1>0 DEF LiveInv
    <3>2. /\ new.from = binding.generation /\ new.generation = vault.generation
          /\ new.enabled = vault.enabled
      BY Zenon
    <3> HIDE DEF new
    <3>3. QED BY <1>0, <2>1, <3>1, <3>2 DEF SyncInv, Generations
  <2>5. BindingInv'
    BY <1>0, <2>1 DEF BindingInv, Evidence
  <2> HIDE DEF new
  <2>6. QED BY <1>0, <2>1, <2>3, <2>4, <2>5, BindingKeeps DEF Generations
<1>2. CASE CommitSync
  <2> DEFINE writes == /\ binding.generation = sync.from
                       /\ binding.status # "disabled"
                       /\ sync.generation # sync.from \/ ~ sync.enabled
             b == [status |-> "pending", generation |-> sync.generation,
                   observed |-> Never, verified |-> FALSE]
  <2>1. /\ sync # None /\ sync' = None
        /\ UNCHANGED <<vault, now, run, attempts, loop, canaries, live, paid>>
        /\ writes => binding' = b /\ project' = IF project = "active" THEN "accumulating"
                                                                    ELSE project
        /\ ~ writes => UNCHANGED <<binding, project>>
    BY <1>2 DEF CommitSync
  <2>2. /\ sync \in SyncType /\ sync.generation \in Generations
        /\ sync.from <= sync.generation /\ sync.generation <= vault.generation
        /\ ~ sync.enabled => live[sync.generation] = Never
    BY <2>1 DEF IInv, Types, SyncInv, SyncType
  <2>3. SyncInv'
    BY <2>1 DEF SyncInv
  <2>4. CASE writes
    \* The new generation has no completed proof: either it is newer than every
    \* run, or it is one whose switch has never been on.
    <3>1. run[sync.generation] # "completed"
      <4>1. CASE sync.generation # sync.from
        <5>1. sync.generation > binding.generation
          BY <1>0, <2>2, <2>4, <4>1 DEF Generations
        <5>2. QED BY <1>0, <2>2, <5>1 DEF RunGood, Generations
      <4>2. CASE ~ sync.enabled
        BY <1>0, <2>2, <4>2 DEF RunGood
      <4>3. QED BY <2>4, <4>1, <4>2
    <3>2. b \in BindingType
      <4>1. Never \in Never..MaxTime
        BY DEF Never
      <4>2. QED BY <2>2, <4>1, Zenon DEF BindingType
    <3>3. /\ binding'.generation = sync.generation /\ binding'.status = "pending"
          /\ binding'.observed = Never /\ ~ binding'.verified /\ binding' \in BindingType
      <4>1. binding' = b
        BY <2>1, <2>4
      <4>2. /\ b.generation = sync.generation /\ b.status = "pending"
            /\ b.observed = Never /\ b.verified = FALSE
        BY Zenon
      <4> HIDE DEF b
      <4>3. QED BY <3>2, <4>1, <4>2
    <3>4. /\ project' \in ProjectType /\ project' # "active"
      BY <1>0, <2>1, <2>4 DEF ProjectType
    <3>5. Never <= now
      BY <1>0 DEF Never
    <3>6. UNCHANGED <<vault, now, run, live>>
      BY <2>1
    <3>7. BindingInv'
      BY <2>2, <3>1, <3>3, <3>4, <3>5, <3>6 DEF BindingInv
    <3>8. binding'.generation >= binding.generation
      BY <1>0, <2>2, <2>4, <3>3
    <3>9. QED BY <2>1, <2>3, <3>3, <3>4, <3>7, <3>8, BindingKeeps
  <2>5. CASE ~ writes
    <3>1. UNCHANGED <<binding, project>>
      BY <2>1, <2>5
    <3>2. BindingInv'
      BY <1>0, <2>1, <3>1 DEF BindingInv, Evidence
    <3> HIDE DEF writes, b
    <3>3. QED BY <1>0, <2>1, <2>3, <3>1, <3>2, BindingKeeps DEF Generations
  <2>6. QED BY <2>4, <2>5
<1>3. QED BY <1>1, <1>2

LEMMA OperatorSteps ==
  ASSUME IInv, Disable \/ Suspend
  PROVE  IInv'
<1>0. /\ binding \in BindingType /\ project \in ProjectType /\ BindingInv
      /\ binding.generation \in Generations /\ now \in 0..MaxTime
      /\ sync = None \/ sync \in SyncType
      /\ SyncInv
  BY DEF IInv, Types, BindingType
<1>1. CASE Disable
  <2> DEFINE b == [binding EXCEPT !.status = "disabled"]
  <2>1. /\ binding' = b
        /\ UNCHANGED <<vault, now, project, run, attempts, loop, canaries, sync, live,
                       paid>>
    BY <1>1 DEF Disable
  <2>2. b \in BindingType
    BY <1>0, Zenon DEF BindingType
  <2>3. /\ b.status = "disabled" /\ b.generation = binding.generation
        /\ b.observed = binding.observed /\ b.verified = binding.verified
    BY <1>0, Zenon DEF BindingType
  <2> HIDE DEF b
  <2>4. BindingInv' /\ SyncInv'
    BY <1>0, <2>1, <2>3 DEF BindingInv, SyncInv
  <2>5. binding'.generation >= binding.generation
    BY <1>0, <2>1, <2>3 DEF Generations
  <2>6. QED BY <1>0, <2>1, <2>2, <2>4, <2>5, BindingKeeps
<1>2. CASE Suspend
  <2> DEFINE d == Cleared(binding)
             b == [d EXCEPT !.observed = Never, !.verified = FALSE]
  <2>1. /\ binding' = b /\ project' = "suspended"
        /\ UNCHANGED <<vault, now, run, attempts, loop, canaries, sync, live, paid>>
    BY <1>2 DEF Suspend
  <2>2. /\ d \in BindingType /\ d.generation = binding.generation /\ d.status # "ready"
    BY ClearedSettles
  <2>3. Never \in Never..MaxTime /\ Never <= now
    BY <1>0 DEF Never
  <2> HIDE DEF d
  <2>4. b \in BindingType
    BY <2>2, <2>3, Zenon DEF BindingType
  <2>5. /\ b.status = d.status /\ b.generation = binding.generation
        /\ b.observed = Never /\ b.verified = FALSE
    BY <2>2, Zenon DEF BindingType
  <2> HIDE DEF b
  <2>6. BindingInv' /\ SyncInv'
    BY <1>0, <2>1, <2>2, <2>3, <2>5 DEF BindingInv, SyncInv
  <2>7. binding'.generation >= binding.generation /\ project' \in ProjectType
    BY <1>0, <2>1, <2>5 DEF Generations, ProjectType
  <2>8. QED BY <1>0, <2>1, <2>4, <2>6, <2>7, BindingKeeps
<1>3. QED BY <1>1, <1>2

(********************************** Theorems **********************************)
\* The invariant holds throughout.
THEOREM Inductive == Spec => []IInv
<1>1. IInv /\ [Next]_vars => IInv'
  <2> SUFFICES ASSUME IInv, [Next]_vars PROVE IInv'
    OBVIOUS
  <2>1. CASE Advance \/ (\E on \in BOOLEAN : Turn(on)) \/ Tick
    BY <2>1, VaultSteps
  <2>2. ASSUME NEW a \in Attempts, StartRefresh(a) \/ Refresh(a) \/ Deadline(a)
        PROVE  IInv'
    BY <2>2, RefreshSteps
  <2>3. CASE MarkCapacityUnavailable \/ InvalidateReorg
    BY <2>3, ClearingSteps
  <2>4. ASSUME NEW c \in Canaries,
               \/ BeginCanary(c)
               \/ ReadCapacity(c, "before", "save") \/ SaveCapacity(c, "save", "reserve")
               \/ Submit(c)
               \/ Infer(c)
               \/ ReadCapacity(c, "after", "confirm")
               \/ SaveCapacity(c, "confirm", "activation")
               \/ Activate(c)
               \/ EndCanary(c)
        PROVE  IInv'
    BY <2>4, CanarySteps
  <2>5. CASE ProveSync \/ CommitSync
    BY <2>5, SyncSteps
  <2>6. CASE Disable \/ Suspend
    BY <2>6, OperatorSteps
  <2>7. CASE UNCHANGED vars
    <3>1. UNCHANGED <<vault, now, project, binding, run, attempts, loop, canaries, sync,
                      live, paid>>
      BY <2>7 DEF vars
    <3>2. /\ binding \in BindingType /\ project \in ProjectType
          /\ binding.generation >= binding.generation
          /\ sync = None \/ sync \in SyncType
      BY DEF IInv, Types, BindingType, Generations
    <3>3. SyncInv' /\ BindingInv'
      BY <3>1 DEF IInv, SyncInv, BindingInv, Evidence
    <3>4. QED BY <3>1, <3>2, <3>3, BindingKeeps
  <2>8. QED BY <2>1, <2>2, <2>3, <2>4, <2>5, <2>6, <2>7 DEF Next
<1>2. QED BY InitIInv, <1>1, PTL DEF Spec

\* Types, the binding's generation and the time of its observation.
THEOREM Typing == Spec => []TypeOK
BY Inductive, IInvIsEnough, PTL

\* What a reservation relies on was true at most the two windows ago.
THEOREM ReadinessIsEvidenced == Spec => []ReadyIsEvidenced
BY Inductive, IInvIsEnough, PTL

\* Only a completed, paid canary of its own generation verifies a project.
THEOREM VerificationIsProven == Spec => []VerifiedIsProven
BY Inductive, IInvIsEnough, PTL

\* A completed proof is never lost while its generation is bound.
THEOREM ProofsStay == Spec => []ProvenStaysVerified
BY Inductive, IInvIsEnough, PTL

\* No generation's canary is paid twice.
THEOREM PaidOnceInAGeneration == Spec => []CanaryPaysOnce
BY Inductive, IInvIsEnough, PTL

\* No writer revives a suspended project.
THEOREM SuspensionStays == Spec => SuspendedStays
<1>1. ASSUME IInv, IInv', [Next]_vars, project = "suspended"
      PROVE  project' = "suspended"
  <2>1. ASSUME NEW a \in Attempts, ReconcileProjectState(a) PROVE project' = "suspended"
    BY <1>1, <2>1, StatusIs DEF ReconcileProjectState
  <2>2. ASSUME NEW c \in Canaries, Activate(c) PROVE FALSE
    BY <1>1, <2>2 DEF Activate, Confirms
  <2>3. CASE CommitSync
    BY <1>1, <2>3 DEF CommitSync
  <2>4. CASE Suspend
    BY <2>4 DEF Suspend
  <2>5. CASE \/ Advance \/ (\E on \in BOOLEAN : Turn(on)) \/ Tick
             \/ MarkCapacityUnavailable \/ InvalidateReorg \/ ProveSync \/ Disable
             \/ UNCHANGED vars
    BY <1>1, <2>5 DEF Advance, Turn, VaultMoves, Tick, MarkCapacityUnavailable,
                      InvalidateReorg, ProveSync, Disable, vars
  <2>6. ASSUME NEW a \in Attempts,
               \/ StartRefresh(a) \/ ReadBalance(a) \/ UpdateProviderCapacity(a)
               \/ FailRefresh(a) \/ Deadline(a)
        PROVE  project' = "suspended"
    BY <1>1, <2>6 DEF StartRefresh, ReadBalance, UpdateProviderCapacity, FailRefresh,
                      Deadline
  <2>7. ASSUME NEW c \in Canaries,
               \/ BeginCanary(c) \/ Submit(c) \/ Infer(c) \/ EndCanary(c)
               \/ ReadCapacity(c, "before", "save") \/ SaveCapacity(c, "save", "reserve")
               \/ ReadCapacity(c, "after", "confirm")
               \/ SaveCapacity(c, "confirm", "activation")
        PROVE  project' = "suspended"
    BY <1>1, <2>7 DEF BeginCanary, ReadCapacity, SaveCapacity, Submit, Infer, EndCanary
  <2>8. QED BY <1>1, <2>1, <2>2, <2>3, <2>4, <2>5, <2>6, <2>7 DEF Next, Refresh
<1>2. ASSUME IInv, IInv', [Next]_vars
      PROVE  project = "suspended" => project' = "suspended" /\ ~ binding'.verified
  BY <1>1, <1>2 DEF IInv, BindingInv
<1>3. QED BY <1>2, Inductive, PTL DEF Spec, SuspendedStays
==============================================================================
