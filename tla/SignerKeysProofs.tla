---------------------------- MODULE SignerKeysProofs ----------------------------
(* For every set of projects, signers and requests and any number of          *)
(* generations and encryption keys: a binding is a state its vault had, no    *)
(* signer is shared, no binding goes back and no revoked envelope returns.    *)
EXTENDS SignerKeys, TLAPS

USE SignerAssumption DEF SignerAssumption

Reign(p, g, s) == [project |-> p, generation |-> g, signer |-> s]

CallType ==
  [pc : {"idle", "register", "sync", "rotate", "register!", "sync!", "rotate!"},
   project : Maybe(Projects), signer : Maybe(Signers), seen : Maybe(Signers),
   key : Nat, from : Nat, generation : Nat, on : BOOLEAN]

VaultType == [signer : Maybe(Signers), generation : Nat, enabled : BOOLEAN,
              dead : BOOLEAN]
PreparationType == [key : Nat, claimed : Maybe(Projects), expired : BOOLEAN]
BindingType == [status : {"none", "live", "disabled"}, signer : Maybe(Signers),
                generation : Nat, key : Nat]
ReignType == [project : Projects, generation : Nat, signer : Signers]

Types ==
  /\ vault \in [Projects -> VaultType]
  /\ preparations \in [Signers -> PreparationType]
  /\ bindings \in [Projects -> BindingType]
  /\ calls \in [Calls -> CallType]
  /\ current \in Nat /\ previous \in Nat
  /\ rotating = None \/ rotating \in SUBSET Projects
  /\ reign \subseteq ReignType

\* An envelope's generation is one the vault has reached, the vault's own
\* generation has its signer, and a vault not launched has none.
ReignInv ==
  /\ \A e \in reign : e.generation >= 1 /\ e.generation <= vault[e.project].generation
  /\ \A p \in Projects : vault[p].generation >= 1 =>
       Reign(p, vault[p].generation, vault[p].signer) \in reign
  /\ \A p \in Projects : vault[p].generation = 0 => vault[p].signer = None

\* A request that has its proof proved a state the vault had.
CallInv(c) ==
  LET call == calls[c]
  IN  /\ call.pc # "idle" => call.project \in Projects /\ call.signer \in Signers
      /\ Proven(call.pc) =>
           /\ Reign(call.project, call.generation, call.signer) \in reign
           /\ call.generation >= call.from
      /\ call.pc \in {"sync", "sync!"} => call.signer = call.seen
      /\ call.pc \in {"sync", "rotate", "sync!", "rotate!"} => Bound(call.project)

\* A binding's signer is claimed by its project.
BindingInv(p) ==
  /\ Bound(p) =>
       /\ bindings[p].signer \in Signers
       /\ preparations[bindings[p].signer].claimed = p
       /\ Reign(p, bindings[p].generation, bindings[p].signer) \in reign
  /\ ~ Bound(p) => bindings[p].generation = 0

ClaimInv == \A s \in Signers : preparations[s].claimed # None =>
              Bound(preparations[s].claimed)

IInv ==
  /\ Types
  /\ ReignInv
  /\ \A c \in Calls : CallInv(c)
  /\ \A p \in Projects : BindingInv(p)
  /\ ClaimInv

\* What the invariant says at once.
LEMMA IInvIsEnough == IInv => TypeOK /\ BindingWasOnChain /\ SignersApart
<1> SUFFICES ASSUME IInv PROVE TypeOK /\ BindingWasOnChain /\ SignersApart
  OBVIOUS
<1>1. ASSUME NEW p \in Projects PROVE bindings[p].generation <= vault[p].generation
  <2>1. CASE Bound(p)
    <3> DEFINE e == Reign(p, bindings[p].generation, bindings[p].signer)
    <3>1. e \in reign /\ e.project = p /\ e.generation = bindings[p].generation
      BY <2>1 DEF IInv, BindingInv, Reign
    <3>2. e.generation <= vault[e.project].generation
      BY <3>1 DEF IInv, ReignInv
    <3>3. QED BY <3>1, <3>2
  <2>2. CASE ~ Bound(p)
    <3>1. bindings[p].generation = 0 /\ vault[p].generation \in Nat
      BY <2>2 DEF IInv, BindingInv, Types, VaultType
    <3>2. QED BY <3>1
  <2>3. QED BY <2>1, <2>2
<1>2. TypeOK
  BY <1>1 DEF IInv, Types, TypeOK, ClaimInv, VaultType, PreparationType, BindingType
<1>3. BindingWasOnChain
  BY DEF IInv, BindingInv, BindingWasOnChain, Reign
<1>4. SignersApart
  <2> SUFFICES ASSUME NEW p \in Projects, NEW q \in Projects, Bound(p), Bound(q),
                      bindings[p].signer = bindings[q].signer
               PROVE  p = q
    BY DEF SignersApart
  <2>1. BindingInv(p) /\ BindingInv(q)
    BY DEF IInv
  <2>2. QED BY <2>1 DEF BindingInv
<1>5. QED BY <1>2, <1>3, <1>4

LEMMA InitIInv == Init => IInv
<1> SUFFICES ASSUME Init PROVE IInv
  OBVIOUS
<1>1. Types
  <2>1. vault \in [Projects -> VaultType]
    BY DEF Init, VaultType, Maybe
  <2>2. preparations \in [Signers -> PreparationType]
    BY DEF Init, PreparationType, Maybe, NoVersion
  <2>3. bindings \in [Projects -> BindingType]
    BY DEF Init, BindingType, Maybe, NoVersion
  <2>4. calls \in [Calls -> CallType]
    BY DEF Init, CallType, Maybe, Idle, NoVersion
  <2>5. current \in Nat /\ previous \in Nat /\ rotating = None /\ reign = {}
    BY DEF Init, NoVersion
  <2>6. QED BY <2>1, <2>2, <2>3, <2>4, <2>5 DEF Types
<1>2. ReignInv
  BY DEF Init, ReignInv
<1>3. \A c \in Calls : CallInv(c)
  BY DEF Init, CallInv, Idle, Proven
<1>4. \A p \in Projects : BindingInv(p)
  BY DEF Init, BindingInv, Bound
<1>5. ClaimInv
  BY DEF Init, ClaimInv
<1>6. QED BY <1>1, <1>2, <1>3, <1>4, <1>5 DEF IInv

(*********************************** The vault ********************************)
\* A step of a vault begins a generation.
VaultStep(p, to) ==
  /\ Reigns(p, to)
  /\ to \in VaultType
  /\ to.signer \in Signers
  /\ to.generation = vault[p].generation + 1

\* Every call of a vault is such a step: a vault that can be administered has a
\* signer, that of its current generation.
LEMMA VaultCalls ==
  ASSUME IInv, NEW p \in Projects,
         \/ \E s \in Signers : Deploy(p, s) \/ SetInferenceSigner(p, s)
         \/ \E on \in BOOLEAN : SetAuthenticationEnabled(p, on)
         \/ DisableAuthentication(p)
  PROVE  \E to \in VaultType : VaultStep(p, to)
<1> DEFINE v == vault[p]
<1>0. v \in VaultType /\ v.generation + 1 \in Nat
  <2>1. v \in VaultType
    BY DEF IInv, Types
  <2>2. QED BY <2>1 DEF VaultType
<1>1. ASSUME v.generation >= 1 PROVE v.signer \in Signers
  <2>1. Reign(p, v.generation, v.signer) \in ReignType
    BY <1>1 DEF IInv, ReignInv, Types
  <2>2. QED BY <2>1 DEF Reign, ReignType
<1>2. ASSUME NEW s \in Signers, Deploy(p, s) PROVE \E to \in VaultType : VaultStep(p, to)
  <2> DEFINE to == [signer |-> s, generation |-> 1, enabled |-> TRUE, dead |-> FALSE]
  <2>1. to \in VaultType /\ to.signer = s /\ to.generation = 1
    BY DEF VaultType, Maybe
  <2>2. v.generation = 0 /\ Reigns(p, to)
    BY <1>2 DEF Deploy
  <2>3. VaultStep(p, to)
    BY <2>1, <2>2 DEF VaultStep
  <2>4. QED BY <2>1, <2>3
<1>3. ASSUME NEW s \in Signers, SetInferenceSigner(p, s)
      PROVE  \E to \in VaultType : VaultStep(p, to)
  <2> DEFINE to == [v EXCEPT !.generation = @ + 1, !.signer = s]
  <2>0. to \in VaultType
    BY <1>0, Zenon DEF VaultType, Maybe
  <2>1. to.signer = s /\ to.generation = v.generation + 1
    BY <1>0 DEF VaultType
  <2>2. Reigns(p, to)
    BY <1>3 DEF SetInferenceSigner
  <2>3. VaultStep(p, to)
    BY <2>0, <2>1, <2>2 DEF VaultStep
  <2>4. QED BY <2>0, <2>3
<1>4. ASSUME NEW on \in BOOLEAN, SetAuthenticationEnabled(p, on)
      PROVE  \E to \in VaultType : VaultStep(p, to)
  <2> DEFINE to == [v EXCEPT !.generation = @ + 1, !.enabled = on]
  <2>0. to \in VaultType
    BY <1>0, Zenon DEF VaultType, Maybe
  <2>1. to.signer = v.signer /\ to.generation = v.generation + 1
    BY <1>0 DEF VaultType
  <2>2. Reigns(p, to) /\ Administrable(p)
    BY <1>4 DEF SetAuthenticationEnabled
  <2>3. VaultStep(p, to)
    BY <1>1, <2>0, <2>1, <2>2 DEF VaultStep, Administrable
  <2>4. QED BY <2>0, <2>3
<1>5. ASSUME DisableAuthentication(p) PROVE \E to \in VaultType : VaultStep(p, to)
  <2> DEFINE to == [v EXCEPT !.generation = @ + 1, !.enabled = FALSE, !.dead = TRUE]
  <2>0. to \in VaultType
    BY <1>0, Zenon DEF VaultType, Maybe
  <2>1. to.signer = v.signer /\ to.generation = v.generation + 1
    BY <1>0 DEF VaultType
  <2>2. Reigns(p, to) /\ v.generation >= 1
    BY <1>5 DEF DisableAuthentication, Administrable
  <2>3. VaultStep(p, to)
    BY <1>1, <2>0, <2>1, <2>2 DEF VaultStep
  <2>4. QED BY <2>0, <2>3
<1>6. QED BY <1>2, <1>3, <1>4, <1>5

LEMMA VaultStepKeeps ==
  ASSUME IInv, NEW p \in Projects, NEW to \in VaultType, VaultStep(p, to)
  PROVE  IInv'
<1> DEFINE new == Reign(p, to.generation, to.signer)
<1>0. /\ vault' = [vault EXCEPT ![p] = to]
      /\ reign' = reign \union {new}
      /\ UNCHANGED <<preparations, bindings, calls, current, previous, rotating>>
      /\ to.signer \in Signers
      /\ vault[p].generation \in Nat
      /\ to.generation = vault[p].generation + 1
      /\ \A q \in Projects : vault'[q] = IF q = p THEN to ELSE vault[q]
  BY DEF VaultStep, Reigns, Reign, IInv, Types, VaultType
<1>1. Types'
  <2>1. vault' \in [Projects -> VaultType]
    BY <1>0 DEF IInv, Types
  <2>2. new \in ReignType
    BY <1>0 DEF Reign, ReignType
  <2>3. reign' \subseteq ReignType
    BY <1>0, <2>2 DEF IInv, Types
  <2>4. QED BY <1>0, <2>1, <2>3 DEF IInv, Types
<1>2. ReignInv'
  <2>1. ASSUME NEW e \in reign'
        PROVE  e.generation >= 1 /\ e.generation <= vault'[e.project].generation
    <3>1. CASE e = new
      BY <1>0, <3>1 DEF Reign
    <3>2. CASE e \in reign
      <4>1. /\ e.project \in Projects /\ e.generation \in Nat /\ e.generation >= 1
            /\ e.generation <= vault[e.project].generation
        BY <3>2 DEF IInv, ReignInv, Types, ReignType
      <4>2. CASE e.project = p
        BY <1>0, <4>1, <4>2
      <4>3. CASE e.project # p
        BY <1>0, <4>1, <4>3
      <4>4. QED BY <4>2, <4>3
    <3>3. QED BY <1>0, <3>1, <3>2
  <2>2. ASSUME NEW q \in Projects, vault'[q].generation >= 1
        PROVE  Reign(q, vault'[q].generation, vault'[q].signer) \in reign'
    <3>1. CASE q = p
      BY <1>0, <3>1
    <3>2. CASE q # p
      BY <1>0, <2>2, <3>2 DEF IInv, ReignInv
    <3>3. QED BY <3>1, <3>2
  <2>3. ASSUME NEW q \in Projects, vault'[q].generation = 0
        PROVE  vault'[q].signer = None
    <3>1. q # p
      BY <1>0, <2>3
    <3>2. QED BY <1>0, <2>3, <3>1 DEF IInv, ReignInv
  <2>4. QED BY <2>1, <2>2, <2>3 DEF ReignInv, Reign
<1>3. ASSUME NEW c \in Calls PROVE CallInv(c)'
  BY <1>0 DEF IInv, CallInv, Bound, Proven, Reign
<1>4. ASSUME NEW q \in Projects PROVE BindingInv(q)'
  BY <1>0 DEF IInv, BindingInv, Bound, Reign
<1>5. ClaimInv'
  BY <1>0 DEF IInv, ClaimInv, Bound
<1>6. QED BY <1>1, <1>2, <1>3, <1>4, <1>5 DEF IInv

(********************************** Preparations *******************************)
\* A preparation is made or expires: its claim stays.
LEMMA PreparationKeeps ==
  ASSUME IInv, NEW s \in Signers, Prepare(s) \/ Expire(s)
  PROVE  IInv'
<1>0. /\ UNCHANGED <<vault, bindings, calls, current, previous, rotating, reign>>
      /\ preparations' \in [Signers -> PreparationType]
      /\ \A t \in Signers : preparations'[t].claimed = preparations[t].claimed
  <2>1. preparations \in [Signers -> PreparationType] /\ current \in Nat
    BY DEF IInv, Types
  <2>2. CASE Prepare(s)
    BY <2>1, <2>2 DEF Prepare, PreparationType
  <2>3. CASE Expire(s)
    BY <2>1, <2>3 DEF Expire, PreparationType
  <2>4. QED BY <2>2, <2>3
<1>1. Types'
  BY <1>0 DEF IInv, Types
<1>2. ReignInv'
  BY <1>0 DEF IInv, ReignInv, Reign
<1>3. ASSUME NEW c \in Calls PROVE CallInv(c)'
  BY <1>0 DEF IInv, CallInv, Bound, Proven, Reign
<1>4. ASSUME NEW q \in Projects PROVE BindingInv(q)'
  BY <1>0 DEF IInv, BindingInv, Bound, Reign
<1>5. ClaimInv'
  BY <1>0 DEF IInv, ClaimInv, Bound
<1>6. QED BY <1>1, <1>2, <1>3, <1>4, <1>5 DEF IInv

(*********************************** Requests **********************************)
\* A request that reads, proves or gives up changes nothing but itself.
LEMMA RequestKeeps ==
  ASSUME IInv, NEW c \in Calls,
         \/ \E p \in Projects, s \in Signers : StartRegister(c, p, s)
         \/ \E p \in Projects, s \in Signers \union {None} : StartSync(c, p, s)
         \/ Verify(c)
         \/ GiveUp(c)
  PROVE  IInv'
<1>0. /\ vault \in [Projects -> VaultType]
      /\ preparations \in [Signers -> PreparationType]
      /\ bindings \in [Projects -> BindingType]
      /\ calls \in [Calls -> CallType]
  BY DEF IInv, Types
<1> DEFINE Alone ==
      /\ UNCHANGED <<vault, preparations, bindings, current, previous, rotating, reign>>
      /\ \A d \in Calls \ {c} : calls'[d] = calls[d]
      /\ calls' \in [Calls -> CallType]
      /\ CallInv(c)'
<1>1. Alone
  <2>1. ASSUME NEW p \in Projects, NEW s \in Signers, StartRegister(c, p, s)
        PROVE  Alone
    <3> DEFINE new == [Idle EXCEPT !.pc = "register", !.project = p, !.signer = s,
                                   !.key = preparations[s].key]
    <3>1. new \in CallType
      BY <1>0 DEF CallType, Idle, Maybe, NoVersion, PreparationType
    <3>2. /\ calls' = [calls EXCEPT ![c] = new]
          /\ UNCHANGED <<vault, preparations, bindings, current, previous, rotating, reign>>
      BY <2>1 DEF StartRegister
    <3>3. calls'[c] = new /\ new.pc = "register" /\ new.project = p /\ new.signer = s
      BY <1>0, <3>2 DEF Idle
    <3>4. CallInv(c)'
      BY <3>3 DEF CallInv, Proven
    <3>5. QED BY <1>0, <3>1, <3>2, <3>4
  <2>2. ASSUME NEW p \in Projects, NEW s \in Signers \union {None}, StartSync(c, p, s)
        PROVE  Alone
    <3> DEFINE new == [Idle EXCEPT
          !.pc = IF s = None THEN "sync" ELSE "rotate",
          !.project = p,
          !.signer = IF s = None THEN bindings[p].signer ELSE s,
          !.key = IF s = None THEN NoVersion ELSE preparations[s].key,
          !.seen = bindings[p].signer,
          !.from = bindings[p].generation]
    <3>0. Bound(p) /\ bindings[p].signer \in Signers
      BY <2>2 DEF StartSync, IInv, BindingInv
    <3>1. new \in CallType
      <4>1. bindings[p].generation \in Nat
        BY <1>0 DEF BindingType
      <4>2. s # None => preparations[s].key \in Nat
        BY <1>0 DEF PreparationType
      <4>3. QED BY <3>0, <4>1, <4>2 DEF CallType, Idle, Maybe, NoVersion
    <3>2. /\ calls' = [calls EXCEPT ![c] = new]
          /\ UNCHANGED <<vault, preparations, bindings, current, previous, rotating, reign>>
      BY <2>2 DEF StartSync
    <3>3. /\ calls'[c] = new /\ new.pc \in {"sync", "rotate"} /\ new.project = p
          /\ new.signer \in Signers
          /\ new.pc = "sync" => new.signer = new.seen
      BY <1>0, <3>0, <3>2 DEF Idle
    <3>4. Bound(p)'
      BY <3>0, <3>2 DEF Bound
    <3>5. CallInv(c)'
      BY <3>3, <3>4 DEF CallInv, Proven
    <3>6. QED BY <1>0, <3>1, <3>2, <3>5
  <2>3. ASSUME Verify(c) PROVE Alone
    <3> DEFINE call == calls[c]
               v == vault[call.project]
    <3>1. /\ call.pc \in {"register", "sync", "rotate"} /\ v.signer = call.signer
          /\ v.generation >= call.from
          /\ calls' = [calls EXCEPT ![c].pc = ProvenAs(call.pc),
                                    ![c].generation = v.generation,
                                    ![c].on = v.enabled]
          /\ UNCHANGED <<vault, preparations, bindings, current, previous, rotating, reign>>
      BY <2>3 DEF Verify
    <3>2. call \in CallType /\ call.project \in Projects /\ call.signer \in Signers
      BY <1>0, <3>1 DEF IInv, CallInv
    <3>3. v.generation \in Nat /\ v.enabled \in BOOLEAN
      BY <1>0, <3>2 DEF VaultType
    <3>4. /\ calls'[c] = [call EXCEPT !.pc = ProvenAs(call.pc),
                                     !.generation = v.generation, !.on = v.enabled]
          /\ \A d \in Calls \ {c} : calls'[d] = calls[d]
          /\ calls' \in [Calls -> CallType]
      <4>1. [call EXCEPT !.pc = ProvenAs(call.pc), !.generation = v.generation,
                         !.on = v.enabled] \in CallType
        BY <3>1, <3>2, <3>3 DEF CallType, ProvenAs
      <4>2. QED BY <1>0, <3>1, <4>1
    <3>5. v.generation >= 1 /\ Reign(call.project, v.generation, v.signer) \in reign
      <4>1. v.generation >= 1
        <5>1. v.signer # None
          BY <3>1, <3>2
        <5>2. QED BY <3>2, <3>3, <5>1 DEF IInv, ReignInv
      <4>2. QED BY <3>2, <4>1 DEF IInv, ReignInv
    <3>6. CallInv(c)'
      <4>1. CallInv(c)
        BY DEF IInv
      <4>2. calls'[c].pc = ProvenAs(call.pc) /\ calls'[c].project = call.project
            /\ calls'[c].signer = call.signer /\ calls'[c].seen = call.seen
            /\ calls'[c].from = call.from /\ calls'[c].generation = v.generation
        BY <3>2, <3>4 DEF CallType
      <4>3. reign' = reign /\ bindings' = bindings
        BY <3>1
      <4>4. /\ calls'[c].pc \in {"register!", "sync!", "rotate!"}
            /\ calls'[c].pc = "sync!" => call.pc = "sync"
            /\ calls'[c].pc \in {"sync!", "rotate!"} => call.pc \in {"sync", "rotate"}
        <5>1. CASE call.pc = "register"
          <6>1. calls'[c].pc = "register!"
            BY <4>2, <5>1 DEF ProvenAs
          <6>2. QED BY <6>1
        <5>2. CASE call.pc = "sync"
          <6>1. calls'[c].pc = "sync!"
            BY <4>2, <5>2 DEF ProvenAs
          <6>2. QED BY <5>2, <6>1
        <5>3. CASE call.pc = "rotate"
          <6>1. calls'[c].pc = "rotate!"
            BY <4>2, <5>3 DEF ProvenAs
          <6>2. QED BY <5>3, <6>1
        <5>4. QED BY <3>1, <5>1, <5>2, <5>3
      <4>5. /\ calls'[c].signer = v.signer
            /\ calls'[c].generation >= calls'[c].from
        BY <3>1, <4>2
      <4>6. Reign(calls'[c].project, calls'[c].generation, calls'[c].signer) \in reign'
        BY <3>5, <4>2, <4>3, <4>5
      <4>7. calls'[c].pc \in {"sync", "sync!"} => calls'[c].signer = calls'[c].seen
        BY <4>1, <4>2, <4>4 DEF CallInv
      <4>8. calls'[c].pc \in {"sync", "rotate", "sync!", "rotate!"} =>
              bindings'[calls'[c].project].status # "none"
        BY <4>1, <4>2, <4>3, <4>4 DEF CallInv, Bound
      <4>9. QED BY <3>2, <4>2, <4>5, <4>6, <4>7, <4>8 DEF CallInv, Reign, Bound
    <3>7. QED BY <3>1, <3>4, <3>6
  <2>4. ASSUME GiveUp(c) PROVE Alone
    <3>1. Idle \in CallType /\ Idle.pc = "idle"
      BY DEF CallType, Idle, Maybe, NoVersion
    <3>2. /\ calls' = [calls EXCEPT ![c] = Idle]
          /\ UNCHANGED <<vault, preparations, bindings, current, previous, rotating, reign>>
      BY <2>4 DEF GiveUp
    <3>3. CallInv(c)'
      BY <1>0, <3>1, <3>2 DEF CallInv, Proven
    <3>4. QED BY <1>0, <3>1, <3>2, <3>3
  <2>5. QED BY <2>1, <2>2, <2>3, <2>4
<1>2. Types'
  BY <1>1 DEF IInv, Types
<1>3. ReignInv'
  BY <1>1 DEF IInv, ReignInv, Reign
<1>4. ASSUME NEW d \in Calls PROVE CallInv(d)'
  <2>1. CASE d = c
    BY <1>1, <2>1
  <2>2. CASE d # c
    BY <1>1, <2>2 DEF IInv, CallInv, Bound, Proven, Reign
  <2>3. QED BY <2>1, <2>2
<1>5. ASSUME NEW q \in Projects PROVE BindingInv(q)'
  BY <1>1 DEF IInv, BindingInv, Bound, Reign
<1>6. ClaimInv'
  BY <1>1 DEF IInv, ClaimInv, Bound
<1>7. QED BY <1>2, <1>3, <1>4, <1>5, <1>6 DEF IInv

\* A transaction that binds project p to signer s at a generation the vault had
\* claims the signer, which was free or p's own, and ends its request.
BindsTo(c, p, s, b) ==
  /\ b \in BindingType /\ b.status = "live" /\ b.signer = s
  /\ Reign(p, b.generation, s) \in reign
  /\ preparations[s].claimed \in {None, p}
  /\ preparations' = [preparations EXCEPT ![s].claimed = p]
  /\ bindings' = [bindings EXCEPT ![p] = b]
  /\ calls' = [calls EXCEPT ![c] = Idle]
  /\ UNCHANGED <<vault, current, previous, rotating, reign>>

LEMMA BindsToKeeps ==
  ASSUME IInv, NEW c \in Calls, NEW p \in Projects, NEW s \in Signers, NEW b,
         BindsTo(c, p, s, b)
  PROVE  IInv'
<1>0. /\ preparations \in [Signers -> PreparationType]
      /\ bindings \in [Projects -> BindingType]
      /\ calls \in [Calls -> CallType]
      /\ Idle \in CallType /\ Idle.pc = "idle"
  BY DEF IInv, Types, CallType, Idle, Maybe, NoVersion
<1>1. /\ UNCHANGED <<vault, current, previous, rotating, reign>>
      /\ preparations' \in [Signers -> PreparationType]
      /\ preparations'[s].claimed = p
      /\ \A t \in Signers \ {s} : preparations'[t] = preparations[t]
      /\ bindings' \in [Projects -> BindingType]
      /\ \A q \in Projects : bindings'[q] = IF q = p THEN b ELSE bindings[q]
      /\ calls' \in [Calls -> CallType]
      /\ calls'[c] = Idle
      /\ \A d \in Calls \ {c} : calls'[d] = calls[d]
      /\ b.status = "live" /\ b.signer = s
      /\ Reign(p, b.generation, s) \in reign
      /\ preparations[s].claimed \in {None, p}
  BY <1>0 DEF BindsTo, PreparationType, Maybe
<1>2. Types'
  BY <1>1 DEF IInv, Types
<1>3. ReignInv'
  BY <1>1 DEF IInv, ReignInv, Reign
<1>4. \A q \in Projects : Bound(q) => Bound(q)'
  BY <1>1 DEF Bound
<1>5. ASSUME NEW d \in Calls PROVE CallInv(d)'
  <2>1. CASE d = c
    BY <1>0, <1>1, <2>1 DEF CallInv, Proven
  <2>2. CASE d # c
    <3>1. CallInv(d) /\ calls'[d] = calls[d] /\ reign' = reign
      BY <1>1, <2>2 DEF IInv
    <3>2. QED BY <1>4, <3>1 DEF CallInv, Proven, Reign
  <2>3. QED BY <2>1, <2>2
<1>6. ASSUME NEW q \in Projects PROVE BindingInv(q)'
  <2>1. CASE q = p
    BY <1>1, <2>1 DEF BindingInv, Bound, Reign
  <2>2. CASE q # p
    <3>1. BindingInv(q) /\ bindings'[q] = bindings[q] /\ reign' = reign
      BY <1>1, <2>2 DEF IInv
    <3>2. CASE Bound(q)
      <4>1. preparations[bindings[q].signer].claimed = q /\ bindings[q].signer \in Signers
        BY <3>1, <3>2 DEF BindingInv
      <4>2. bindings[q].signer # s
        BY <1>1, <2>2, <4>1
      <4>3. preparations'[bindings[q].signer].claimed = q
        BY <1>1, <4>1, <4>2
      <4>4. QED BY <3>1, <3>2, <4>1, <4>3 DEF BindingInv, Bound, Reign
    <3>3. CASE ~ Bound(q)
      BY <3>1, <3>3 DEF BindingInv, Bound
    <3>4. QED BY <3>2, <3>3
  <2>3. QED BY <2>1, <2>2
<1>7. ClaimInv'
  <2> SUFFICES ASSUME NEW t \in Signers, preparations'[t].claimed # None
               PROVE  Bound(preparations[t].claimed)'
    BY DEF ClaimInv
  <2>1. CASE t = s
    BY <1>1, <2>1 DEF Bound
  <2>2. CASE t # s
    <3>1. preparations'[t].claimed = preparations[t].claimed
      BY <1>1, <2>2
    <3>2. preparations[t].claimed \in Projects
      BY <1>0, <3>1 DEF PreparationType, Maybe
    <3>3. Bound(preparations[t].claimed)
      BY <3>1 DEF IInv, ClaimInv
    <3>4. QED BY <1>4, <3>1, <3>2, <3>3
  <2>3. QED BY <2>1, <2>2
<1>8. QED BY <1>2, <1>3, <1>5, <1>6, <1>7 DEF IInv

LEMMA CommitRegisterBinds ==
  ASSUME IInv, NEW c \in Calls, CommitRegister(c)
  PROVE  LET call == calls[c] IN
         /\ call.project \in Projects /\ call.signer \in Signers
         /\ ~ Bound(call.project)
         /\ BindsTo(c, call.project, call.signer,
              [status |-> "live", signer |-> call.signer,
               generation |-> call.generation, key |-> call.key])
<1> DEFINE call == calls[c]
<1>1. call \in CallType /\ CallInv(c)
  BY DEF IInv, Types
<1>2. call.pc = "register!" /\ ~ Bound(call.project)
  BY DEF CommitRegister
<1>3. /\ call.project \in Projects /\ call.signer \in Signers
      /\ Reign(call.project, call.generation, call.signer) \in reign
  BY <1>1, <1>2 DEF CallInv, Proven
<1>4. [status |-> "live", signer |-> call.signer, generation |-> call.generation,
       key |-> call.key] \in BindingType
  BY <1>1, <1>3 DEF BindingType, CallType, Maybe
<1>5. QED BY <1>2, <1>3, <1>4 DEF CommitRegister, BindsTo, Free

\* A synchronization binds too, if only to what was bound before.
LEMMA CommitSyncBinds ==
  ASSUME IInv, NEW c \in Calls, CommitSync(c)
  PROVE  LET call == calls[c] IN
         /\ call.project \in Projects /\ call.signer \in Signers
         /\ call.generation >= bindings[call.project].generation
         /\ \E b \in BindingType : /\ BindsTo(c, call.project, call.signer, b)
                                  /\ b.generation = call.generation
<1> DEFINE call == calls[c]
           p == call.project
           b == bindings[p]
           s == call.signer
           new == [status |-> "live", signer |-> call.signer,
                   generation |-> call.generation,
                   key |-> IF call.pc = "rotate!" THEN call.key ELSE b.key]
<1>1. call \in CallType /\ CallInv(c)
  BY DEF IInv, Types
<1>2. call.pc \in {"sync!", "rotate!"} /\ Unmoved(c)
  BY DEF CommitSync
<1>3. /\ p \in Projects /\ s \in Signers /\ Bound(p)
      /\ Reign(p, call.generation, s) \in reign /\ call.generation >= call.from
      /\ call.pc = "sync!" => s = call.seen
  BY <1>1, <1>2 DEF CallInv, Proven
<1>4. b.signer = call.seen /\ b.generation = call.from /\ b.status # "disabled"
  BY <1>2 DEF Unmoved
<1>5. b \in BindingType /\ BindingInv(p)
  BY <1>3 DEF IInv, Types
<1>6. /\ preparations \in [Signers -> PreparationType]
      /\ bindings \in [Projects -> BindingType]
  BY DEF IInv, Types
<1>7. new \in BindingType
  BY <1>1, <1>3, <1>5 DEF BindingType, CallType, Maybe
<1>8. preparations[s].claimed \in {None, p}
  <2>1. CASE call.pc = "rotate!"
    BY <2>1 DEF CommitSync, Claimable
  <2>2. CASE call.pc = "sync!"
    BY <1>3, <1>4, <1>5, <2>2 DEF BindingInv
  <2>3. QED BY <1>2, <2>1, <2>2
<1>9. preparations' = [preparations EXCEPT ![s].claimed = p]
  <2>1. CASE call.pc = "rotate!"
    BY <2>1 DEF CommitSync
  <2>2. CASE call.pc = "sync!"
    <3>1. preparations[s].claimed = p /\ preparations' = preparations
      BY <1>3, <1>4, <1>5, <2>2 DEF BindingInv, CommitSync
    <3>2. QED BY <1>3, <1>6, <3>1 DEF PreparationType
  <2>3. QED BY <1>2, <2>1, <2>2
<1>10. CASE b.signer # s \/ b.generation # call.generation \/ ~ call.on
  <2>1. bindings' = [bindings EXCEPT ![p] = new]
    BY <1>10 DEF CommitSync
  <2>2. BindsTo(c, p, s, new)
    BY <1>3, <1>7, <1>8, <1>9, <2>1 DEF CommitSync, BindsTo
  <2>3. QED BY <1>3, <1>4, <1>7, <2>2
<1>11. CASE b.signer = s /\ b.generation = call.generation /\ call.on
  <2>1. bindings' = [bindings EXCEPT ![p] = b]
    BY <1>3, <1>6, <1>11 DEF CommitSync
  <2>2. b.status = "live"
    BY <1>3, <1>4, <1>5 DEF Bound, BindingType
  <2>3. BindsTo(c, p, s, b)
    BY <1>3, <1>5, <1>8, <1>9, <1>11, <2>1, <2>2 DEF CommitSync, BindsTo
  <2>4. QED BY <1>3, <1>4, <1>5, <1>11, <2>3
<1>12. QED BY <1>10, <1>11

(******************************* Encryption keys ******************************)
\* Disabling a binding, a new key, the rotation and the end of the previous key
\* leave signers, generations and claims alone.
LEMMA KeyStepsKeep ==
  ASSUME IInv,
         \/ \E p \in Projects : Disable(p)
         \/ DeployKey \/ LockBindings \/ RotatePreparations \/ RemovePrevious
  PROVE  /\ IInv'
         /\ \A p \in Projects : bindings'[p].generation = bindings[p].generation
         /\ UNCHANGED <<vault, reign>>
<1>0. /\ preparations \in [Signers -> PreparationType]
      /\ bindings \in [Projects -> BindingType]
      /\ current \in Nat /\ previous \in Nat
      /\ rotating = None \/ rotating \in SUBSET Projects
  BY DEF IInv, Types
<1> DEFINE Apart ==
      /\ UNCHANGED <<vault, calls, reign>>
      /\ preparations' \in [Signers -> PreparationType]
      /\ bindings' \in [Projects -> BindingType]
      /\ current' \in Nat /\ previous' \in Nat
      /\ rotating' = None \/ rotating' \in SUBSET Projects
      /\ \A s \in Signers : preparations'[s].claimed = preparations[s].claimed
      /\ \A p \in Projects : /\ bindings'[p].signer = bindings[p].signer
                             /\ bindings'[p].generation = bindings[p].generation
                             /\ Bound(p)' <=> Bound(p)
<1>1. Apart
  <2>1. ASSUME NEW p \in Projects, Disable(p) PROVE Apart
    BY <1>0, <2>1 DEF Disable, BindingType, Bound
  <2>2. CASE DeployKey
    BY <1>0, <2>2 DEF DeployKey, Bound
  <2>3. CASE LockBindings
    BY <1>0, <2>3 DEF LockBindings, Bound
  <2>4. CASE RotatePreparations
    <3> DEFINE scope == {s \in Signers : InScope(s)}
               written == [q \in Projects |->
                             IF q \in rotating THEN [bindings[q] EXCEPT !.key = current]
                                               ELSE bindings[q]]
               prepared == [s \in Signers |->
                              IF s \in scope THEN [preparations[s] EXCEPT !.key = current]
                                             ELSE preparations[s]]
    <3>1. /\ written \in [Projects -> BindingType]
          /\ \A q \in Projects : /\ written[q].signer = bindings[q].signer
                                 /\ written[q].generation = bindings[q].generation
                                 /\ written[q].status = bindings[q].status
      BY <1>0 DEF BindingType
    <3>2. /\ prepared \in [Signers -> PreparationType]
          /\ \A s \in Signers : prepared[s].claimed = preparations[s].claimed
      BY <1>0 DEF PreparationType
    <3>3. \/ bindings' = written /\ preparations' = prepared
          \/ UNCHANGED <<bindings, preparations>>
      BY <2>4 DEF RotatePreparations
    <3>4. UNCHANGED <<vault, calls, current, previous, reign>> /\ rotating' = None
      BY <2>4 DEF RotatePreparations
    <3> HIDE DEF written, prepared
    <3>5. QED BY <1>0, <3>1, <3>2, <3>3, <3>4 DEF Bound
  <2>5. CASE RemovePrevious
    BY <1>0, <2>5 DEF RemovePrevious, Bound, NoVersion
  <2>6. QED BY <2>1, <2>2, <2>3, <2>4, <2>5
<1>2. Types'
  BY <1>1 DEF IInv, Types
<1>3. ReignInv'
  BY <1>1 DEF IInv, ReignInv, Reign
<1>4. ASSUME NEW d \in Calls PROVE CallInv(d)'
  <2>1. CallInv(d) /\ calls'[d] = calls[d] /\ reign' = reign
    BY <1>1 DEF IInv
  <2>2. calls[d].pc # "idle" => calls[d].project \in Projects
    BY <2>1 DEF CallInv
  <2>3. QED BY <1>1, <2>1, <2>2 DEF CallInv, Proven, Reign
<1>5. ASSUME NEW q \in Projects PROVE BindingInv(q)'
  <2>1. BindingInv(q)
    BY DEF IInv
  <2>2. QED BY <1>1, <2>1 DEF BindingInv, Reign
<1>6. ClaimInv'
  <2> SUFFICES ASSUME NEW t \in Signers, preparations'[t].claimed # None
               PROVE  Bound(preparations[t].claimed)'
    BY DEF ClaimInv
  <2>1. preparations'[t].claimed = preparations[t].claimed
    BY <1>1
  <2>2. preparations[t].claimed \in Projects
    BY <1>0, <2>1 DEF PreparationType, Maybe
  <2>3. Bound(preparations[t].claimed)
    BY <2>1 DEF IInv, ClaimInv
  <2>4. QED BY <1>1, <2>1, <2>2, <2>3
<1>7. QED BY <1>1, <1>2, <1>3, <1>4, <1>5, <1>6 DEF IInv

(********************************** Theorems **********************************)
\* What a step may do to the vaults and the bindings.
StepIs(step) ==
  CASE step = "vault" -> \E p \in Projects : \E to \in VaultType : VaultStep(p, to)
    [] step = "binds" ->
         \E c \in Calls, p \in Projects, s \in Signers, b \in BindingType :
           BindsTo(c, p, s, b) /\ b.generation >= bindings[p].generation
    [] OTHER ->
         /\ \A p \in Projects : bindings'[p].generation = bindings[p].generation
         /\ UNCHANGED <<vault, reign>>

LEMMA Steps ==
  ASSUME IInv, [Next]_vars
  PROVE  IInv' /\ (StepIs("vault") \/ StepIs("binds") \/ StepIs("other"))
<1>1. ASSUME NEW p \in Projects, NEW to \in VaultType, VaultStep(p, to)
      PROVE  IInv' /\ StepIs("vault")
  BY <1>1, VaultStepKeeps DEF StepIs
<1>2. ASSUME NEW c \in Calls, NEW p \in Projects, NEW s \in Signers, NEW b \in BindingType,
             BindsTo(c, p, s, b), b.generation >= bindings[p].generation
      PROVE  IInv' /\ StepIs("binds")
  BY <1>2, BindsToKeeps DEF StepIs
<1>3. ASSUME NEW c \in Calls, CommitRegister(c) PROVE IInv' /\ StepIs("binds")
  <2> DEFINE call == calls[c]
             b == [status |-> "live", signer |-> call.signer,
                   generation |-> call.generation, key |-> call.key]
  <2>1. /\ call.project \in Projects /\ call.signer \in Signers
        /\ ~ Bound(call.project) /\ BindsTo(c, call.project, call.signer, b)
    BY <1>3, CommitRegisterBinds
  <2>2. bindings[call.project].generation = 0 /\ call.generation \in Nat
    BY <2>1 DEF IInv, BindingInv, Types, CallType
  <2>3. b \in BindingType /\ b.generation >= bindings[call.project].generation
    BY <2>1, <2>2 DEF BindsTo
  <2> HIDE DEF b
  <2>4. QED BY <1>2, <2>1, <2>3
<1>4. ASSUME NEW c \in Calls, CommitSync(c) PROVE IInv' /\ StepIs("binds")
  BY <1>2, <1>4, CommitSyncBinds
<1>5. ASSUME UNCHANGED vars PROVE IInv' /\ StepIs("other")
  <2>1. UNCHANGED <<vault, preparations, bindings, calls, current, previous, rotating, reign>>
    BY <1>5 DEF vars
  <2>2. Types' /\ ReignInv' /\ ClaimInv'
    BY <2>1 DEF IInv, Types, ReignInv, ClaimInv, Reign, Bound
  <2>3. \A c \in Calls : CallInv(c)'
    BY <2>1 DEF IInv, CallInv, Bound, Proven, Reign
  <2>4. \A p \in Projects : BindingInv(p)'
    BY <2>1 DEF IInv, BindingInv, Bound, Reign
  <2>5. QED BY <2>1, <2>2, <2>3, <2>4 DEF IInv, StepIs
<1>6. ASSUME NEW s \in Signers, Prepare(s) \/ Expire(s) PROVE IInv' /\ StepIs("other")
  BY <1>6, PreparationKeeps DEF StepIs, Prepare, Expire
<1>7. ASSUME NEW c \in Calls,
             \/ \E p \in Projects, s \in Signers : StartRegister(c, p, s)
             \/ \E p \in Projects, s \in Signers \union {None} : StartSync(c, p, s)
             \/ Verify(c)
             \/ GiveUp(c)
      PROVE  IInv' /\ StepIs("other")
  BY <1>7, RequestKeeps DEF StepIs, StartRegister, StartSync, Verify, GiveUp
<1>8. ASSUME \/ \E p \in Projects : Disable(p)
             \/ DeployKey \/ LockBindings \/ RotatePreparations \/ RemovePrevious
      PROVE  IInv' /\ StepIs("other")
  BY <1>8, KeyStepsKeep DEF StepIs
<1>9. ASSUME NEW p \in Projects,
             \/ \E s \in Signers : Deploy(p, s) \/ SetInferenceSigner(p, s)
             \/ \E on \in BOOLEAN : SetAuthenticationEnabled(p, on)
             \/ DisableAuthentication(p)
      PROVE  IInv' /\ StepIs("vault")
  BY <1>1, <1>9, VaultCalls
<1>10. QED BY <1>3, <1>4, <1>5, <1>6, <1>7, <1>8, <1>9 DEF Next

\* The invariant holds throughout.
THEOREM Inductive == Spec => []IInv
<1>1. IInv /\ [Next]_vars => IInv'
  BY Steps
<1>2. QED BY InitIInv, <1>1, PTL DEF Spec

\* Types, and that a claimed preparation belongs to a bound project.
THEOREM Typing == Spec => []TypeOK
BY Inductive, IInvIsEnough, PTL

\* A binding names a signer and a generation its vault had at the same time, for
\* any number of slow requests.
THEOREM BindingsAreTrue == Spec => []BindingWasOnChain
BY Inductive, IInvIsEnough, PTL

\* One prepared signer authenticates for one project only.
THEOREM SignersStayApart == Spec => []SignersApart
BY Inductive, IInvIsEnough, PTL

\* No request takes a binding back to an older generation.
THEOREM BindingsGoForward == Spec => BindingNeverGoesBack
<1>1. ASSUME IInv, [Next]_vars
      PROVE  \A p \in Projects : bindings'[p].generation >= bindings[p].generation
  <2> SUFFICES ASSUME NEW p \in Projects
               PROVE  bindings'[p].generation >= bindings[p].generation
    OBVIOUS
  <2>0. bindings[p].generation \in Nat /\ bindings \in [Projects -> BindingType]
    BY <1>1 DEF IInv, Types, BindingType
  <2>1. CASE StepIs("vault")
    BY <2>0, <2>1 DEF StepIs, VaultStep, Reigns
  <2>2. CASE StepIs("binds")
    <3>1. PICK c \in Calls, q \in Projects, s \in Signers, b \in BindingType :
            BindsTo(c, q, s, b) /\ b.generation >= bindings[q].generation
      BY <2>2 DEF StepIs
    <3>2. bindings' = [bindings EXCEPT ![q] = b]
      BY <3>1 DEF BindsTo
    <3>3. QED BY <2>0, <3>1, <3>2
  <2>3. CASE StepIs("other")
    BY <2>0, <2>3 DEF StepIs
  <2>4. QED BY <1>1, <2>1, <2>2, <2>3, Steps
<1>2. QED BY <1>1, Inductive, PTL DEF Spec, BindingNeverGoesBack

\* Once a vault refuses an envelope it refuses it for ever: whatever makes it
\* refuse also makes its generation the last of that envelope.
THEOREM RevocationIsFinal == Spec => RevokedStaysRevoked
<1>1. ASSUME IInv, [Next]_vars PROVE \A e \in reign : ~ Valid(e) => ~ Valid(e)'
  <2> SUFFICES ASSUME NEW e \in reign, ~ Valid(e) PROVE ~ Valid(e)'
    OBVIOUS
  <2>0. e \in ReignType /\ e.generation <= vault[e.project].generation
    BY <1>1 DEF IInv, ReignInv, Types
  <2>1. CASE StepIs("vault")
    <3>1. PICK p \in Projects : \E to \in VaultType : VaultStep(p, to)
      BY <2>1 DEF StepIs
    <3>2. PICK to \in VaultType : VaultStep(p, to)
      BY <3>1
    <3>3. /\ vault' = [vault EXCEPT ![p] = to]
          /\ to.generation = vault[p].generation + 1
      BY <3>2 DEF VaultStep, Reigns
    <3>4. vault \in [Projects -> VaultType]
      BY <1>1 DEF IInv, Types
    <3>5. CASE e.project = p
      <4>1. vault'[e.project] = to
        BY <3>3, <3>4, <3>5
      <4>2. e.generation \in Nat /\ vault[p].generation \in Nat
        BY <2>0, <3>4 DEF ReignType, VaultType
      <4>3. e.generation # to.generation
        BY <2>0, <3>3, <3>5, <4>2
      <4>4. QED BY <4>1, <4>3 DEF Valid
    <3>6. CASE e.project # p
      BY <1>1, <2>0, <3>3, <3>4, <3>6 DEF Valid, ReignType
    <3>7. QED BY <3>5, <3>6
  <2>2. CASE StepIs("binds")
    BY <1>1, <2>2 DEF StepIs, BindsTo, Valid
  <2>3. CASE StepIs("other")
    BY <1>1, <2>3 DEF StepIs, Valid
  <2>4. QED BY <1>1, <2>1, <2>2, <2>3, Steps
<1>2. QED BY <1>1, Inductive, PTL DEF Spec, RevokedStaysRevoked
==============================================================================
