------------------------------ MODULE SignerKeys ------------------------------
(* Who may authenticate for a vault at Venice, and with which key.  A creator  *)
(* prepares a signer (services/auth-signer), names it on the vault            *)
(* (TelligenceVeniceAuth.sol) and binds it to a project by registering or     *)
(* synchronizing (services/gateway); the vault's generation tells which of the *)
(* envelopes the signer has issued are still good.  The private keys are       *)
(* stored encrypted, and the operator rotates the encryption key.              *)
(* A request handler is a process: it reads, waits for the chain, and commits  *)
(* one transaction; between its steps anything else may happen.                *)
EXTENDS Integers, FiniteSets

CONSTANTS
  Projects,             \* revnets with their vaults, all of one creator
  Signers,              \* signers that get prepared
  Calls,                \* requests to register or synchronize, at one time
  None,
  MaxGeneration,        \* bound: generations a vault goes through
  Versions              \* bound: encryption keys the host goes through

ASSUME SignerAssumption ==
  /\ None \notin Projects \union Signers
  /\ MaxGeneration \in Nat
  /\ Versions \in Nat \ {0}

VARIABLES
  vault,                \* signer, generation, enabled and dead, on Base
  preparations,         \* signer_preparations
  bindings,             \* provider_bindings
  calls,                \* the requests under way
  current, previous,    \* SIGNER_ENCRYPTION_KEY and _PREVIOUS, by version
  rotating,             \* bindings a rotation or check under way has locked, or None
  reign                 \* which signer each vault had in each generation

vars == <<vault, preparations, bindings, calls, current, previous, rotating,
          reign>>

Keys == 1..Versions
NoVersion == 0

Idle == [pc |-> "idle", project |-> None, signer |-> None, seen |-> None,
         key |-> NoVersion, from |-> 0, generation |-> 0, on |-> FALSE]

Init ==
  /\ vault = [p \in Projects |->
       [signer |-> None, generation |-> 0, enabled |-> FALSE, dead |-> FALSE]]
  /\ preparations = [s \in Signers |->
       [key |-> NoVersion, claimed |-> None, expired |-> FALSE]]
  /\ bindings = [p \in Projects |->
       [status |-> "none", signer |-> None, generation |-> 0, key |-> NoVersion]]
  /\ calls = [c \in Calls |-> Idle]
  /\ current = 1
  /\ previous = NoVersion
  /\ rotating = None
  /\ reign = {}

Prepared(s) == preparations[s].key # NoVersion
Bound(p) == bindings[p].status # "none"

(*********************************** The vault ********************************)
Reigns(p, to) ==
  /\ vault' = [vault EXCEPT ![p] = to]
  /\ reign' = reign \union
       {[project |-> p, generation |-> to.generation, signer |-> to.signer]}
  /\ UNCHANGED <<preparations, bindings, calls, current, previous, rotating>>

\* The launch names the prepared signer.
Deploy(p, s) ==
  /\ vault[p].generation = 0
  /\ Prepared(s)
  /\ Reigns(p, [signer |-> s, generation |-> 1, enabled |-> TRUE, dead |-> FALSE])

Administrable(p) ==
  /\ vault[p].generation \in 1..(MaxGeneration - 1)
  /\ ~ vault[p].dead

\* Mutant: pausing and resuming keep the generation.
SetAuthenticationEnabledAlone(p, on) ==
  /\ Administrable(p)
  /\ Reigns(p, [vault[p] EXCEPT !.enabled = on])

\* Pausing and resuming each begin a generation.
SetAuthenticationEnabled(p, on) ==
  /\ Administrable(p)
  /\ Reigns(p, [vault[p] EXCEPT !.generation = @ + 1, !.enabled = on])

SetInferenceSigner(p, s) ==
  /\ Administrable(p)
  /\ Prepared(s)
  /\ Reigns(p, [vault[p] EXCEPT !.generation = @ + 1, !.signer = s])

DisableAuthentication(p) ==
  /\ Administrable(p)
  /\ Reigns(p, [vault[p] EXCEPT !.generation = @ + 1, !.enabled = FALSE,
                                !.dead = TRUE])

\* isValidSignature
Valid(e) ==
  LET v == vault[e.project]
  IN  /\ v.enabled
      /\ ~ v.dead
      /\ e.generation = v.generation
      /\ e.signer = v.signer

(********************************* The auth signer ****************************)
Prepare(s) ==
  /\ ~ Prepared(s)
  /\ preparations' = [preparations EXCEPT ![s].key = current]
  /\ UNCHANGED <<vault, bindings, calls, current, previous, rotating,
                 reign>>

Expire(s) ==
  /\ Prepared(s)
  /\ ~ preparations[s].expired
  /\ preparations' = [preparations EXCEPT ![s].expired = TRUE]
  /\ UNCHANGED <<vault, bindings, calls, current, previous, rotating,
                 reign>>

Decrypts(key) == key \in {current, previous} \ {NoVersion}

(******************************** The gateway *********************************)
\* POST /v1/projects reads an unclaimed preparation, its ciphertext included.
StartRegister(c, p, s) ==
  /\ calls[c].pc = "idle"
  /\ Prepared(s)
  /\ preparations[s].claimed = None
  /\ calls' = [calls EXCEPT ![c] =
       [Idle EXCEPT !.pc = "register", !.project = p, !.signer = s,
                    !.key = preparations[s].key]]
  /\ UNCHANGED <<vault, preparations, bindings, current, previous, rotating, reign>>

Claimable(s, p) == preparations[s].claimed \in {None, p}

\* syncProjectAuthentication reads the binding and, to change the signer, a
\* preparation that is free or this project's own.
StartSync(c, p, s) ==
  /\ calls[c].pc = "idle"
  /\ Bound(p)
  /\ bindings[p].status # "disabled"
  /\ s # None => Prepared(s) /\ Claimable(s, p)
  /\ calls' = [calls EXCEPT ![c] =
       [Idle EXCEPT
          !.pc = IF s = None THEN "sync" ELSE "rotate",
          !.project = p,
          !.signer = IF s = None THEN bindings[p].signer ELSE s,
          !.key = IF s = None THEN NoVersion ELSE preparations[s].key,
          !.seen = bindings[p].signer,
          !.from = bindings[p].generation]]
  /\ UNCHANGED <<vault, preparations, bindings, current, previous, rotating, reign>>

Proven(pc) == pc \in {"register!", "sync!", "rotate!"}
ProvenAs(pc) == CASE pc = "register" -> "register!"
                  [] pc = "sync" -> "sync!"
                  [] pc = "rotate" -> "rotate!"

\* Mutant: the proof does not compare the signer.
VerifyGeneration(c) ==
  LET call == calls[c]
      v == vault[call.project]
  IN  /\ call.pc \in {"register", "sync", "rotate"}
      /\ v.generation >= 1
      /\ v.generation >= call.from
      /\ calls' = [calls EXCEPT ![c].pc = ProvenAs(call.pc),
                                ![c].generation = v.generation,
                                ![c].on = v.enabled]
      /\ UNCHANGED <<vault, preparations, bindings, current, previous, rotating,
                     reign>>

\* verifyProject: the confirmed and the latest block agree on the signer, the
\* generation and the switch; a generation never returns, so they are of one reign.
Verify(c) ==
  LET call == calls[c]
      v == vault[call.project]
  IN  /\ call.pc \in {"register", "sync", "rotate"}
      /\ v.signer = call.signer
      /\ v.generation >= call.from
      /\ calls' = [calls EXCEPT ![c].pc = ProvenAs(call.pc),
                                ![c].generation = v.generation,
                                ![c].on = v.enabled]
      /\ UNCHANGED <<vault, preparations, bindings, current, previous, rotating, reign>>

\* A check fails, the chain or the database does not answer, or the process
\* dies: nothing is written.
GiveUp(c) ==
  /\ calls[c].pc # "idle"
  /\ calls' = [calls EXCEPT ![c] = Idle]
  /\ UNCHANGED <<vault, preparations, bindings, current, previous, rotating, reign>>

\* Mutant: a preparation another project has claimed is taken.
FreeAnyway(s) == Prepared(s)

Free(s) == preparations[s].claimed = None

\* Mutant: the claim is committed before the binding is inserted.
CommitRegisterClaimFirst(c) ==
  LET call == calls[c]
  IN  /\ call.pc = "register!"
      /\ ~ Bound(call.project)
      /\ Free(call.signer)
      /\ preparations' = [preparations EXCEPT ![call.signer].claimed = call.project]
      /\ calls' = [calls EXCEPT ![c] = Idle]
      /\ UNCHANGED <<vault, bindings, current, previous, rotating, reign>>

\* The transaction of the registration: project, claim and binding, the last
\* with the ciphertext read at the start.
CommitRegister(c) ==
  LET call == calls[c]
  IN  /\ call.pc = "register!"
      /\ ~ Bound(call.project)
      /\ Free(call.signer)
      /\ preparations' = [preparations EXCEPT ![call.signer].claimed = call.project]
      /\ bindings' = [bindings EXCEPT ![call.project] =
           [status |-> "live", signer |-> call.signer,
            generation |-> call.generation, key |-> call.key]]
      /\ calls' = [calls EXCEPT ![c] = Idle]
      /\ UNCHANGED <<vault, current, previous, rotating, reign>>

\* Mutant: only the status is read again.
UnmovedForgotten(c) == bindings[calls[c].project].status # "disabled"

\* What the synchronization read has not changed, and the operator has not
\* disabled it, under the row lock.
Unmoved(c) ==
  LET call == calls[c]
      b == bindings[call.project]
  IN  /\ b.signer = call.seen
      /\ b.generation = call.from
      /\ b.status # "disabled"

Locked(p) == rotating # None /\ p \in rotating

\* It writes what differs, and all of it for a vault that was switched off, the
\* ciphertext it read at the start included.
CommitSync(c) ==
  LET call == calls[c]
      b == bindings[call.project]
      changed == b.signer # call.signer \/ b.generation # call.generation
      written == changed \/ ~ call.on
  IN  /\ call.pc \in {"sync!", "rotate!"}
      /\ ~ Locked(call.project)
      /\ Unmoved(c)
      /\ call.pc = "rotate!" => Claimable(call.signer, call.project)
      /\ preparations' =
           IF call.pc = "rotate!"
             THEN [preparations EXCEPT ![call.signer].claimed = call.project]
             ELSE preparations
      /\ bindings' =
           IF written
             THEN [bindings EXCEPT ![call.project] =
                    [status |-> "live", signer |-> call.signer,
                     generation |-> call.generation,
                     key |-> IF call.pc = "rotate!" THEN call.key ELSE b.key]]
             ELSE bindings
      /\ calls' = [calls EXCEPT ![c] = Idle]
      /\ UNCHANGED <<vault, current, previous, rotating, reign>>

\* The operator disables a binding in the database.
Disable(p) ==
  /\ bindings[p].status = "live"
  /\ ~ Locked(p)
  /\ bindings' = [bindings EXCEPT ![p].status = "disabled"]
  /\ UNCHANGED <<vault, preparations, calls, current, previous, rotating, reign>>

(******************************* Encryption keys ******************************)
\* The host restarts with a new key and the old one as the previous.
DeployKey ==
  /\ previous = NoVersion
  /\ current < Versions
  /\ current' = current + 1
  /\ previous' = current
  /\ UNCHANGED <<vault, preparations, bindings, calls, rotating, reign>>

\* The preparations a rotation or its check looks at.
InScope(s) ==
  Prepared(s) /\ preparations[s].claimed = None /\ ~ preparations[s].expired

\* rotateEncryptedSigners reads and locks the bindings first, to rotate or to check ...
LockBindings ==
  /\ previous # NoVersion
  /\ rotating = None
  /\ rotating' = {p \in Projects : Bound(p)}
  /\ UNCHANGED <<vault, preparations, bindings, calls, current, previous, reign>>

\* ... then the preparations, and writes both or, if a row is readable with
\* neither key, none.
RotatePreparations ==
  LET scope == {s \in Signers : InScope(s)}
      rows == {bindings[p].key : p \in rotating} \union
              {preparations[s].key : s \in scope}
  IN  /\ rotating # None
      /\ rotating' = None
      /\ IF \A key \in rows : Decrypts(key)
           THEN /\ bindings' = [p \in Projects |->
                     IF p \in rotating THEN [bindings[p] EXCEPT !.key = current]
                                       ELSE bindings[p]]
                /\ preparations' = [s \in Signers |->
                     IF s \in scope THEN [preparations[s] EXCEPT !.key = current]
                                    ELSE preparations[s]]
           ELSE UNCHANGED <<bindings, preparations>>
      /\ UNCHANGED <<vault, calls, current, previous, reign>>

\* The check finds nothing left to rotate among the bindings it locked and the
\* preparations it reads after them, and the previous key goes.
RemovePrevious ==
  /\ rotating # None
  /\ \A p \in rotating : bindings[p].key = current
  /\ \A s \in Signers : InScope(s) => preparations[s].key = current
  /\ rotating' = None
  /\ previous' = NoVersion
  /\ UNCHANGED <<vault, preparations, bindings, calls, current, reign>>

Next ==
  \/ \E p \in Projects :
       \/ \E s \in Signers : Deploy(p, s) \/ SetInferenceSigner(p, s)
       \/ \E on \in BOOLEAN : SetAuthenticationEnabled(p, on)
       \/ DisableAuthentication(p)
       \/ Disable(p)
  \/ \E s \in Signers : Prepare(s) \/ Expire(s)
  \/ \E c \in Calls :
       \/ \E p \in Projects, s \in Signers : StartRegister(c, p, s)
       \/ \E p \in Projects, s \in Signers \union {None} : StartSync(c, p, s)
       \/ Verify(c)
       \/ GiveUp(c)
       \/ CommitRegister(c)
       \/ CommitSync(c)
  \/ DeployKey
  \/ LockBindings
  \/ RotatePreparations
  \/ RemovePrevious

Spec == Init /\ [][Next]_vars

(********************************* Properties *********************************)
Maybe(S) == S \union {None}

TypeOK ==
  /\ vault \in [Projects -> [signer : Maybe(Signers), generation : Nat,
                             enabled : BOOLEAN, dead : BOOLEAN]]
  /\ preparations \in [Signers -> [key : Nat, claimed : Maybe(Projects),
                                   expired : BOOLEAN]]
  /\ bindings \in [Projects -> [status : {"none", "live", "disabled"},
                                signer : Maybe(Signers), generation : Nat, key : Nat]]
  /\ \A p \in Projects : bindings[p].generation <= vault[p].generation
  /\ \A s \in Signers : preparations[s].claimed # None => Bound(preparations[s].claimed)

\* No revoked envelope comes back: once the vault refuses an envelope the signer
\* has issued, whether because authentication was paused, the signer changed or
\* the vault shut down, it refuses it for ever.
RevokedStaysRevoked ==
  [][\A e \in reign : ~ Valid(e) => ~ Valid(e)']_vars

\* A binding names a signer and a generation the vault really had, at the same
\* time, however slow the request that wrote it was.
BindingWasOnChain ==
  \A p \in Projects : Bound(p) =>
    [project |-> p, generation |-> bindings[p].generation,
     signer |-> bindings[p].signer] \in reign

\* A slow request never takes a binding back to an older generation.
BindingNeverGoesBack ==
  [][\A p \in Projects : bindings'[p].generation >= bindings[p].generation]_vars

\* One prepared signer authenticates for one project only.
SignersApart ==
  \A p, q \in Projects :
    Bound(p) /\ Bound(q) /\ bindings[p].signer = bindings[q].signer => p = q

\* services/auth-signer/README.md:18 has the previous key removed once the check
\* reports nothing left to rotate: all bindings are readable, then and later.
BindingsReadable ==
  \A p \in Projects : Bound(p) => Decrypts(bindings[p].key)
==============================================================================
