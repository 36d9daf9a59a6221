--------------------------- MODULE RequestLifecycle ---------------------------
(***************************************************************************)
(* One inference request through the gateway, from the reservation to its  *)
(* final ledger row, with everything that can cut it short: the client     *)
(* leaving, the 120 s deadline, a database write whose answer is lost, the *)
(* process crashing or draining, a second gateway recovering orphans, and  *)
(* the operator reconciling rows.                                          *)
(*                                                                         *)
(* services/gateway/inference.mjs  forwardInference, the handler           *)
(* services/gateway/store.mjs      reserve, markDispatched, finish,        *)
(*                                 noteProviderRequestId, recoverOrphans   *)
(* services/gateway/server.mjs     heartbeat, recovery and drain           *)
(* services/gateway/reconcile.mjs  retain-maximum and retain-unproven      *)
(* services/auth-signer/server.mjs the row check before a signature        *)
(*                                                                         *)
(* A handler waits for each database call; the call itself is a step of    *)
(* the database, which may take it after the handler gave up or its        *)
(* process died.  Admission (budgets, epochs) is module CreditLedger.      *)
(***************************************************************************)
EXTENDS Naturals

CONSTANTS Requests,     \* the requests of one project
          Legacy,       \* those whose row predates instance tracking
          Instances,    \* gateway processes; a restart is a new instance
          NoInstance,   \* gateway_instance of a legacy row (NULL)
          MaxAmount,    \* maximum_microusd of a row
          Charges,      \* what the provider may charge for a request
          MayMissHeartbeats  \* a running process can fail to heartbeat for 60 s

VARIABLES
  \* usage_reservations, usage_reconciliations and projects.status
  state, charged, dispatched, identity, owner, reconciled, suspended,
  \* gateway_instances: heartbeat_at older than 60 s, stopped_at not null
  silent, stopped,
  \* a gateway process and the rows its recovery has selected
  process, todo,
  \* the handler of a request: control, the client, the two database calls it
  \* may abandon, and the outcome its one finish call writes
  pc, client, mark, note, verdict, cost,
  \* the operator's billing proof, read before the transaction that uses it
  proof,
  \* the provider: the request has left the gateway; what it is charged
  sent, charge

rowVars == <<state, charged, dispatched, identity, owner, reconciled, suspended>>
instanceVars == <<silent, stopped, process, todo>>
handlerVars == <<pc, client, mark, note, verdict, cost>>
providerVars == <<sent, charge>>
vars == <<rowVars, instanceVars, handlerVars, proof, providerVars>>

\* The ledger's rows are the gateway's rows; its other actors are abstracted.
Ledger == INSTANCE ReservationLedger
  WITH Requests <- Requests, Legacy <- Legacy, MaxAmount <- MaxAmount,
       Charges <- Charges, state <- state, charged <- charged, sent <- sent,
       charge <- charge

Outstanding == Ledger!Outstanding

LifecycleAssumption ==
  /\ Legacy \subseteq Requests
  /\ NoInstance \notin Instances
  /\ MaxAmount \in Nat \ {0}
  /\ Charges \subseteq Nat \ {0}
  /\ MayMissHeartbeats \in BOOLEAN

ASSUME LifecycleAssumption

CallStates == {"none", "inflight", "ok", "failed"}
Control == {"idle", "reserving", "auth", "marking", "provider", "finishing", "done"}

TypeOK ==
  /\ state \in [Requests -> Ledger!RowStates]
  /\ charged \in [Requests -> 0..MaxAmount]
  /\ dispatched \in [Requests -> BOOLEAN]
  /\ identity \in [Requests -> BOOLEAN]
  /\ owner \in [Requests -> Instances \union {NoInstance}]
  /\ reconciled \in [Requests -> BOOLEAN]
  /\ suspended \in BOOLEAN
  /\ silent \in [Instances -> BOOLEAN]
  /\ stopped \in [Instances -> BOOLEAN]
  /\ process \in [Instances -> {"off", "up", "draining", "stopping", "exited"}]
  /\ todo \in [Instances -> SUBSET Requests]
  /\ pc \in [Requests -> Control]
  /\ client \in [Requests -> {"waiting", "timedout", "gone"}]
  /\ mark \in [Requests -> CallStates]
  /\ note \in [Requests -> CallStates]
  /\ verdict \in [Requests -> {"none", "settled", "uncertain", "released"}]
  /\ cost \in [Requests -> 0..MaxAmount]
  /\ proof \in [Requests -> {0} \union Charges]
  /\ sent \in [Requests -> BOOLEAN]
  /\ charge \in [Requests -> {0} \union Charges]

Init ==
  /\ Ledger!Init
  /\ dispatched = [r \in Requests |-> FALSE]
  /\ identity = [r \in Requests |-> FALSE]
  /\ owner = [r \in Requests |-> NoInstance]
  /\ reconciled = [r \in Requests |-> FALSE]
  /\ suspended = FALSE
  /\ silent = [i \in Instances |-> FALSE]
  /\ stopped = [i \in Instances |-> FALSE]
  /\ process = [i \in Instances |-> "off"]
  /\ todo = [i \in Instances |-> {}]
  /\ pc = [r \in Requests |-> IF r \in Legacy THEN "done" ELSE "idle"]
  /\ client = [r \in Requests |-> IF r \in Legacy THEN "gone" ELSE "waiting"]
  /\ mark = [r \in Requests |-> "none"]
  /\ note = [r \in Requests |-> "none"]
  /\ verdict = [r \in Requests |-> "none"]
  /\ cost = [r \in Requests |-> 0]
  /\ proof = [r \in Requests |-> 0]

------------------------------------------------------------------------------
(* Gateway processes                                                       *)

Alive(i) == process[i] \in {"up", "draining", "stopping"}

\* The process that runs the handler of r has not exited.
Running(r) == owner[r] \in Instances /\ Alive(owner[r])

\* signal.aborted || response.destroyed
Aborted(r) == client[r] # "waiting"

Start(i) ==
  /\ process[i] = "off"
  /\ process' = [process EXCEPT ![i] = "up"]
  /\ UNCHANGED <<rowVars, silent, stopped, todo, handlerVars, proof, providerVars>>

Heartbeat(i) ==
  /\ process[i] = "up" /\ silent[i]
  /\ silent' = [silent EXCEPT ![i] = FALSE]
  /\ UNCHANGED <<rowVars, stopped, process, todo, handlerVars, proof, providerVars>>

\* Sixty seconds pass without a heartbeat: shutdown clears the timer, a dead
\* process has none, and a running one may have lost the database.
GoSilent(i) ==
  /\ ~silent[i]
  /\ \/ process[i] \in {"draining", "stopping", "exited"}
     \/ process[i] = "up" /\ MayMissHeartbeats
  /\ silent' = [silent EXCEPT ![i] = TRUE]
  /\ UNCHANGED <<rowVars, stopped, process, todo, handlerVars, proof, providerVars>>

Shutdown(i) ==
  /\ process[i] = "up"
  /\ process' = [process EXCEPT ![i] = "draining"]
  /\ UNCHANGED <<rowVars, silent, stopped, todo, handlerVars, proof, providerVars>>

\* server.close calls back once no connection is open; a client that left has
\* closed its connection whatever its handler is still doing.  The write of
\* stopped_at may fail, which is swallowed.
Drained(i) ==
  /\ process[i] = "draining"
  /\ \A r \in Requests : owner[r] = i /\ pc[r] # "done" => client[r] = "gone"
  /\ process' = [process EXCEPT ![i] = "stopping"]
  /\ stopped' \in {stopped, [stopped EXCEPT ![i] = TRUE]}
  /\ UNCHANGED <<rowVars, silent, todo, handlerVars, proof, providerVars>>

\* process.exit after the drain, the forced exit after 130 s, or a crash.
Exit(i) ==
  /\ Alive(i)
  /\ process' = [process EXCEPT ![i] = "exited"]
  /\ todo' = [todo EXCEPT ![i] = {}]
  /\ UNCHANGED <<rowVars, silent, stopped, handlerVars, proof, providerVars>>

------------------------------------------------------------------------------
(* The handler                                                             *)

\* The request reaches a process, which calls store.reserve.
Arrive(r, i) ==
  /\ pc[r] = "idle" /\ process[i] = "up"
  /\ pc' = [pc EXCEPT ![r] = "reserving"]
  /\ owner' = [owner EXCEPT ![r] = i]
  /\ UNCHANGED <<state, charged, dispatched, identity, reconciled, suspended,
                 instanceVars, client, mark, note, verdict, cost, proof, providerVars>>

\* The reservation commits with its instance's heartbeat in one transaction.  If
\* the answer is lost the handler ends and the row stays reserved.
Reserve(r) ==
  /\ pc[r] = "reserving" /\ ~suspended
  /\ state' = [state EXCEPT ![r] = "reserved"]
  /\ \E next \in {"auth", "done"} : pc' = [pc EXCEPT ![r] = next]
  /\ silent' = [silent EXCEPT ![owner[r]] = FALSE]
  /\ UNCHANGED <<charged, dispatched, identity, owner, reconciled, suspended, stopped,
                 process, todo, client, mark, note, verdict, cost, proof,
                 providerVars>>

\* Admission refuses: no row, no request.
Refuse(r) ==
  /\ pc[r] = "reserving"
  /\ pc' = [pc EXCEPT ![r] = "done"]
  /\ UNCHANGED <<rowVars, instanceVars, client, mark, note, verdict, cost,
                 proof, providerVars>>

ClientLeaves(r) ==
  /\ pc[r] \notin {"idle", "done"} /\ client[r] # "gone"
  /\ client' = [client EXCEPT ![r] = "gone"]
  /\ UNCHANGED <<rowVars, instanceVars, pc, mark, note, verdict, cost, proof,
                 providerVars>>

\* Mutant: the timer is cleared when the fetch starts.
TimedBeforeSend(r) == pc[r] \in {"auth", "marking"}

\* The deadline timer runs from the reservation to the outcome.
Timed(r) == pc[r] \in {"auth", "marking", "provider"}

Deadline(r) ==
  /\ Timed(r) /\ Running(r)
  /\ client[r] = "waiting"
  /\ client' = [client EXCEPT ![r] = "timedout"]
  /\ UNCHANGED <<rowVars, instanceVars, pc, mark, note, verdict, cost, proof,
                 providerVars>>

\* Mutant: only the marker itself is looked at, not the state of the row.
DispatchableOnce(r) == ~dispatched[r]

\* What the signer requires of the row, and the WHERE clause of markDispatched.
Dispatchable(r) == state[r] = "reserved" /\ ~dispatched[r]

\* The signer finds the row reserved and undispatched and signs; the handler,
\* not aborted, issues markDispatched.
Sign(r) ==
  /\ pc[r] = "auth" /\ Running(r) /\ ~Aborted(r)
  /\ Dispatchable(r)
  /\ pc' = [pc EXCEPT ![r] = "marking"]
  /\ mark' = [mark EXCEPT ![r] = "inflight"]
  /\ UNCHANGED <<rowVars, instanceVars, client, note, verdict, cost, proof,
                 providerVars>>

\* The marker is one conditional UPDATE; its answer may be lost after it
\* committed.
MarkDispatched(r) ==
  /\ mark[r] = "inflight"
  /\ IF Dispatchable(r)
     THEN /\ dispatched' = [dispatched EXCEPT ![r] = TRUE]
          /\ \E answer \in {"ok", "failed"} : mark' = [mark EXCEPT ![r] = answer]
     ELSE /\ mark' = [mark EXCEPT ![r] = "failed"]
          /\ UNCHANGED dispatched
  /\ UNCHANGED <<state, charged, identity, owner, reconciled, suspended,
                 instanceVars, pc, client, note, verdict, cost, proof, providerVars>>

\* The database call fails without an effect.
LoseMark(r) ==
  /\ mark[r] = "inflight"
  /\ mark' = [mark EXCEPT ![r] = "failed"]
  /\ UNCHANGED <<rowVars, instanceVars, pc, client, note, verdict, cost, proof,
                 providerVars>>

Marked(r) == mark[r] = "ok"

\* started = true and fetch, with no await in between.
Send(r) ==
  /\ pc[r] = "marking" /\ Running(r) /\ ~Aborted(r)
  /\ Marked(r)
  /\ pc' = [pc EXCEPT ![r] = "provider"]
  /\ sent' = [sent EXCEPT ![r] = TRUE]
  /\ UNCHANGED <<rowVars, instanceVars, client, mark, note, verdict, cost, proof,
                 charge>>

\* Once received the request is executed and charged, whoever still listens.
ProviderCharges(r, c) ==
  /\ sent[r] /\ charge[r] = 0
  /\ charge' = [charge EXCEPT ![r] = c]
  /\ UNCHANGED <<rowVars, instanceVars, handlerVars, proof, sent>>

\* A response chunk carries the completion id: noteProviderRequestId is called.
ReceiveIdentity(r) ==
  /\ pc[r] = "provider" /\ Running(r) /\ ~Aborted(r) /\ note[r] = "none"
  /\ note' = [note EXCEPT ![r] = "inflight"]
  /\ UNCHANGED <<rowVars, instanceVars, pc, client, mark, verdict, cost, proof,
                 providerVars>>

NoteProviderRequestId(r) ==
  /\ note[r] = "inflight"
  /\ IF state[r] \in Outstanding
     THEN /\ identity' = [identity EXCEPT ![r] = TRUE]
          /\ \E answer \in {"ok", "failed"} : note' = [note EXCEPT ![r] = answer]
     ELSE /\ note' = [note EXCEPT ![r] = "failed"]
          /\ UNCHANGED identity
  /\ UNCHANGED <<state, charged, dispatched, owner, reconciled, suspended,
                 instanceVars, pc, client, mark, verdict, cost, proof, providerVars>>

\* The database call fails without an effect.
LoseNote(r) ==
  /\ note[r] = "inflight"
  /\ note' = [note EXCEPT ![r] = "failed"]
  /\ UNCHANGED <<rowVars, instanceVars, pc, client, mark, verdict, cost, proof,
                 providerVars>>

\* costFromUsage: the usage within the quote at the ceiling price, never below
\* the charge; none when the usage exceeds the quoted bounds.
AccountedCosts(r) == charge[r]..MaxAmount

\* The response is complete, its identity recorded, its usage accounted:
\* finish("settled") is issued.
Answer(r, c) ==
  /\ pc[r] = "provider" /\ Running(r) /\ ~Aborted(r)
  /\ note[r] \in {"none", "ok"}
  /\ charge[r] # 0
  /\ pc' = [pc EXCEPT ![r] = "finishing"]
  /\ verdict' = [verdict EXCEPT ![r] = "settled"]
  /\ cost' = [cost EXCEPT ![r] = c]
  /\ UNCHANGED <<rowVars, instanceVars, client, mark, note, proof, providerVars>>

\* Mutant: an aborted request is released even after the fetch.
AbortReleases(r) == IF pc[r] = "provider" /\ ~Aborted(r) THEN "uncertain" ELSE "released"

\* finish(started ? "uncertain" : "released")
FailVerdict(r) == IF pc[r] = "provider" THEN "uncertain" ELSE "released"

\* The catch block: an error at any await, the client or the deadline.
Fail(r) ==
  /\ pc[r] \in {"auth", "marking", "provider"} /\ Running(r)
  /\ pc' = [pc EXCEPT ![r] = "finishing"]
  /\ verdict' = [verdict EXCEPT ![r] = FailVerdict(r)]
  /\ UNCHANGED <<rowVars, instanceVars, client, mark, note, cost, proof, providerVars>>

Finishable(r) == state[r] = "reserved"

\* store.finish, attempted once; a row no longer reserved refuses it, and the
\* handler swallows the error.
Finish(r) ==
  /\ pc[r] = "finishing"
  /\ IF Finishable(r)
     THEN /\ state' = [state EXCEPT ![r] = verdict[r]]
          /\ charged' = [charged EXCEPT ![r] = cost[r]]
     ELSE UNCHANGED <<state, charged>>
  /\ pc' = [pc EXCEPT ![r] = "done"]
  /\ verdict' = [verdict EXCEPT ![r] = "none"]
  /\ cost' = [cost EXCEPT ![r] = 0]
  /\ UNCHANGED <<dispatched, identity, owner, reconciled, suspended, instanceVars,
                 client, mark, note, proof, providerVars>>

\* The write fails; the row stays reserved and nothing is tried again.
LoseFinish(r) ==
  /\ pc[r] = "finishing"
  /\ pc' = [pc EXCEPT ![r] = "done"]
  /\ verdict' = [verdict EXCEPT ![r] = "none"]
  /\ cost' = [cost EXCEPT ![r] = 0]
  /\ UNCHANGED <<rowVars, instanceVars, client, mark, note, proof, providerVars>>

------------------------------------------------------------------------------
(* Recovery and reconciliation                                             *)

\* Mutant: rows of every other instance are taken for orphans.
OrphanAny(r) == state[r] = "reserved"

\* Mutant: a crashed instance, which never wrote stopped_at, is not found.
OrphanStopped(r) ==
  /\ state[r] = "reserved"
  /\ owner[r] \in Instances => stopped[owner[r]]

\* A reserved row of no instance, or of a stopped or silent one.
Orphan(r) ==
  /\ state[r] = "reserved"
  /\ owner[r] \in Instances => stopped[owner[r]] \/ silent[owner[r]]

\* The selection of recoverOrphans, at startup and every 30 s.
SelectOrphans(i) ==
  /\ process[i] = "up" /\ todo[i] = {}
  /\ todo' = [todo EXCEPT ![i] = {r \in Requests : Orphan(r) /\ owner[r] # i}]
  /\ UNCHANGED <<rowVars, silent, stopped, process, handlerVars, proof, providerVars>>

\* Proven never sent: a tracked instance, no dispatch marker.
Proven(r) == owner[r] \in Instances /\ ~dispatched[r]

\* Mutant: the selected row is not judged again under its lock.
JudgedOnce(r) == TRUE

JudgedAgain(r) == Orphan(r)

\* One selected row, in a transaction of its own that judges it again.
RecoverOrphan(i, r) ==
  /\ Alive(i) /\ r \in todo[i]
  /\ todo' = [todo EXCEPT ![i] = @ \ {r}]
  /\ IF JudgedAgain(r)
     THEN state' = [state EXCEPT ![r] = IF Proven(r) THEN "released" ELSE "uncertain"]
     ELSE UNCHANGED state
  /\ UNCHANGED <<charged, dispatched, identity, owner, reconciled, suspended,
                 silent, stopped, process, handlerVars, proof, providerVars>>

\* A failed transaction ends the sweep; the next one starts over.
AbandonSweep(i) ==
  /\ Alive(i) /\ todo[i] # {}
  /\ todo' = [todo EXCEPT ![i] = {}]
  /\ UNCHANGED <<rowVars, silent, stopped, process, handlerVars, proof, providerVars>>

\* The row becomes settled at its maximum and the evidence is inserted.
RetainMaximum(r) ==
  /\ state' = [state EXCEPT ![r] = "settled"]
  /\ charged' = [charged EXCEPT ![r] = MaxAmount]
  /\ reconciled' = [reconciled EXCEPT ![r] = TRUE]
  /\ UNCHANGED <<dispatched, identity, owner, instanceVars, handlerVars, providerVars>>

\* --retain-unproven: only an uncertain row without a provider identity.
RetainUnproven(r) ==
  /\ ~reconciled[r] /\ state[r] = "uncertain" /\ ~identity[r]
  /\ RetainMaximum(r)
  /\ UNCHANGED <<suspended, proof>>

\* --retain-maximum reads the row and the provider's billing before it locks.
ReadProof(r) ==
  /\ proof[r] = 0 /\ ~reconciled[r]
  /\ state[r] \in Outstanding /\ identity[r] /\ charge[r] # 0
  /\ proof' = [proof EXCEPT ![r] = charge[r]]
  /\ UNCHANGED <<rowVars, instanceVars, handlerVars, providerVars>>

\* Mutant: the row is not read again once it is locked.
ReconcilableUnread(r) == ~reconciled[r]

Reconcilable(r) == ~reconciled[r] /\ state[r] \in Outstanding

\* A bill above the row's maximum suspends the project and leaves the row.
Reconcile(r) ==
  /\ proof[r] # 0
  /\ proof' = [proof EXCEPT ![r] = 0]
  /\ IF ~Reconcilable(r)
     THEN UNCHANGED <<rowVars, instanceVars, handlerVars, providerVars>>
     ELSE IF proof[r] > MaxAmount
     THEN /\ suspended' = TRUE
          /\ UNCHANGED <<state, charged, dispatched, identity, owner, reconciled,
                         instanceVars, handlerVars, providerVars>>
     ELSE RetainMaximum(r) /\ UNCHANGED suspended

------------------------------------------------------------------------------
Handler(r) ==
  \/ \E i \in Instances : Arrive(r, i)
  \/ Refuse(r) \/ ClientLeaves(r) \/ Deadline(r)
  \/ Sign(r) \/ Send(r) \/ ReceiveIdentity(r) \/ Fail(r)
  \/ \E c \in AccountedCosts(r) : Answer(r, c)

Database(r) ==
  \/ Reserve(r)
  \/ MarkDispatched(r) \/ LoseMark(r)
  \/ NoteProviderRequestId(r) \/ LoseNote(r)
  \/ Finish(r) \/ LoseFinish(r)

Operator(r) == RetainUnproven(r) \/ ReadProof(r) \/ Reconcile(r)

Process(i) ==
  \/ Start(i) \/ Heartbeat(i) \/ GoSilent(i)
  \/ Shutdown(i) \/ Drained(i) \/ Exit(i)
  \/ SelectOrphans(i) \/ AbandonSweep(i)
  \/ \E r \in Requests : RecoverOrphan(i, r)

Next ==
  \/ \E r \in Requests : Handler(r) \/ Database(r) \/ Operator(r)
  \/ \E r \in Requests, c \in Charges : ProviderCharges(r, c)
  \/ \E i \in Instances : Process(i)

Spec == Init /\ [][Next]_vars

------------------------------------------------------------------------------
(* Properties                                                              *)

\* A released row gave its whole maximum back, so its request never left: not
\* before the release, and not later, when a handler that was taken for dead
\* comes back from markDispatched.
ReleasedNeverSent == \A r \in Requests : state[r] = "released" => ~sent[r]

\* INVARIANTS.md, "Request lifecycle": the provider request is sent only after
\* the durable marker of its row committed.
SentWasMarked == \A r \in Requests \ Legacy : sent[r] => dispatched[r]

\* Ambiguous spend: whatever the provider charged within the quote is debited,
\* however the handler, the recovery and the operator interleave.
DebitCoversCharge == Ledger!Covered

\* usage_reconciliations: evidence of a retained maximum is written once and the
\* row it names keeps that maximum.
EvidenceHolds ==
  \A r \in Requests : reconciled[r] => state[r] = "settled" /\ charged[r] = MaxAmount

\* A proof is used only against an open row: between ReadProof and Reconcile the
\* gateway may settle the row, and the operator then leaves its amount alone.
SettledCostStands ==
  [][\A r \in Requests :
       state[r] = "settled" => state'[r] = "settled" /\ charged'[r] = charged[r]]_vars

\* The rows follow the lifecycle the ledger promises.
LedgerSpec == Ledger!Spec

\* A row of a process that runs and heartbeats is changed by its own handler or
\* by the operator's reconciliation only.
RunningRowsUntouched ==
  [][\A r \in Requests :
       /\ state[r] = "reserved" /\ state'[r] # "reserved" /\ ~reconciled'[r]
       /\ owner[r] \in Instances /\ process[owner[r]] = "up"
       /\ ~silent[owner[r]]
       => pc[r] = "finishing"]_vars

\* docs/resilience.md:57-59: recovery never changes rows of a live instance.
LiveRowsUntouched ==
  [][\A r \in Requests :
       /\ state[r] = "reserved" /\ state'[r] # "reserved" /\ ~reconciled'[r]
       /\ Running(r)
       => pc[r] = "finishing"]_vars

------------------------------------------------------------------------------
(* Progress.  Timers fire (deadline, heartbeat, the 30 s sweep, the 60 s     *)
(* staleness), a database call ends one way or the other, a handler whose    *)
(* awaits have ended goes on, and a row swept again and again is in the end  *)
(* swept by a transaction that commits.  Clients, the provider, the          *)
(* operator, starts, shutdowns and crashes are under no obligation.          *)

Fairness ==
  /\ \A r \in Requests :
       /\ WF_vars(Deadline(r)) /\ WF_vars(Fail(r) /\ Aborted(r))
       /\ WF_vars(Database(r))
  /\ \A i \in Instances :
       /\ WF_vars(GoSilent(i) /\ process[i] = "exited")
       /\ WF_vars(SelectOrphans(i))
       /\ \A r \in Requests : SF_vars(RecoverOrphan(i, r))

FairSpec == Spec /\ Fairness

\* A handler always ends: no await outlives the deadline while the process runs.
HandlerEnds ==
  \A r \in Requests : pc[r] \in {"auth", "marking", "provider", "finishing"}
                      ~> pc[r] = "done" \/ ~Running(r)

\* No reservation of a dead process stays in the concurrency count for ever, as
\* long as some gateway stays up.
OrphansResolved ==
  \A i \in Instances :
    <>[](process[i] = "up") =>
      \A r \in Requests :
        (state[r] = "reserved" /\ owner[r] \in Instances /\ process[owner[r]] = "exited")
          ~> state[r] # "reserved"

==============================================================================
