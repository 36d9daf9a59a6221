--------------------------------- MODULE Keeper ---------------------------------
(***************************************************************************)
(* The keeper of the control worker: jobs planned per project, claimed     *)
(* under a lease, signed once, broadcast, and followed to a final receipt, *)
(* by several worker processes against a chain that reorganises.           *)
(*                                                                         *)
(* services/control-worker/worker.mjs    tick and reconcile                *)
(* services/control-worker/postgres.mjs  planProject, claim, assertLease,  *)
(*     withKeeperLease, nextNonce, saveIntent, update, release,            *)
(*     markCapacityUnavailable, updateProviderCapacity, invalidateReorg    *)
(* services/control-worker/runtime.mjs   plan, auditReceipts               *)
(*                                                                         *)
(* A worker is one process and runs one tick at a time; every await of the *)
(* tick is a step.  An owner's fence changes only with its next claim, so  *)
(* "owner and fence match" is "the lease is still the worker's".  Delays   *)
(* (next_attempt_at, the loop intervals) are left to the interleaving.     *)
(***************************************************************************)
EXTENDS Integers, FiniteSets, Sequences

CONSTANTS Jobs,          \* 1..n; a project's jobs are created in this order
          Projects, ProjectOf,
          Workers,       \* control-worker processes
          None,
          MaxFaults,     \* crashes, slow ticks, failed calls, lost bytes
          MaxReorgs,     \* reorganisations of blocks that are not finalized
          PermanentFaults,  \* a changed binding, an effect that does not match
          DeepReorgs     \* finality itself may break, once

KeeperAssumption ==
  /\ Jobs \subseteq Nat /\ IsFiniteSet(Jobs)
  /\ ProjectOf \in [Jobs -> Projects]
  /\ MaxFaults \in Nat /\ MaxReorgs \in Nat
  /\ PermanentFaults \in BOOLEAN /\ DeepReorgs \in BOOLEAN

ASSUME KeeperAssumption

VARIABLES
  \* worker_jobs: state and receipt_block_hash; worker_tx_intents: the nonce
  state, receipt, nonce,
  \* worker_project_leases: the owner, None once lease_until has passed
  lease,
  \* provider_bindings: the projects whose capacity observation stands
  capacity,
  \* a worker: control, its job, the receipt it read, the state it will write
  pc, job, seen, outcome,
  \* the chain: the keeper's transactions in nonce order, how many of them are
  \* finalized, the bytes its nodes know, and the branch it is on
  mined, final, mempool, branch, deepened,
  faults

dbVars == <<state, receipt, nonce, lease, capacity>>
workerVars == <<pc, job, seen, outcome>>
chainVars == <<mined, final, mempool, branch, deepened>>
vars == <<dbVars, workerVars, chainVars, faults>>

Pending == {"queued", "prepared", "submitted", "broadcast_unknown", "confirmed"}
Ended == {"finalized", "failed", "quarantined"}
Branches == 0..(MaxReorgs + 1)
Receipts == [branch : Branches, status : {"success", "reverted"}]

ASSUME NoneAssumption == None \notin Nat \union Workers \union Receipts

Control == {"idle", "claimed", "preflight", "sign", "receipt", "canonical", "final",
            "nonce", "broadcast", "writing", "withdraw", "release"}

TypeOK ==
  /\ state \in [Jobs -> {"absent"} \union Pending \union Ended]
  /\ receipt \in [Jobs -> Branches \union {None}]
  /\ nonce \in [Jobs -> (0..(Cardinality(Jobs) - 1)) \union {None}]
  /\ lease \in [Projects -> Workers \union {None}]
  /\ capacity \subseteq Projects
  /\ pc \in [Workers -> Control]
  /\ job \in [Workers -> Jobs \union {None}]
  /\ seen \in [Workers -> Receipts \union {None}]
  /\ outcome \in [Workers -> Pending \union Ended \union {None}]
  /\ mined \in Seq([job : Jobs, branch : Branches, status : {"success", "reverted"}])
  /\ final \in 0..Len(mined)
  /\ mempool \subseteq Jobs
  /\ branch \in Branches /\ deepened \in BOOLEAN
  /\ faults \in 0..MaxFaults

Init ==
  /\ state = [j \in Jobs |-> "absent"]
  /\ receipt = [j \in Jobs |-> None]
  /\ nonce = [j \in Jobs |-> None]
  /\ lease = [p \in Projects |-> None]
  /\ capacity = {}
  /\ pc = [w \in Workers |-> "idle"]
  /\ job = [w \in Workers |-> None]
  /\ seen = [w \in Workers |-> None]
  /\ outcome = [w \in Workers |-> None]
  /\ mined = <<>> /\ final = 0 /\ mempool = {} /\ branch = 0 /\ deepened = FALSE
  /\ faults = 0

------------------------------------------------------------------------------
(* Jobs and leases                                                         *)

Siblings(j) == {k \in Jobs \ {j} : ProjectOf[k] = ProjectOf[j]}
Quarantined(p) == \E j \in Jobs : ProjectOf[j] = p /\ state[j] = "quarantined"

\* planProject: nothing is planned beside a pending or quarantined job.
Plan(j) ==
  /\ state[j] = "absent"
  /\ \A k \in Siblings(j) :
       /\ state[k] \notin Pending \union {"quarantined"}
       /\ k < j => state[k] # "absent"
  /\ state' = [state EXCEPT ![j] = "queued"]
  /\ UNCHANGED <<receipt, nonce, lease, capacity, workerVars, chainVars, faults>>

\* Mutant: a job of unknown outcome is not taken up again.
ClaimableKnown(j) ==
  /\ state[j] \in Pending \ {"broadcast_unknown"}
  /\ ~Quarantined(ProjectOf[j])
  /\ lease[ProjectOf[j]] = None
  /\ \A k \in Siblings(j) : k < j => state[k] \notin Pending

\* Serial order per project: no earlier job is still pending.
Claimable(j) ==
  /\ state[j] \in Pending
  /\ ~Quarantined(ProjectOf[j])
  /\ lease[ProjectOf[j]] = None
  /\ \A k \in Siblings(j) : k < j => state[k] \notin Pending

Claim(w, j) ==
  /\ pc[w] = "idle"
  /\ Claimable(j)
  /\ lease' = [lease EXCEPT ![ProjectOf[j]] = w]
  /\ pc' = [pc EXCEPT ![w] = "claimed"]
  /\ job' = [job EXCEPT ![w] = j]
  /\ UNCHANGED <<state, receipt, nonce, capacity, seen, outcome, chainVars, faults>>

\* Mutant: a write trusts the lease the tick was given.
FencedOnce(w) == TRUE

\* leaseSQL: the lease is the worker's and has not run out.
Fenced(w) == lease[ProjectOf[job[w]]] = w

Go(w, place) == pc' = [pc EXCEPT ![w] = place]

\* The tick will write this state of its job.
Decide(w, next) == Go(w, "writing") /\ outcome' = [outcome EXCEPT ![w] = next]

Fault == faults < MaxFaults /\ faults' = faults + 1

\* What the catch block writes for an error that may pass.
Retry(w) == IF nonce[job[w]] = None THEN "queued" ELSE "broadcast_unknown"

------------------------------------------------------------------------------
(* tick                                                                    *)

\* The project's binding on chain is valid; is there an intent already?
Validate(w) ==
  /\ pc[w] = "claimed"
  /\ Go(w, IF nonce[job[w]] = None THEN "preflight" ELSE "receipt")
  /\ UNCHANGED <<dbVars, job, seen, outcome, chainVars, faults>>

\* A permanent fault quarantines the job, whether or not it holds a nonce.
BindingChanged(w) ==
  /\ pc[w] = "claimed" /\ PermanentFaults
  /\ Decide(w, "quarantined")
  /\ UNCHANGED <<dbVars, job, seen, chainVars, faults>>

Preflight(w) ==
  /\ pc[w] = "preflight"
  /\ \/ Go(w, "sign") /\ UNCHANGED outcome
     \/ Decide(w, IF nonce[job[w]] = None THEN "failed" ELSE "broadcast_unknown")
  /\ UNCHANGED <<dbVars, job, seen, chainVars, faults>>

Allocated == {nonce[j] : j \in Jobs} \ {None}

\* Mutant: the chain's pending count alone gives the nonce.
NextNoncePending(n, pending) == n = pending

\* nextNonce: the chain's pending count, or one above every stored intent.
NextNonce(n, pending) ==
  /\ n \in {pending} \union {m + 1 : m \in Allocated}
  /\ n >= pending /\ \A m \in Allocated : n > m

\* withKeeperLease: under the keeper's lock the lease is checked, a nonce taken
\* and the signed bytes stored.  The pending count is one some node reports.
SaveIntent(w) ==
  /\ pc[w] = "sign"
  /\ IF ~Fenced(w)
     THEN Go(w, "release") /\ UNCHANGED <<nonce, state>>
     ELSE IF nonce[job[w]] # None
     THEN Go(w, "receipt") /\ UNCHANGED <<nonce, state>>
     ELSE /\ Go(w, "receipt")
          /\ state' = [state EXCEPT ![job[w]] = "prepared"]
          /\ \E n \in 0..Cardinality(Jobs), pending \in {Len(mined), Cardinality(Allocated)} :
               NextNonce(n, pending) /\ nonce' = [nonce EXCEPT ![job[w]] = n]
  /\ UNCHANGED <<receipt, lease, capacity, job, seen, outcome, chainVars, faults>>

\* reconcile: the receipt of the intent's hash.
Included(j) == nonce[j] # None /\ nonce[j] < Len(mined) /\ mined[nonce[j] + 1].job = j
Inclusion(j) == [branch |-> mined[nonce[j] + 1].branch, status |-> mined[nonce[j] + 1].status]

ReadReceipt(w) ==
  /\ pc[w] = "receipt"
  /\ IF Included(job[w])
     THEN /\ seen' = [seen EXCEPT ![w] = Inclusion(job[w])]
          /\ Go(w, "canonical") /\ UNCHANGED capacity
     ELSE /\ Go(w, "nonce") /\ UNCHANGED seen
          /\ capacity' = IF receipt[job[w]] # None
                         THEN capacity \ {ProjectOf[job[w]]} ELSE capacity
  /\ UNCHANGED <<state, receipt, nonce, lease, job, outcome, chainVars, faults>>

\* Mutant: the receipt's block is not compared with the canonical one.
CanonicalUnchecked(w) == TRUE

Canonical(w) == Included(job[w]) /\ Inclusion(job[w]).branch = seen[w].branch

\* An orphaned receipt withdraws the capacity and is tried again.
CheckCanonical(w) ==
  /\ pc[w] = "canonical"
  /\ IF Canonical(w)
     THEN Go(w, "final") /\ UNCHANGED <<outcome, capacity>>
     ELSE /\ Decide(w, "broadcast_unknown")
          /\ capacity' = capacity \ {ProjectOf[job[w]]}
  /\ UNCHANGED <<state, receipt, nonce, lease, job, seen, chainVars, faults>>

\* Mutant: inclusion counts as confirmation.
ConfirmedIncluded(w) == TRUE

\* The receipt's height is finalized and deep enough.
Confirmed(w) == nonce[job[w]] < final

CheckFinal(w) ==
  /\ pc[w] = "final"
  /\ IF ~Confirmed(w) THEN Decide(w, "confirmed")
     ELSE IF seen[w].status = "reverted" THEN Decide(w, "failed")
     ELSE \/ Decide(w, "finalized")
          \/ PermanentFaults /\ Decide(w, "quarantined")
  /\ UNCHANGED <<dbVars, job, seen, chainVars, faults>>

\* No receipt: a consumed nonce is a permanent fault, else the same bytes go out
\* again, after the lease was checked.
CheckNonce(w) ==
  /\ pc[w] = "nonce"
  /\ IF Len(mined) > nonce[job[w]] THEN Decide(w, "quarantined")
     ELSE Go(w, IF Fenced(w) THEN "broadcast" ELSE "release") /\ UNCHANGED outcome
  /\ UNCHANGED <<dbVars, job, seen, chainVars, faults>>

\* The node takes the bytes; its answer may be an error all the same.
Broadcast(w) ==
  /\ pc[w] = "broadcast"
  /\ mempool' = mempool \union {job[w]}
  /\ \E answer \in {"submitted", "broadcast_unknown"} : Decide(w, answer)
  /\ UNCHANGED <<dbVars, job, seen, mined, final, branch, deepened, faults>>

\* update: the state, and the receipt's block when it is evidence.
Record(w) ==
  /\ state' = [state EXCEPT ![job[w]] = outcome[w]]
  /\ receipt' = IF seen[w] # None /\ outcome[w] \in {"confirmed", "failed", "finalized"}
                THEN [receipt EXCEPT ![job[w]] = seen[w].branch] ELSE receipt

\* Nothing more to write: the finally block is next.
Leave(w) ==
  /\ Go(w, "release")
  /\ seen' = [seen EXCEPT ![w] = None]
  /\ outcome' = [outcome EXCEPT ![w] = None]

\* One fenced write; without the lease the tick ends.
Write(w) ==
  /\ pc[w] = "writing"
  /\ IF Fenced(w) THEN Record(w) ELSE UNCHANGED <<state, receipt>>
  /\ IF Fenced(w) /\ outcome[w] \in {"finalized", "quarantined"}
     THEN Go(w, "withdraw") /\ UNCHANGED <<seen, outcome>>
     ELSE Leave(w)
  /\ UNCHANGED <<nonce, lease, capacity, job, chainVars, faults>>

\* markCapacityUnavailable, a transaction of its own.
Withdraw(w) ==
  /\ pc[w] = "withdraw"
  /\ capacity' = capacity \ {ProjectOf[job[w]]}
  /\ Leave(w)
  /\ UNCHANGED <<state, receipt, nonce, lease, job, chainVars, faults>>

Forget(w) ==
  /\ pc' = [pc EXCEPT ![w] = "idle"]
  /\ job' = [job EXCEPT ![w] = None]
  /\ seen' = [seen EXCEPT ![w] = None]
  /\ outcome' = [outcome EXCEPT ![w] = None]

Release(w) ==
  /\ pc[w] = "release"
  /\ lease' = IF lease[ProjectOf[job[w]]] = w
              THEN [lease EXCEPT ![ProjectOf[job[w]]] = None] ELSE lease
  /\ Forget(w)
  /\ UNCHANGED <<state, receipt, nonce, capacity, chainVars, faults>>

------------------------------------------------------------------------------
(* What goes wrong                                                         *)

\* A call fails in a way that may pass: the catch block decides.
CallFails(w) ==
  /\ pc[w] \in {"claimed", "preflight", "sign", "receipt", "canonical", "final", "nonce",
                "broadcast"}
  /\ Fault
  /\ Decide(w, Retry(w))
  /\ UNCHANGED <<dbVars, job, seen, chainVars>>

\* reconcile writes a state of its own, not the catch block.
Reconciling(w) ==
  \/ outcome[w] \in {"submitted", "confirmed", "finalized"}
  \/ outcome[w] = "failed" /\ seen[w] # None

\* A write fails, or commits and loses its answer.  What reconcile wrote the catch
\* block then writes over; what the catch block wrote ends the tick.
WriteFails(w) ==
  /\ pc[w] = "writing" /\ Fault
  /\ \/ UNCHANGED <<state, receipt>>
     \/ Fenced(w) /\ Record(w)
  /\ IF Reconciling(w) THEN Decide(w, Retry(w)) /\ UNCHANGED seen ELSE Leave(w)
  /\ UNCHANGED <<nonce, lease, capacity, job, chainVars>>

\* The same for the withdrawal: a finalized job goes back to be looked at again.
WithdrawFails(w) ==
  /\ pc[w] = "withdraw" /\ Fault
  /\ capacity' \in {capacity, capacity \ {ProjectOf[job[w]]}}
  /\ IF Reconciling(w) THEN Decide(w, Retry(w)) /\ UNCHANGED seen ELSE Leave(w)
  /\ UNCHANGED <<state, receipt, nonce, lease, job, chainVars>>

Crash(w) ==
  /\ pc[w] # "idle" /\ Fault
  /\ Forget(w)
  /\ UNCHANGED <<dbVars, chainVars>>

HoldsLease(w, p) == lease[p] = w /\ job[w] # None /\ ProjectOf[job[w]] = p

\* The lease of a dead worker runs out; that of a slow one may.
LeaseRunsOut(p) ==
  /\ lease[p] # None
  /\ IF HoldsLease(lease[p], p) THEN Fault ELSE UNCHANGED faults
  /\ lease' = [lease EXCEPT ![p] = None]
  /\ UNCHANGED <<state, receipt, nonce, capacity, workerVars, chainVars>>

------------------------------------------------------------------------------
(* The chain, capacity refreshes and the audit                             *)

\* The next nonce is included from bytes the nodes know.
Mine(j) ==
  /\ j \in mempool /\ nonce[j] = Len(mined)
  /\ \E status \in {"success", "reverted"} :
       mined' = Append(mined, [job |-> j, branch |-> branch, status |-> status])
  /\ UNCHANGED <<dbVars, workerVars, final, mempool, branch, deepened, faults>>

\* Finality takes longer than a lease lasts: a worker that compared a receipt
\* with a branch given up since has lost its lease by then.
Finalize ==
  /\ final < Len(mined)
  /\ \A w \in Workers :
       pc[w] \in {"final", "writing"} /\ seen[w] # None /\ nonce[job[w]] = final
       => Canonical(w) \/ ~Fenced(w)
  /\ final' = final + 1
  /\ UNCHANGED <<dbVars, workerVars, mined, mempool, branch, deepened, faults>>

Reorg ==
  /\ branch < MaxReorgs
  /\ \E kept \in final..(Len(mined) - 1) : mined' = SubSeq(mined, 1, kept)
  /\ branch' = branch + 1
  /\ UNCHANGED <<dbVars, workerVars, final, mempool, deepened, faults>>

\* Blocks believed final are replaced: the transaction comes back elsewhere.
DeepReorg ==
  /\ DeepReorgs /\ ~deepened /\ final > 0
  /\ deepened' = TRUE
  /\ branch' = MaxReorgs + 1
  /\ \E kept \in 0..(final - 1) : mined' = SubSeq(mined, 1, kept) /\ final' = kept
  /\ UNCHANGED <<dbVars, workerVars, mempool, faults>>

\* The nodes drop bytes they had accepted.
DropBytes(j) ==
  /\ j \in mempool /\ ~Included(j) /\ Fault
  /\ mempool' = mempool \ {j}
  /\ UNCHANGED <<dbVars, workerVars, mined, final, branch, deepened>>

\* Mutant: any observation is stored.
RefreshableAlways(p) == TRUE

\* updateProviderCapacity refuses a project with a quarantined job.
Refreshable(p) == ~Quarantined(p)

Refresh(p) ==
  /\ Refreshable(p) /\ p \notin capacity
  /\ capacity' = capacity \union {p}
  /\ UNCHANGED <<state, receipt, nonce, lease, workerVars, chainVars, faults>>

\* invalidateReorg: a recorded receipt is on no canonical block any more.
Audit(j) ==
  /\ state[j] \in {"finalized", "failed"} /\ receipt[j] # None
  /\ ~(Included(j) /\ Inclusion(j).branch = receipt[j])
  /\ state' = [state EXCEPT ![j] = "quarantined"]
  /\ capacity' = capacity \ {ProjectOf[j]}
  /\ UNCHANGED <<receipt, nonce, lease, workerVars, chainVars, faults>>

Step(w) ==
  \/ \E j \in Jobs : Claim(w, j)
  \/ Validate(w) \/ Preflight(w) \/ SaveIntent(w)
  \/ ReadReceipt(w) \/ CheckCanonical(w) \/ CheckFinal(w)
  \/ CheckNonce(w) \/ Broadcast(w) \/ Write(w) \/ Withdraw(w) \/ Release(w)

Misfortune(w) ==
  \/ BindingChanged(w) \/ CallFails(w) \/ WriteFails(w) \/ WithdrawFails(w) \/ Crash(w)

Next ==
  \/ \E w \in Workers : Step(w) \/ Misfortune(w)
  \/ \E j \in Jobs : Plan(j) \/ Mine(j) \/ DropBytes(j) \/ Audit(j)
  \/ \E p \in Projects : LeaseRunsOut(p) \/ Refresh(p)
  \/ Finalize \/ Reorg \/ DeepReorg

Spec == Init /\ [][Next]_vars

------------------------------------------------------------------------------
(* Properties                                                              *)

\* control-worker/README.md:70: the nonce is serialized across projects, so that
\* no two jobs ever sign the same one and none is skipped.
NoncesSerial ==
  /\ \A j, k \in Jobs : j # k /\ nonce[j] # None => nonce[j] # nonce[k]
  /\ Allocated = 0..(Cardinality(Allocated) - 1)

\* control-worker/README.md:74: while finality holds no later transaction of a
\* project is signed before the earlier one is beyond any reorganisation, so
\* that none comes back to life around it.
NoRevival ==
  ~deepened => \A k \in Jobs : nonce[k] # None =>
    \A j \in Siblings(k) : j < k /\ nonce[j] # None => nonce[j] < final /\ Included(j)

\* A finalized job executed for good, a job failed by its receipt reverted for
\* good, and a job failed before it was signed never executes.
EndedIsTrue ==
  ~deepened => \A j \in Jobs :
    /\ state[j] = "finalized" =>
         Included(j) /\ nonce[j] < final /\ Inclusion(j).status = "success"
    /\ state[j] = "failed" =>
         \/ nonce[j] = None
         \/ Included(j) /\ nonce[j] < final /\ Inclusion(j).status = "reverted"

\* What has ended stays ended, whoever lost its lease, and a quarantine is left to
\* the operator.  Two exceptions: the audit quarantines, and a tick that ended the
\* job by its receipt and met an error right after writes broadcast_unknown over it
\* while it still holds the lease (over the audit's verdict too, if finality broke
\* in between).
EndedStays ==
  [][\A j \in Jobs : state[j] \in Ended =>
       \/ state'[j] = state[j]
       \/ state[j] # "quarantined" /\ state'[j] = "quarantined"
       \/ /\ state[j] # "quarantined" \/ deepened
          /\ state'[j] = "broadcast_unknown"
          /\ \E w \in Workers : HoldsLease(w, ProjectOf[j]) /\ job[w] = j /\ seen[w] # None]_vars

\* control-worker/README.md:74: "Quarantined projects cannot admit more jobs or
\* capacity".  A quarantined project comes to have capacity in one way only, by the
\* quarantining write of a tick that withdraws it next, or by a fault in between.
QuarantineCloses ==
  [][\A p \in Projects :
       (Quarantined(p) /\ p \in capacity)' /\ ~(Quarantined(p) /\ p \in capacity) =>
         \/ faults' > faults
         \/ \E w \in Workers : pc'[w] = "withdraw" /\ ProjectOf[job[w]] = p]_vars

\* control-worker/README.md:72: "A consumed nonce without the expected receipt is
\* quarantined": the quarantined job's transaction is not on the chain.
QuarantinedHasNoReceipt == \A j \in Jobs : state[j] = "quarantined" => ~Included(j)

------------------------------------------------------------------------------
(* Progress: workers tick, dead leases run out, known bytes are included and  *)
(* inclusions become final; claims go round in order of next_attempt_at, so   *)
(* each claimable job has its turn; faults and reorganisations are finite.    *)

Fairness ==
  /\ \A w \in Workers : WF_vars(Step(w))
  /\ \A p \in Projects : WF_vars(LeaseRunsOut(p) /\ ~HoldsLease(lease[p], p))
  /\ \A j \in Jobs : WF_vars(Mine(j)) /\ SF_vars(\E w \in Workers : Claim(w, j))
  /\ WF_vars(Finalize)

FairSpec == Spec /\ Fairness

\* Every planned job ends, unless a quarantine of its own project, or of a job
\* with an earlier nonce whose bytes never went out, waits for the operator.
JobsEnd ==
  \A j \in Jobs : state[j] \in Pending ~>
    \/ state[j] \in Ended
    \/ Quarantined(ProjectOf[j])
    \/ \E k \in Jobs : state[k] = "quarantined" /\ ~Included(k) /\ nonce[k] # None

==============================================================================
