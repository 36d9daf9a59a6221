------------------------------- MODULE KeeperProofs -------------------------------
(* For any number of jobs, projects, workers, faults and reorganisations: the     *)
(* keeper's nonces are serial, and while finality holds what a job's state says    *)
(* of the chain is true and no transaction comes back around a later one.          *)
EXTENDS Keeper, FiniteSetTheorems, SequenceTheorems, TLAPS

USE KeeperAssumption, NoneAssumption DEF KeeperAssumption, NoneAssumption

Statuses == {"success", "reverted"}
Block == [job : Jobs, branch : Branches, status : Statuses]
Active == {"claimed", "preflight", "sign", "receipt", "canonical", "final", "nonce",
           "broadcast"}

(*************************** The inductive invariant **************************)
\* Every transaction on the chain is a job's, at its nonce.
ChainInv ==
  /\ \A i \in 1..Len(mined) : /\ nonce[mined[i].job] = i - 1
                              /\ mined[i].branch <= branch
  /\ \A j \in mempool : nonce[j] # None

\* What a worker knows of its job, whatever became of its lease.
Worker(w) ==
  /\ pc[w] # "idle" => job[w] \in Jobs
  /\ pc[w] \in {"receipt", "canonical", "final", "nonce", "broadcast"} =>
       nonce[job[w]] # None
  /\ pc[w] \in {"canonical", "final"} => seen[w] # None
  /\ seen[w] # None => /\ pc[w] \in {"canonical", "final", "writing", "withdraw"}
                       /\ nonce[job[w]] # None
  /\ pc[w] = "writing" => outcome[w] \in Pending \union Ended
  /\ pc[w] = "withdraw" => outcome[w] \in {"finalized", "quarantined"}
  /\ pc[w] \in {"writing", "withdraw"} =>
       /\ outcome[w] \in {"submitted", "confirmed"} => nonce[job[w]] # None
       /\ outcome[w] = "finalized" => seen[w] # None

\* While the lease is the worker's, nobody else has written its job: it is pending,
\* or the worker wrote an end and is about to write over it.
Held(w) ==
  /\ pc[w] \in Active \union {"writing"} /\ Fenced(w) =>
       \/ state[job[w]] \in Pending
       \/ /\ pc[w] = "writing" /\ outcome[w] = "broadcast_unknown" /\ seen[w] # None
          /\ state[job[w]] # "quarantined" \/ deepened
  /\ pc[w] = "withdraw" /\ Fenced(w) /\ outcome[w] = "finalized" =>
       state[job[w]] # "quarantined" \/ deepened

\* The receipt of j is beyond any reorganisation and is r.
Firm(j, r, s) == Included(j) /\ nonce[j] < final /\ Inclusion(j) = r /\ r.status = s

\* What a worker has seen of the chain, and what follows once it is final.
Sighted(w) ==
  /\ seen[w] # None =>
       /\ seen[w].branch <= branch
       /\ seen[w].branch = branch => Included(job[w]) /\ Inclusion(job[w]) = seen[w]
       /\ Included(job[w]) /\ Inclusion(job[w]).branch = seen[w].branch =>
            Inclusion(job[w]) = seen[w]
  /\ pc[w] = "final" /\ Fenced(w) /\ nonce[job[w]] < final => Canonical(w)
  /\ pc[w] = "writing" /\ Fenced(w) =>
       /\ outcome[w] = "finalized" => Firm(job[w], seen[w], "success")
       /\ outcome[w] = "failed" =>
            IF seen[w] = None THEN nonce[job[w]] = None
                              ELSE Firm(job[w], seen[w], "reverted")

Before(j) == {i \in Siblings(j) : i < j}

\* The jobs before the one a worker holds have ended.
Serial(w) ==
  pc[w] \in Active /\ Fenced(w) =>
    \A i \in Before(job[w]) : state[i] \in {"absent", "finalized", "failed"}

Planned(j) ==
  /\ receipt[j] # None => nonce[j] # None
  /\ state[j] = "absent" => nonce[j] = None
  /\ state[j] # "absent" => \A i \in Before(j) : state[i] # "absent"

\* A job that ended did so for good; one that was signed came after those before it.
Settled(j) ==
  /\ state[j] = "finalized" =>
       receipt[j] # None /\ Firm(j, Inclusion(j), "success")
       /\ Inclusion(j).branch = receipt[j]
  /\ state[j] = "failed" /\ nonce[j] # None =>
       /\ Firm(j, Inclusion(j), "reverted")
       /\ receipt[j] # None => Inclusion(j).branch = receipt[j]
  /\ nonce[j] # None => \A i \in Before(j) :
       IF nonce[i] = None THEN state[i] \in {"failed", "quarantined"}
                          ELSE Included(i) /\ nonce[i] < final

\* Finality, while it holds, makes the rest of the invariant true.
Good(w) == Worker(w) /\ Held(w) /\ (~deepened => Sighted(w) /\ Serial(w))
Sound(j) == Planned(j) /\ (~deepened => Settled(j))

IInv ==
  /\ TypeOK
  /\ NoncesSerial
  /\ ChainInv
  /\ \A w \in Workers : Good(w)
  /\ \A j \in Jobs : Sound(j)
  /\ ~deepened => branch <= MaxReorgs

(*********************************** Basics ***********************************)
LEMMA Basics ==
  ASSUME TypeOK
  PROVE  /\ Cardinality(Jobs) \in Nat
         /\ \A j \in Jobs : nonce[j] # None => nonce[j] \in Nat
         /\ mined \in Seq(Block) /\ Len(mined) \in Nat
         /\ \A i \in 1..Len(mined) : mined[i] \in Block
         /\ final \in Nat /\ final <= Len(mined) /\ branch \in Nat
         /\ \A w \in Workers : seen[w] # None => seen[w] \in Receipts /\ seen[w].branch \in Nat
<1>1. Cardinality(Jobs) \in Nat
  BY FS_CardinalityType
<1>2. mined \in Seq(Block)
  BY DEF TypeOK, Block, Statuses
<1>3. Len(mined) \in Nat /\ \A i \in 1..Len(mined) : mined[i] \in Block
  BY <1>2
<1>4. final \in Nat /\ final <= Len(mined) /\ branch \in Nat
  BY <1>3 DEF TypeOK, Branches
<1>5. \A w \in Workers : seen[w] # None => seen[w] \in Receipts /\ seen[w].branch \in Nat
  BY DEF TypeOK, Receipts, Branches
<1>6. QED BY <1>1, <1>2, <1>3, <1>4, <1>5 DEF TypeOK

\* A lease has one holder: two workers that hold theirs have different jobs.
LEMMA OneHolder ==
  ASSUME NEW u \in Workers, NEW w \in Workers, u # w, Fenced(u), Fenced(w)
  PROVE  ProjectOf[job[u]] # ProjectOf[job[w]] /\ job[u] # job[w]
BY DEF Fenced

\* Nothing of the database but the leases, and nothing of the chain, changes.
Untouched == UNCHANGED <<state, receipt, nonce, mined, final, branch, deepened>>

LEMMA SoundStays ==
  ASSUME IInv, Untouched, NEW j \in Jobs
  PROVE  Sound(j)'
BY DEF IInv, Untouched, Sound, Planned, Settled, Firm, Included, Inclusion

\* A worker whose memory does not change, and who gains no lease.
LEMMA OtherStays ==
  ASSUME IInv, Untouched, NEW u \in Workers,
         pc'[u] = pc[u], job'[u] = job[u], seen'[u] = seen[u], outcome'[u] = outcome[u],
         pc[u] # "idle" /\ Fenced(u)' => Fenced(u)
  PROVE  Good(u)'
<1>1. Good(u) /\ state' = state /\ nonce' = nonce /\ mined' = mined /\ final' = final
      /\ branch' = branch /\ deepened' = deepened
  BY DEF IInv, Untouched
<1>2. Worker(u)'
  BY <1>1 DEF Good, Worker
<1>3. Held(u)'
  BY <1>1 DEF Good, Held, Active
<1>4. Sighted(u) => Sighted(u)'
  BY <1>1 DEF Sighted, Canonical, Firm, Included, Inclusion
<1>5. Serial(u) => Serial(u)'
  BY <1>1 DEF Serial, Active
<1>6. QED BY <1>1, <1>2, <1>3, <1>4, <1>5 DEF Good

\* A step in which one worker's memory changes.
LEMMA WorkerStep ==
  ASSUME IInv, Untouched, TypeOK', \A j \in mempool' : nonce[j] # None,
         NEW w \in Workers, Good(w)',
         \A u \in Workers \ {w} :
           /\ pc'[u] = pc[u] /\ job'[u] = job[u] /\ seen'[u] = seen[u]
           /\ outcome'[u] = outcome[u]
           /\ pc[u] # "idle" /\ Fenced(u)' => Fenced(u)
  PROVE  IInv'
<1>1. \A u \in Workers : Good(u)'
  BY OtherStays
<1>2. \A j \in Jobs : Sound(j)'
  BY SoundStays
<1>3. NoncesSerial' /\ ChainInv' /\ (~deepened' => branch' <= MaxReorgs)
  BY DEF IInv, Untouched, NoncesSerial, Allocated, ChainInv
<1>4. QED BY <1>1, <1>2, <1>3 DEF IInv

\* A step in which no worker's memory changes.
LEMMA OutsideStep ==
  ASSUME IInv, Untouched, TypeOK', \A j \in mempool' : nonce[j] # None,
         UNCHANGED workerVars, \A u \in Workers : pc[u] # "idle" /\ Fenced(u)' => Fenced(u)
  PROVE  IInv'
<1>1. \A u \in Workers : Good(u)'
  BY OtherStays DEF workerVars
<1>2. \A j \in Jobs : Sound(j)'
  BY SoundStays
<1>3. NoncesSerial' /\ ChainInv' /\ (~deepened' => branch' <= MaxReorgs)
  BY DEF IInv, Untouched, NoncesSerial, Allocated, ChainInv
<1>4. QED BY <1>1, <1>2, <1>3 DEF IInv

LEMMA OutsideKeeps ==
  ASSUME IInv,
         \/ \E p \in Projects : LeaseRunsOut(p) \/ Refresh(p)
         \/ \E j \in Jobs : DropBytes(j)
         \/ UNCHANGED vars
  PROVE  IInv'
<1>1. Untouched /\ UNCHANGED workerVars
  BY DEF LeaseRunsOut, Refresh, DropBytes, Untouched, vars, dbVars, chainVars, workerVars
<1>2. TypeOK'
  <2>1. lease' \in [Projects -> Workers \union {None}] /\ capacity' \subseteq Projects
    BY DEF IInv, TypeOK, LeaseRunsOut, Refresh, DropBytes, vars, dbVars
  <2>2. mempool' \subseteq Jobs
    BY DEF IInv, TypeOK, LeaseRunsOut, Refresh, DropBytes, vars, chainVars
  <2>3. faults' \in 0..MaxFaults
    BY DEF IInv, TypeOK, LeaseRunsOut, Refresh, DropBytes, vars, Fault
  <2>4. QED BY <1>1, <2>1, <2>2, <2>3 DEF IInv, TypeOK, Untouched, workerVars
<1>3. \A j \in mempool' : nonce[j] # None
  BY DEF IInv, ChainInv, LeaseRunsOut, Refresh, DropBytes, vars, chainVars
<1>4. \A u \in Workers : pc[u] # "idle" /\ Fenced(u)' => Fenced(u)
  <2> SUFFICES ASSUME NEW u \in Workers, pc[u] # "idle", Fenced(u)' PROVE Fenced(u)
    OBVIOUS
  <2>1. job'[u] = job[u] /\ job[u] \in Jobs /\ ProjectOf[job[u]] \in Projects
    BY <1>1 DEF IInv, Good, Worker, workerVars
  <2>2. \A p \in Projects : lease'[p] \in {lease[p], None}
    BY DEF IInv, TypeOK, LeaseRunsOut, Refresh, DropBytes, vars, dbVars
  <2>3. QED BY <2>1, <2>2 DEF Fenced
<1>5. QED BY <1>1, <1>2, <1>3, <1>4, OutsideStep

LEMMA InitIInv == Init => IInv
<1> SUFFICES ASSUME Init PROVE IInv
  OBVIOUS
<1>0. Cardinality(Jobs) \in Nat /\ Allocated = {}
  BY FS_CardinalityType DEF Init, Allocated
<1>1. TypeOK
  <2>1. <<>> \in Seq([job : Jobs, branch : Branches, status : {"success", "reverted"}])
        /\ Len(<<>>) = 0
    OBVIOUS
  <2>2. /\ state \in [Jobs -> {"absent"} \union Pending \union Ended]
        /\ receipt \in [Jobs -> Branches \union {None}]
        /\ nonce \in [Jobs -> (0..(Cardinality(Jobs) - 1)) \union {None}]
        /\ lease \in [Projects -> Workers \union {None}]
        /\ capacity \subseteq Projects
    BY DEF Init
  <2>3. /\ pc \in [Workers -> Control]
        /\ job \in [Workers -> Jobs \union {None}]
        /\ seen \in [Workers -> Receipts \union {None}]
        /\ outcome \in [Workers -> Pending \union Ended \union {None}]
    BY DEF Init, Control
  <2>4. final \in 0..Len(mined)
    <3>1. Len(mined) = 0 /\ final = 0
      BY <2>1 DEF Init
    <3>2. QED BY <3>1
  <2>5. mempool \subseteq Jobs /\ branch \in Branches /\ faults \in 0..MaxFaults
    BY DEF Init, Branches
  <2>6. deepened \in BOOLEAN
    BY DEF Init
  <2>7. QED BY <2>1, <2>2, <2>3, <2>4, <2>5, <2>6 DEF Init, TypeOK
<1>2. NoncesSerial
  BY <1>0, FS_EmptySet DEF Init, NoncesSerial
<1>3. ChainInv
  BY DEF Init, ChainInv
<1>4. \A w \in Workers : Good(w)
  BY DEF Init, Good, Worker, Held, Sighted, Serial, Active
<1>5. \A j \in Jobs : Sound(j)
  BY DEF Init, Sound, Planned, Settled
<1>6. QED BY <1>1, <1>2, <1>3, <1>4, <1>5 DEF IInv, Init

(******************************** Worker steps ********************************)
\* What is known of worker w before its step.
LEMMA WorkerFacts ==
  ASSUME IInv, NEW w \in Workers
  PROVE  /\ Good(w) /\ Worker(w) /\ Held(w) /\ (~deepened => Sighted(w) /\ Serial(w))
         /\ pc[w] # "idle" => job[w] \in Jobs /\ ProjectOf[job[w]] \in Projects
         /\ TypeOK /\ ChainInv
         /\ seen[w] \in Receipts \union {None}
         /\ outcome[w] \in Pending \union Ended \union {None}
         /\ capacity \subseteq Projects /\ mempool \subseteq Jobs /\ faults \in 0..MaxFaults
BY DEF IInv, Good, Worker, TypeOK

\* The tick of w goes on to p, with receipt s and outcome o, its job and every lease
\* as they were.
Goes(w, p, s, o) ==
  /\ Untouched /\ UNCHANGED <<lease, job>>
  /\ capacity' \subseteq Projects /\ mempool' \subseteq Jobs /\ faults' \in 0..MaxFaults
  /\ \A j \in mempool' : nonce[j] # None
  /\ p \in Control /\ pc' = [pc EXCEPT ![w] = p]
  /\ s \in Receipts \union {None}
  /\ seen' = [seen EXCEPT ![w] = s] \/ (seen' = seen /\ s = seen[w])
  /\ o \in Pending \union Ended \union {None}
  /\ outcome' = [outcome EXCEPT ![w] = o] \/ (outcome' = outcome /\ o = outcome[w])

LEMMA GoesFacts ==
  ASSUME IInv, NEW w \in Workers, NEW p, NEW s, NEW o, Goes(w, p, s, o)
  PROVE  /\ pc'[w] = p /\ seen'[w] = s /\ outcome'[w] = o /\ job'[w] = job[w]
         /\ Fenced(w)' <=> Fenced(w)
         /\ state' = state /\ nonce' = nonce /\ deepened' = deepened
         /\ final' = final /\ branch' = branch
         /\ \A j \in Jobs : /\ Included(j)' <=> Included(j)
                            /\ Inclusion(j)' = Inclusion(j)
                            /\ Before(j)' = Before(j)
BY DEF IInv, TypeOK, Goes, Untouched, Fenced, Included, Inclusion, Before, Siblings

LEMMA GoesOn ==
  ASSUME IInv, NEW w \in Workers, NEW p, NEW s, NEW o, Goes(w, p, s, o), Good(w)'
  PROVE  IInv'
<1>1. TypeOK'
  <2>1. /\ pc' \in [Workers -> Control]
        /\ seen' \in [Workers -> Receipts \union {None}]
        /\ outcome' \in [Workers -> Pending \union Ended \union {None}]
    BY DEF IInv, TypeOK, Goes
  <2>2. QED BY <2>1 DEF IInv, TypeOK, Untouched, Goes
<1>2. \A u \in Workers \ {w} :
        /\ pc'[u] = pc[u] /\ job'[u] = job[u] /\ seen'[u] = seen[u]
        /\ outcome'[u] = outcome[u]
        /\ pc[u] # "idle" /\ Fenced(u)' => Fenced(u)
  BY DEF IInv, TypeOK, Fenced, Goes
<1>3. Untouched /\ \A j \in mempool' : nonce[j] # None
  BY DEF Goes
<1>4. QED BY <1>1, <1>2, <1>3, WorkerStep

\* A place without a receipt, before anything is decided.
LEMMA Walks ==
  ASSUME IInv, NEW w \in Workers, NEW p, NEW o, Goes(w, p, None, o),
         pc[w] \in Active, p \in {"preflight", "sign", "receipt", "nonce", "broadcast", "release"},
         p \in {"receipt", "nonce", "broadcast"} => nonce[job[w]] # None
  PROVE  IInv'
<1>1. /\ pc'[w] = p /\ seen'[w] = None /\ outcome'[w] = o /\ job'[w] = job[w]
      /\ Fenced(w)' <=> Fenced(w)
      /\ state' = state /\ nonce' = nonce /\ deepened' = deepened
  BY GoesFacts
<1>2. Worker(w) /\ Held(w) /\ (~deepened => Serial(w)) /\ job[w] \in Jobs
  BY WorkerFacts DEF Active
<1>3. Worker(w)'
  BY <1>1, <1>2 DEF Worker
<1>4. Held(w)'
  BY <1>1, <1>2 DEF Held, Active
<1>5. Sighted(w)'
  BY <1>1 DEF Sighted
<1>6. Serial(w) => Serial(w)'
  BY <1>1 DEF Serial, Before, Siblings
<1>7. Good(w)'
  BY <1>1, <1>2, <1>3, <1>4, <1>5, <1>6 DEF Good
<1>8. QED BY <1>7, GoesOn

\* A decision that claims no receipt: the job is still pending.
LEMMA Decides ==
  ASSUME IInv, NEW w \in Workers, NEW s, NEW o, Goes(w, "writing", s, o),
         pc[w] \in Active, o \in Pending \union Ended, o # "finalized",
         o = "failed" => s = None /\ nonce[job[w]] = None,
         o \in {"submitted", "confirmed"} => nonce[job[w]] # None,
         s \in {seen[w], None}
  PROVE  IInv'
<1>1. /\ pc'[w] = "writing" /\ seen'[w] = s /\ outcome'[w] = o /\ job'[w] = job[w]
      /\ Fenced(w)' <=> Fenced(w)
      /\ state' = state /\ nonce' = nonce /\ deepened' = deepened
      /\ final' = final /\ branch' = branch
      /\ \A j \in Jobs : (Included(j)' <=> Included(j)) /\ Inclusion(j)' = Inclusion(j)
  BY GoesFacts
<1>2. Worker(w) /\ Held(w) /\ (~deepened => Sighted(w)) /\ job[w] \in Jobs
  BY WorkerFacts DEF Active
<1>3. Worker(w)'
  BY <1>1, <1>2 DEF Worker
<1>4. Held(w)'
  BY <1>1, <1>2 DEF Held, Active
<1>5. Sighted(w) => Sighted(w)'
  BY <1>1, <1>2 DEF Sighted
<1>6. Serial(w)'
  BY <1>1 DEF Serial, Active
<1>7. Good(w)'
  BY <1>1, <1>2, <1>3, <1>4, <1>5, <1>6 DEF Good
<1>8. QED BY <1>7, GoesOn

\* Before a receipt is read there is none.
LEMMA NothingSeen ==
  ASSUME IInv, NEW w \in Workers,
         pc[w] \in {"claimed", "preflight", "sign", "receipt", "nonce", "broadcast"}
  PROVE  seen[w] = None /\ pc[w] \in Active
BY WorkerFacts DEF Worker, Active

LEMMA ValidateKeeps == ASSUME IInv, NEW w \in Workers, Validate(w) PROVE IInv'
<1>1. PICK p : p = IF nonce[job[w]] = None THEN "preflight" ELSE "receipt"
  OBVIOUS
<1>2. seen[w] = None /\ pc[w] \in Active
  BY NothingSeen DEF Validate
<1>3. Goes(w, p, None, outcome[w])
  BY <1>1, <1>2, WorkerFacts
     DEF Validate, Go, dbVars, chainVars, Untouched, Control, Goes, ChainInv
<1>4. p \in {"preflight", "receipt"} /\ (p = "receipt" => nonce[job[w]] # None)
  BY <1>1
<1>5. QED BY <1>2, <1>3, <1>4, Walks

LEMMA BindingChangedKeeps == ASSUME IInv, NEW w \in Workers, BindingChanged(w) PROVE IInv'
<1>1. seen[w] = None /\ pc[w] \in Active
  BY NothingSeen DEF BindingChanged
<1>2. Goes(w, "writing", None, "quarantined")
  BY <1>1, WorkerFacts
     DEF BindingChanged, Decide, Go, dbVars, chainVars, Untouched, Control, Goes, ChainInv,
         Pending, Ended
<1>3. QED BY <1>1, <1>2, Decides DEF Ended

LEMMA PreflightKeeps == ASSUME IInv, NEW w \in Workers, Preflight(w) PROVE IInv'
<1>1. seen[w] = None /\ pc[w] \in Active
  BY NothingSeen DEF Preflight
<1>2. CASE Go(w, "sign") /\ UNCHANGED outcome
  <2>1. Goes(w, "sign", None, outcome[w])
    BY <1>1, <1>2, WorkerFacts
       DEF Preflight, Go, dbVars, chainVars, Untouched, Control, Goes, ChainInv
  <2>2. QED BY <1>1, <2>1, Walks
<1>3. CASE Decide(w, IF nonce[job[w]] = None THEN "failed" ELSE "broadcast_unknown")
  <2>1. PICK o : o = IF nonce[job[w]] = None THEN "failed" ELSE "broadcast_unknown"
    OBVIOUS
  <2>2. /\ o \in Pending \union Ended /\ o # "finalized"
        /\ o = "failed" => nonce[job[w]] = None
        /\ o \notin {"submitted", "confirmed"}
    BY <2>1 DEF Pending, Ended
  <2>3. Goes(w, "writing", None, o)
    BY <1>1, <1>3, <2>1, <2>2, WorkerFacts
       DEF Preflight, Decide, Go, dbVars, chainVars, Untouched, Control, Goes, ChainInv
  <2>4. QED BY <1>1, <2>2, <2>3, Decides
<1>4. QED BY <1>2, <1>3 DEF Preflight

LEMMA CheckNonceKeeps == ASSUME IInv, NEW w \in Workers, CheckNonce(w) PROVE IInv'
<1>1. seen[w] = None /\ pc[w] \in Active /\ nonce[job[w]] # None
  BY NothingSeen, WorkerFacts DEF CheckNonce, Worker
<1>2. CASE Decide(w, "quarantined")
  <2>1. Goes(w, "writing", None, "quarantined")
    BY <1>1, <1>2, WorkerFacts
       DEF CheckNonce, Decide, Go, dbVars, chainVars, Untouched, Control, Goes, ChainInv,
           Pending, Ended
  <2>2. QED BY <1>1, <2>1, Decides DEF Ended
<1>3. CASE Go(w, IF Fenced(w) THEN "broadcast" ELSE "release") /\ UNCHANGED outcome
  <2>1. PICK p \in {"broadcast", "release"} : p = IF Fenced(w) THEN "broadcast" ELSE "release"
    OBVIOUS
  <2>2. Goes(w, p, None, outcome[w])
    BY <1>1, <1>3, <2>1, WorkerFacts
       DEF CheckNonce, Go, dbVars, chainVars, Untouched, Control, Goes, ChainInv
  <2>3. QED BY <1>1, <2>2, Walks
<1>4. QED BY <1>2, <1>3 DEF CheckNonce

LEMMA BroadcastKeeps == ASSUME IInv, NEW w \in Workers, Broadcast(w) PROVE IInv'
<1>1. /\ seen[w] = None /\ pc[w] \in Active /\ nonce[job[w]] # None /\ job[w] \in Jobs
  BY NothingSeen, WorkerFacts DEF Broadcast, Worker
<1>2. PICK o \in {"submitted", "broadcast_unknown"} : Decide(w, o)
  BY DEF Broadcast
<1>3. o \in Pending \union Ended
  BY DEF Pending
<1>4. mempool' \subseteq Jobs /\ \A j \in mempool' : nonce[j] # None
  BY <1>1, WorkerFacts DEF Broadcast, ChainInv
<1>5. Goes(w, "writing", None, o)
  BY <1>1, <1>2, <1>3, <1>4, WorkerFacts
     DEF Broadcast, Decide, Go, dbVars, Untouched, Control, Goes
<1>6. QED BY <1>1, <1>3, <1>5, Decides

LEMMA RetryIsPending ==
  ASSUME NEW w
  PROVE  /\ Retry(w) \in Pending /\ Retry(w) \in {"queued", "broadcast_unknown"}
         /\ nonce[job[w]] # None => Retry(w) = "broadcast_unknown"
BY DEF Retry, Pending

LEMMA CallFailsKeeps == ASSUME IInv, NEW w \in Workers, CallFails(w) PROVE IInv'
<1>1. PICK o : o = Retry(w)
  OBVIOUS
<1>2. pc[w] \in Active
  BY DEF CallFails, Active
<1>3. o \in Pending \union Ended /\ o \in {"queued", "broadcast_unknown"}
  BY <1>1, RetryIsPending
<1>4. faults' \in 0..MaxFaults
  BY WorkerFacts DEF CallFails, Fault
<1>5. Goes(w, "writing", seen[w], o)
  BY <1>1, <1>3, <1>4, WorkerFacts
     DEF CallFails, Decide, Go, dbVars, chainVars, Untouched, Control, Goes, ChainInv
<1>6. QED BY <1>2, <1>3, <1>5, Decides

LEMMA ReadReceiptKeeps == ASSUME IInv, NEW w \in Workers, ReadReceipt(w) PROVE IInv'
<1>1. /\ seen[w] = None /\ pc[w] \in Active /\ nonce[job[w]] # None /\ job[w] \in Jobs
      /\ TypeOK /\ Held(w) /\ (~deepened => Serial(w))
  BY NothingSeen, WorkerFacts DEF ReadReceipt, Worker
<1>2. CASE ~Included(job[w])
  <2>1. Goes(w, "nonce", None, outcome[w])
    BY <1>1, <1>2, WorkerFacts
       DEF ReadReceipt, Go, chainVars, Untouched, Control, Goes, ChainInv
  <2>2. QED BY <1>1, <2>1, Walks
<1>3. CASE Included(job[w])
  <2>1. PICK s : s = Inclusion(job[w])
    OBVIOUS
  <2>2. nonce[job[w]] + 1 \in 1..Len(mined)
    <3>1. PICK n : n = nonce[job[w]]
      OBVIOUS
    <3>2. n \in Nat /\ Len(mined) \in Nat
      BY <1>1, <3>1, Basics
    <3>3. n < Len(mined)
      BY <1>3, <3>1 DEF Included
    <3>4. n + 1 \in 1..Len(mined)
      BY <3>2, <3>3
    <3>5. QED BY <3>1, <3>4
  <2>3. mined[nonce[job[w]] + 1] \in Block /\ mined[nonce[job[w]] + 1].branch <= branch
    BY <1>1, <2>2, Basics, WorkerFacts DEF ChainInv
  <2>4. s \in Receipts /\ s.branch <= branch /\ s # None
    BY <2>1, <2>3 DEF Inclusion, Block, Receipts, Statuses
  <2>5. Goes(w, "canonical", s, outcome[w])
    BY <1>1, <1>3, <2>1, <2>4, WorkerFacts
       DEF ReadReceipt, Go, chainVars, Untouched, Control, Goes, ChainInv
  <2>6. /\ pc'[w] = "canonical" /\ seen'[w] = s /\ outcome'[w] = outcome[w] /\ job'[w] = job[w]
        /\ Fenced(w)' <=> Fenced(w)
        /\ state' = state /\ nonce' = nonce /\ deepened' = deepened
        /\ branch' = branch
        /\ Included(job[w])' /\ Inclusion(job[w])' = s
        /\ Before(job[w])' = Before(job[w])
    BY <1>1, <1>3, <2>1, <2>5, GoesFacts
  <2>7. Worker(w)'
    BY <1>1, <2>4, <2>6 DEF Worker
  <2>8. Held(w)'
    BY <1>1, <2>6 DEF Held, Active
  <2>9. Sighted(w)'
    <3>1. Included(job[w])' /\ Inclusion(job[w])' = s
      BY <2>6
    <3>2. QED BY <2>4, <2>6, <3>1 DEF Sighted
  <2>10. Serial(w) => Serial(w)'
    BY <1>1, <2>6 DEF Serial, Before, Siblings
  <2>11. Good(w)'
    BY <1>1, <2>6, <2>7, <2>8, <2>9, <2>10 DEF Good
  <2>12. QED BY <2>5, <2>11, GoesOn
<1>4. QED BY <1>2, <1>3

LEMMA CheckCanonicalKeeps == ASSUME IInv, NEW w \in Workers, CheckCanonical(w) PROVE IInv'
<1>1. /\ pc[w] = "canonical" /\ pc[w] \in Active /\ job[w] \in Jobs /\ TypeOK
      /\ Worker(w) /\ Held(w) /\ (~deepened => Sighted(w) /\ Serial(w))
  BY WorkerFacts DEF CheckCanonical, Active
<1>2. CASE Canonical(w)
  <2>1. Goes(w, "final", seen[w], outcome[w])
    BY <1>1, <1>2, WorkerFacts
       DEF CheckCanonical, Go, chainVars, Untouched, Control, Goes, ChainInv
  <2>2. /\ pc'[w] = "final" /\ seen'[w] = seen[w] /\ outcome'[w] = outcome[w]
        /\ job'[w] = job[w] /\ (Fenced(w)' <=> Fenced(w))
        /\ state' = state /\ nonce' = nonce /\ deepened' = deepened
        /\ final' = final /\ branch' = branch
        /\ (Included(job[w])' <=> Included(job[w]))
        /\ Inclusion(job[w])' = Inclusion(job[w]) /\ Before(job[w])' = Before(job[w])
    BY <1>1, <2>1, GoesFacts
  <2>3. Worker(w)'
    BY <1>1, <2>2 DEF Worker
  <2>4. Held(w)'
    BY <1>1, <2>2 DEF Held, Active
  <2>5. Sighted(w) => Sighted(w)'
    BY <1>1, <1>2, <2>2 DEF Sighted, Canonical
  <2>6. Serial(w) => Serial(w)'
    BY <1>1, <2>2 DEF Serial, Before, Siblings
  <2>7. Good(w)'
    BY <1>1, <2>2, <2>3, <2>4, <2>5, <2>6 DEF Good
  <2>8. QED BY <2>1, <2>7, GoesOn
<1>3. CASE ~Canonical(w)
  <2>1. Goes(w, "writing", seen[w], "broadcast_unknown")
    BY <1>1, <1>3, WorkerFacts
       DEF CheckCanonical, Decide, Go, chainVars, Untouched, Control, Goes, ChainInv, Pending
  <2>2. QED BY <1>1, <2>1, Decides DEF Pending
<1>4. QED BY <1>2, <1>3

\* Finality and the receipt's block being canonical make the receipt firm.
LEMMA CheckFinalKeeps == ASSUME IInv, NEW w \in Workers, CheckFinal(w) PROVE IInv'
<1>1. /\ pc[w] = "final" /\ pc[w] \in Active /\ job[w] \in Jobs /\ TypeOK
      /\ Worker(w) /\ Held(w) /\ (~deepened => Sighted(w) /\ Serial(w))
      /\ seen[w] # None /\ nonce[job[w]] # None
  BY WorkerFacts DEF CheckFinal, Active, Worker
<1>2. /\ Untouched /\ UNCHANGED <<lease, job, capacity, mempool, faults, seen>>
  BY DEF CheckFinal, dbVars, chainVars, Untouched
<1>3. ASSUME NEW o \in {"confirmed", "quarantined"}, Decide(w, o) PROVE IInv'
  <2>1. o \in Pending \union Ended
    BY DEF Pending, Ended
  <2>2. Goes(w, "writing", seen[w], o)
    BY <1>1, <1>2, <1>3, <2>1, WorkerFacts DEF Decide, Go, Control, Goes, ChainInv
  <2>3. QED BY <1>1, <2>1, <2>2, Decides
<1>4. ASSUME NEW o \in {"finalized", "failed"}, Decide(w, o), Confirmed(w),
             o = "failed" <=> seen[w].status = "reverted"
      PROVE  IInv'
  <2>1. o \in Pending \union Ended
    BY DEF Pending, Ended
  <2>2. Goes(w, "writing", seen[w], o)
    BY <1>1, <1>2, <1>4, <2>1, WorkerFacts DEF Decide, Go, Control, Goes, ChainInv
  <2>3. /\ pc'[w] = "writing" /\ seen'[w] = seen[w] /\ outcome'[w] = o
        /\ job'[w] = job[w] /\ (Fenced(w)' <=> Fenced(w))
        /\ state' = state /\ nonce' = nonce /\ deepened' = deepened
        /\ final' = final /\ branch' = branch
        /\ (Included(job[w])' <=> Included(job[w]))
        /\ Inclusion(job[w])' = Inclusion(job[w])
    BY <1>1, <2>2, GoesFacts
  <2>4. Worker(w)'
    BY <1>1, <2>1, <2>3 DEF Worker
  <2>5. Held(w)'
    BY <1>1, <2>3 DEF Held, Active
  <2>6. Sighted(w) => Sighted(w)'
    <3> SUFFICES ASSUME Sighted(w) PROVE Sighted(w)'
      OBVIOUS
    <3>1. seen[w].status \in {"success", "reverted"}
      BY <1>1, Basics DEF Receipts
    <3>2. o = "finalized" => seen[w].status = "success"
      BY <1>4, <3>1
    <3>3. Fenced(w) =>
            Included(job[w]) /\ nonce[job[w]] < final /\ Inclusion(job[w]) = seen[w]
      BY <1>1, <1>4 DEF Sighted, Canonical, Confirmed
    <3>4. Fenced(w)' => /\ o = "finalized" => Firm(job[w], seen[w], "success")'
                        /\ o = "failed" => Firm(job[w], seen[w], "reverted")'
      BY <1>4, <2>3, <3>2, <3>3 DEF Firm
    <3>5. QED BY <1>1, <2>3, <3>4 DEF Sighted
  <2>7. Serial(w)'
    BY <2>3 DEF Serial, Active
  <2>8. Good(w)'
    BY <1>1, <2>3, <2>4, <2>5, <2>6, <2>7 DEF Good
  <2>9. QED BY <2>2, <2>8, GoesOn
<1>5. QED
  <2>1. CASE ~Confirmed(w)
    BY <1>3, <2>1 DEF CheckFinal
  <2>2. CASE Confirmed(w) /\ seen[w].status = "reverted"
    BY <1>4, <2>2 DEF CheckFinal
  <2>3. CASE Confirmed(w) /\ seen[w].status # "reverted"
    BY <1>3, <1>4, <2>3 DEF CheckFinal
  <2>4. QED BY <2>1, <2>2, <2>3

\* A tick that is over has nothing left to keep.
LEMMA Leaves ==
  ASSUME IInv, NEW w \in Workers, Goes(w, "release", None, None), pc[w] # "idle"
  PROVE  IInv'
<1>1. /\ pc'[w] = "release" /\ seen'[w] = None /\ job'[w] = job[w]
      /\ deepened' = deepened /\ job[w] \in Jobs
  BY GoesFacts, WorkerFacts
<1>2. Worker(w)' /\ Held(w)' /\ Sighted(w)' /\ Serial(w)'
  BY <1>1 DEF Worker, Held, Sighted, Serial, Active
<1>3. Good(w)'
  BY <1>2 DEF Good
<1>4. QED BY <1>3, GoesOn

\* A write that failed, or the withdrawal after it, goes on to write over it.
LEMMA WritesOver ==
  ASSUME IInv, NEW w \in Workers, NEW o, o = "broadcast_unknown",
         Goes(w, "writing", seen[w], o), pc[w] \in {"writing", "withdraw"},
         pc[w] = "withdraw" => outcome[w] = "finalized",
         pc[w] = "writing" => outcome[w] # "broadcast_unknown"
  PROVE  IInv'
<1>1. /\ pc'[w] = "writing" /\ seen'[w] = seen[w] /\ outcome'[w] = o /\ job'[w] = job[w]
      /\ Fenced(w)' <=> Fenced(w)
      /\ state' = state /\ nonce' = nonce /\ deepened' = deepened
      /\ final' = final /\ branch' = branch
      /\ \A j \in Jobs : (Included(j)' <=> Included(j)) /\ Inclusion(j)' = Inclusion(j)
  BY GoesFacts
<1>2. Worker(w) /\ Held(w) /\ (~deepened => Sighted(w)) /\ job[w] \in Jobs
  BY WorkerFacts
<1>3. Worker(w)'
  BY <1>1, <1>2 DEF Worker, Pending
<1>4. Held(w)'
  BY <1>1, <1>2 DEF Held, Worker
<1>5. Sighted(w) => Sighted(w)'
  BY <1>1, <1>2 DEF Sighted
<1>6. Serial(w)'
  BY <1>1 DEF Serial, Active
<1>7. Good(w)'
  BY <1>1, <1>2, <1>3, <1>4, <1>5, <1>6 DEF Good
<1>8. QED BY <1>7, GoesOn

LEMMA WithdrawKeeps ==
  ASSUME IInv, NEW w \in Workers, Withdraw(w) \/ WithdrawFails(w) PROVE IInv'
<1>1. /\ pc[w] = "withdraw" /\ outcome[w] \in {"finalized", "quarantined"}
      /\ outcome[w] = "finalized" => seen[w] # None /\ nonce[job[w]] # None
      /\ TypeOK /\ Worker(w)
  BY WorkerFacts DEF Withdraw, WithdrawFails, Worker
<1>2. /\ Untouched /\ UNCHANGED <<lease, job, mempool>> /\ capacity' \subseteq Projects
      /\ faults' \in 0..MaxFaults
  BY WorkerFacts DEF Withdraw, WithdrawFails, chainVars, Untouched, Fault
<1>3. CASE Leave(w)
  <2>1. Goes(w, "release", None, None)
    BY <1>1, <1>2, <1>3, WorkerFacts DEF Leave, Go, Control, Goes, ChainInv
  <2>2. QED BY <1>1, <2>1, Leaves
<1>4. CASE Reconciling(w) /\ Decide(w, Retry(w)) /\ UNCHANGED seen
  <2>1. outcome[w] = "finalized"
    BY <1>1, <1>4 DEF Reconciling
  <2>2. PICK o : o = Retry(w)
    OBVIOUS
  <2>3. o = "broadcast_unknown" /\ o \in Pending \union Ended
    BY <1>1, <2>1, <2>2, RetryIsPending
  <2>4. Goes(w, "writing", seen[w], o)
    BY <1>1, <1>2, <1>4, <2>2, <2>3, WorkerFacts DEF Decide, Go, Control, Goes, ChainInv
  <2>5. QED BY <1>1, <2>1, <2>3, <2>4, WritesOver
<1>5. QED BY <1>3, <1>4 DEF Withdraw, WithdrawFails

LEMMA ClaimKeeps ==
  ASSUME IInv, NEW w \in Workers, NEW j \in Jobs, Claim(w, j)
  PROVE  IInv'
<1>1. /\ pc[w] = "idle" /\ TypeOK /\ seen[w] = None /\ ProjectOf[j] \in Projects
      /\ Untouched /\ mempool' = mempool
      /\ \A k \in mempool : nonce[k] # None
      /\ lease' = [lease EXCEPT ![ProjectOf[j]] = w]
      /\ pc' = [pc EXCEPT ![w] = "claimed"] /\ job' = [job EXCEPT ![w] = j]
      /\ seen' = seen /\ outcome' = outcome /\ capacity' = capacity /\ faults' = faults
  BY WorkerFacts DEF Claim, chainVars, Untouched, Worker, ChainInv
<1>2. TypeOK'
  <2>1. /\ lease' \in [Projects -> Workers \union {None}]
        /\ pc' \in [Workers -> Control]
        /\ job' \in [Workers -> Jobs \union {None}]
    BY <1>1 DEF TypeOK, Control
  <2>2. QED BY <1>1, <2>1 DEF TypeOK, Untouched
<1>3. pc'[w] = "claimed" /\ job'[w] = j /\ seen'[w] = None /\ lease'[ProjectOf[j]] = w
  BY <1>1 DEF TypeOK
<1>4. Good(w)'
  <2>1. state'[j] \in Pending
    BY <1>1 DEF Claim, Claimable, Untouched
  <2>2. \A i \in Before(j) : state[i] \in {"absent", "finalized", "failed"}
    <3> SUFFICES ASSUME NEW i \in Before(j) PROVE state[i] \in {"absent", "finalized", "failed"}
      OBVIOUS
    <3>1. i \in Jobs /\ i \in Siblings(j) /\ i < j /\ ProjectOf[i] = ProjectOf[j]
      BY DEF Before, Siblings
    <3>2. state[i] \notin Pending /\ state[i] # "quarantined"
      BY <3>1 DEF Claim, Claimable, Quarantined
    <3>3. state[i] \in {"absent"} \union Pending \union Ended
      BY <1>1, <3>1 DEF TypeOK
    <3>4. QED BY <3>2, <3>3 DEF Ended
  <2>3. Worker(w)' /\ Held(w)' /\ Sighted(w)'
    BY <1>3, <2>1 DEF Worker, Held, Sighted
  <2>4. Serial(w)'
    BY <1>1, <1>3, <2>2 DEF Serial, Before, Siblings, Untouched
  <2>5. QED BY <2>3, <2>4 DEF Good
<1>5. \A u \in Workers \ {w} :
        /\ pc'[u] = pc[u] /\ job'[u] = job[u] /\ seen'[u] = seen[u]
        /\ outcome'[u] = outcome[u]
        /\ pc[u] # "idle" /\ Fenced(u)' => Fenced(u)
  <2> SUFFICES ASSUME NEW u \in Workers \ {w}
               PROVE  /\ pc'[u] = pc[u] /\ job'[u] = job[u] /\ seen'[u] = seen[u]
                      /\ outcome'[u] = outcome[u]
                      /\ pc[u] # "idle" /\ Fenced(u)' => Fenced(u)
    OBVIOUS
  <2>1. pc'[u] = pc[u] /\ job'[u] = job[u] /\ seen'[u] = seen[u] /\ outcome'[u] = outcome[u]
    BY <1>1 DEF TypeOK
  <2>2. pc[u] # "idle" => ProjectOf[job[u]] \in Projects
    BY WorkerFacts
  <2>3. \A p \in Projects : lease'[p] = u => lease[p] = u
    BY <1>1 DEF TypeOK
  <2>4. QED BY <2>1, <2>2, <2>3 DEF Fenced
<1>6. QED BY <1>1, <1>2, <1>4, <1>5, WorkerStep

\* A worker that forgets its tick, its lease given up or left to run out.
LEMMA ForgetKeeps ==
  ASSUME IInv, NEW w \in Workers, Release(w) \/ Crash(w)
  PROVE  IInv'
<1>1. /\ pc[w] # "idle" /\ TypeOK /\ ProjectOf[job[w]] \in Projects
      /\ Untouched /\ mempool' = mempool /\ capacity' = capacity
      /\ faults' \in 0..MaxFaults
      /\ \A k \in mempool : nonce[k] # None
      /\ Forget(w)
  BY WorkerFacts DEF Release, Crash, Fault, dbVars, chainVars, Untouched, ChainInv
<1>2. /\ lease' \in [Projects -> Workers \union {None}]
      /\ \A p \in Projects : lease'[p] \in {lease[p], None}
  BY <1>1 DEF Release, Crash, dbVars, TypeOK
<1>3. /\ pc' \in [Workers -> Control]
      /\ job' \in [Workers -> Jobs \union {None}]
      /\ seen' \in [Workers -> Receipts \union {None}]
      /\ outcome' \in [Workers -> Pending \union Ended \union {None}]
      /\ pc'[w] = "idle" /\ seen'[w] = None
  BY <1>1 DEF Forget, TypeOK, Control
<1>4. TypeOK'
  BY <1>1, <1>2, <1>3 DEF TypeOK, Untouched
<1>5. Good(w)'
  BY <1>3 DEF Good, Worker, Held, Sighted, Serial, Active
<1>6. \A u \in Workers \ {w} :
        /\ pc'[u] = pc[u] /\ job'[u] = job[u] /\ seen'[u] = seen[u]
        /\ outcome'[u] = outcome[u]
        /\ pc[u] # "idle" /\ Fenced(u)' => Fenced(u)
  <2> SUFFICES ASSUME NEW u \in Workers \ {w}
               PROVE  /\ pc'[u] = pc[u] /\ job'[u] = job[u] /\ seen'[u] = seen[u]
                      /\ outcome'[u] = outcome[u]
                      /\ pc[u] # "idle" /\ Fenced(u)' => Fenced(u)
    OBVIOUS
  <2>1. pc'[u] = pc[u] /\ job'[u] = job[u] /\ seen'[u] = seen[u] /\ outcome'[u] = outcome[u]
    BY <1>1 DEF TypeOK, Forget
  <2>2. pc[u] # "idle" => ProjectOf[job[u]] \in Projects
    BY WorkerFacts
  <2>3. QED BY <1>2, <2>1, <2>2 DEF Fenced
<1>7. QED BY <1>1, <1>4, <1>5, <1>6, WorkerStep

(*********************************** Writes ***********************************)
\* A fenced write of the job's state, the worker going on to p with outcome o.
LEMMA RecordKeeps ==
  ASSUME IInv, NEW w \in Workers, pc[w] = "writing", Fenced(w), Record(w),
         UNCHANGED <<nonce, lease, capacity, job, mempool, mined, final, branch, deepened>>,
         faults' \in 0..MaxFaults,
         NEW p \in {"writing", "withdraw", "release"}, pc' = [pc EXCEPT ![w] = p],
         NEW s \in {seen[w], None}, seen' = [seen EXCEPT ![w] = s] \/ (seen' = seen /\ s = seen[w]),
         NEW o \in {outcome[w], "broadcast_unknown", None},
         outcome' = [outcome EXCEPT ![w] = o] \/ (outcome' = outcome /\ o = outcome[w]),
         p = "release" => s = None,
         p = "withdraw" => s = seen[w] /\ o = outcome[w] /\ o \in {"finalized", "quarantined"},
         p = "writing" => s = seen[w] /\ o = "broadcast_unknown" /\ Reconciling(w)
  PROVE  IInv'
<1>1. PICK j : j = job[w]
  OBVIOUS
<1>2. /\ j \in Jobs /\ TypeOK /\ Worker(w) /\ Held(w) /\ (~deepened => Sighted(w))
      /\ outcome[w] \in Pending \union Ended /\ seen[w] \in Receipts \union {None}
  BY <1>1, WorkerFacts DEF Worker
<1>3. PICK r : r = IF seen[w] # None /\ outcome[w] \in {"confirmed", "failed", "finalized"}
                   THEN seen[w].branch ELSE receipt[j]
  OBVIOUS
<1>4. /\ state' = [state EXCEPT ![j] = outcome[w]]
      /\ receipt' = [receipt EXCEPT ![j] = r] \/ (receipt' = receipt /\ r = receipt[j])
      /\ r \in Branches \union {None}
  BY <1>1, <1>2, <1>3 DEF Record, TypeOK, Receipts
<1>5. TypeOK'
  <2>1. /\ state' \in [Jobs -> {"absent"} \union Pending \union Ended]
        /\ receipt' \in [Jobs -> Branches \union {None}]
    BY <1>2, <1>4 DEF TypeOK
  <2>2. pc' \in [Workers -> Control]
    BY <1>2 DEF TypeOK, Control
  <2>3. seen' \in [Workers -> Receipts \union {None}]
    BY <1>2 DEF TypeOK
  <2>4. outcome' \in [Workers -> Pending \union Ended \union {None}]
    BY <1>2 DEF TypeOK, Pending
  <2>5. QED BY <1>2, <2>1, <2>2, <2>3, <2>4 DEF TypeOK
<1>6. /\ \A i \in Jobs : state'[i] = IF i = j THEN outcome[w] ELSE state[i]
      /\ \A i \in Jobs : receipt'[i] = IF i = j THEN r ELSE receipt[i]
      /\ \A i \in Jobs : (Included(i)' <=> Included(i)) /\ Inclusion(i)' = Inclusion(i)
      /\ \A i \in Jobs : Before(i)' = Before(i) /\ Before(i) \subseteq Jobs
  BY <1>2, <1>4 DEF TypeOK, Included, Inclusion, Before, Siblings
<1>7. nonce[j] # None \/ state[j] \in Pending
  BY <1>1, <1>2 DEF Held, Worker
<1>8. /\ pc'[w] = p /\ seen'[w] = s /\ outcome'[w] = o /\ job'[w] = j
      /\ Fenced(w)' <=> Fenced(w)
      /\ \A u \in Workers \ {w} :
           /\ pc'[u] = pc[u] /\ job'[u] = job[u] /\ seen'[u] = seen[u]
           /\ outcome'[u] = outcome[u]
           /\ Fenced(u)' <=> Fenced(u)
  BY <1>1, <1>2 DEF TypeOK, Fenced
<1>9. Good(w)'
  <2>1. Worker(w)'
    BY <1>1, <1>2, <1>8 DEF Worker, Reconciling, Pending
  <2>2. Held(w)'
    <3>1. p = "withdraw" => state'[j] # "quarantined" \/ o # "finalized"
      BY <1>2, <1>6
    <3>2. p = "writing" => state'[j] \in Pending \/ (seen[w] # None /\ state'[j] # "quarantined")
      BY <1>2, <1>6 DEF Reconciling, Pending, Worker
    <3>3. QED BY <1>8, <3>1, <3>2 DEF Held, Active
  <2>3. Sighted(w) => Sighted(w)'
    BY <1>1, <1>2, <1>6, <1>8 DEF Sighted
  <2>4. Serial(w)'
    BY <1>8 DEF Serial, Active
  <2>5. QED BY <1>2, <2>1, <2>2, <2>3, <2>4 DEF Good
<1>10. ASSUME NEW u \in Workers \ {w} PROVE Good(u)'
  <2>1. Good(u) /\ (pc[u] # "idle" => job[u] \in Jobs)
    BY WorkerFacts
  <2>2. Fenced(u) => job[u] # j /\ ProjectOf[job[u]] # ProjectOf[j]
    BY <1>1, OneHolder
  <2>3. Worker(u)'
    BY <1>8, <2>1 DEF Good, Worker
  <2>4. Held(u)'
    BY <1>6, <1>8, <2>1, <2>2 DEF Good, Held, Active
  <2>5. Sighted(u) => Sighted(u)'
    <3>1. \A k, x, y : Firm(k, x, y)' <=> Firm(k, x, y)
      BY DEF Firm, Included, Inclusion
    <3>2. (Canonical(u)' <=> Canonical(u)) /\ (Included(job[u])' <=> Included(job[u]))
          /\ Inclusion(job[u])' = Inclusion(job[u])
      BY <1>8 DEF Canonical, Included, Inclusion
    <3>3. QED BY <1>8, <3>1, <3>2 DEF Sighted
  <2>6. Serial(u) => Serial(u)'
    <3>1. Fenced(u) => j \notin Before(job[u])
      BY <2>2 DEF Before, Siblings
    <3>2. pc[u] \in Active => Before(job[u])' = Before(job[u]) /\ Before(job[u]) \subseteq Jobs
      BY DEF Before, Siblings
    <3>3. Before(job[u])' = Before(job'[u])
      BY <1>8 DEF Before, Siblings
    <3>4. QED BY <1>6, <1>8, <3>1, <3>2 DEF Serial
  <2>7. QED BY <2>1, <2>3, <2>4, <2>5, <2>6 DEF Good
<1>11. ASSUME NEW i \in Jobs PROVE Sound(i)'
  <2>1. \A k \in Jobs : Planned(k) /\ (~deepened => Settled(k))
    BY DEF IInv, Sound
  <2>2. state[j] # "absent" /\ outcome[w] # "absent"
    BY <1>2, <1>7, <2>1 DEF Planned, Pending, Ended
  <2>3. Planned(i)'
    <3>1. r # None => nonce[j] # None
      BY <1>1, <1>2, <1>3, <2>1 DEF Worker, Planned
    <3>2. QED BY <1>6, <2>1, <2>2, <3>1 DEF Planned
  <2>4. ASSUME ~deepened PROVE Settled(i)'
    <3>1. outcome[w] = "finalized" => r # None /\ Firm(j, Inclusion(j), "success")
                                      /\ Inclusion(j).branch = r
      BY <1>1, <1>2, <1>3, <2>4, Basics DEF Sighted, Worker, Firm
    <3>2. outcome[w] = "failed" /\ nonce[j] # None =>
            Firm(j, Inclusion(j), "reverted") /\ Inclusion(j).branch = r
      BY <1>1, <1>2, <1>3, <2>4 DEF Sighted, Worker, Firm
    <3>3. \A k \in Jobs : \A x : Firm(k, Inclusion(k), x)' <=> Firm(k, Inclusion(k), x)
      BY DEF Firm, Included, Inclusion
    <3>4. /\ state'[i] = "finalized" =>
               receipt'[i] # None /\ Firm(i, Inclusion(i), "success")
               /\ Inclusion(i).branch = receipt'[i]
          /\ state'[i] = "failed" /\ nonce[i] # None =>
               /\ Firm(i, Inclusion(i), "reverted")
               /\ receipt'[i] # None => Inclusion(i).branch = receipt'[i]
      BY <1>6, <2>1, <2>4, <3>1, <3>2 DEF Settled
    <3>5. nonce[i] # None => \A k \in Before(i) :
            IF nonce[k] = None THEN state'[k] \in {"failed", "quarantined"}
                               ELSE Included(k) /\ nonce[k] < final
      BY <1>6, <1>7, <2>1, <2>4 DEF Settled, Pending
    <3>6. QED BY <1>6, <3>3, <3>4, <3>5 DEF Settled
  <2>5. QED BY <2>3, <2>4 DEF Sound
<1>12. NoncesSerial'
  BY DEF IInv, NoncesSerial, Allocated
<1>13. ChainInv'
  BY DEF IInv, ChainInv
<1>14. ~deepened' => branch' <= MaxReorgs
  BY DEF IInv
<1>15. QED BY <1>5, <1>9, <1>10, <1>11, <1>12, <1>13, <1>14 DEF IInv

LEMMA WriteKeeps ==
  ASSUME IInv, NEW w \in Workers, Write(w) \/ WriteFails(w)
  PROVE  IInv'
<1>1. /\ pc[w] = "writing" /\ TypeOK /\ Worker(w)
      /\ seen[w] \in Receipts \union {None}
      /\ UNCHANGED <<nonce, lease, capacity, job, mempool, mined, final, branch, deepened>>
      /\ faults' \in 0..MaxFaults
  BY WorkerFacts DEF Write, WriteFails, chainVars, Fault
<1>2. ASSUME UNCHANGED <<state, receipt>>, Leave(w) PROVE IInv'
  <2>1. Goes(w, "release", None, None)
    BY <1>1, <1>2, WorkerFacts DEF Leave, Go, Control, Goes, ChainInv, Untouched
  <2>2. QED BY <1>1, <2>1, Leaves
<1>3. PICK o : o = Retry(w)
  OBVIOUS
<1>4. Reconciling(w) => /\ o = "broadcast_unknown" /\ o \in Pending \union Ended
                        /\ outcome[w] # "broadcast_unknown"
  BY <1>1, <1>3, RetryIsPending DEF Reconciling, Worker
<1>5. ASSUME UNCHANGED <<state, receipt>>, Reconciling(w), Decide(w, Retry(w)),
             UNCHANGED seen
      PROVE  IInv'
  <2>1. Goes(w, "writing", seen[w], o)
    BY <1>1, <1>3, <1>4, <1>5, WorkerFacts
       DEF Decide, Go, Control, Goes, ChainInv, Untouched
  <2>2. QED BY <1>1, <1>4, <1>5, <2>1, WritesOver
<1>6. ASSUME Fenced(w), Record(w), Leave(w) PROVE IInv'
  <2>1. PICK p, s, n : p = "release" /\ s = None /\ n = None
    OBVIOUS
  <2>2. /\ pc' = [pc EXCEPT ![w] = p] /\ seen' = [seen EXCEPT ![w] = s]
        /\ outcome' = [outcome EXCEPT ![w] = n]
    BY <1>6, <2>1 DEF Leave, Go
  <2>3. p \in {"writing", "withdraw", "release"} /\ s \in {seen[w], None}
        /\ n \in {outcome[w], "broadcast_unknown", None}
    BY <2>1
  <2>4. p # "withdraw" /\ p # "writing"
    BY <2>1
  <2>5. QED BY <1>1, <1>6, <2>1, <2>2, <2>3, <2>4, RecordKeeps
<1>7. ASSUME Fenced(w), Record(w), Reconciling(w), Decide(w, Retry(w)), UNCHANGED seen
      PROVE  IInv'
  <2>1. PICK p, s : p = "writing" /\ s = seen[w]
    OBVIOUS
  <2>2. /\ pc' = [pc EXCEPT ![w] = p] /\ outcome' = [outcome EXCEPT ![w] = o]
        /\ seen' = seen
    BY <1>3, <1>7, <2>1 DEF Decide, Go
  <2>3. p \in {"writing", "withdraw", "release"} /\ s \in {seen[w], None}
        /\ o \in {outcome[w], "broadcast_unknown", None}
    BY <1>4, <1>7, <2>1
  <2>4. p # "withdraw" /\ p # "release"
    BY <2>1
  <2>5. QED BY <1>1, <1>4, <1>7, <2>1, <2>2, <2>3, <2>4, RecordKeeps
<1>8. ASSUME Fenced(w), Record(w), outcome[w] \in {"finalized", "quarantined"},
             Go(w, "withdraw"), UNCHANGED <<seen, outcome>>
      PROVE  IInv'
  <2>1. PICK p, s, n : p = "withdraw" /\ s = seen[w] /\ n = outcome[w]
    OBVIOUS
  <2>2. pc' = [pc EXCEPT ![w] = p] /\ seen' = seen /\ outcome' = outcome
    BY <1>8, <2>1 DEF Go
  <2>3. p \in {"writing", "withdraw", "release"} /\ s \in {seen[w], None}
        /\ n \in {outcome[w], "broadcast_unknown", None}
    BY <2>1
  <2>4. p # "writing" /\ p # "release"
    BY <2>1
  <2>5. QED BY <1>1, <1>8, <2>1, <2>2, <2>3, <2>4, RecordKeeps
<1>9. CASE Write(w)
  BY <1>2, <1>6, <1>8, <1>9 DEF Write
<1>10. CASE WriteFails(w)
  BY <1>2, <1>5, <1>6, <1>7, <1>10 DEF WriteFails
<1>11. QED BY <1>9, <1>10

(*********************************** Intents **********************************)
\* The nonces given out are 0..c-1, c of them, and the chain has used none other.
LEMMA Allocations ==
  ASSUME IInv
  PROVE  /\ Cardinality(Allocated) \in Nat /\ IsFiniteSet(Allocated)
         /\ Allocated = 0..(Cardinality(Allocated) - 1)
         /\ Len(mined) <= Cardinality(Allocated)
<1>1. TypeOK /\ ChainInv /\ Allocated = 0..(Cardinality(Allocated) - 1)
  BY DEF IInv, NoncesSerial
<1>2. IsFiniteSet(Allocated)
  <2>1. IsFiniteSet({nonce[j] : j \in Jobs})
    <3> DEFINE R == {nonce[j] : j \in Jobs}
    <3>1. nonce \in [Jobs -> R]
      BY <1>1 DEF TypeOK
    <3>2. \A r \in R : \E j \in Jobs : nonce[j] = r
      OBVIOUS
    <3>3. nonce \in Surjection(Jobs, R)
      BY <3>1, <3>2, Zenon DEF Surjection
    <3>4. QED BY <3>3, FS_Surjection
  <2>2. QED BY <2>1, FS_Subset DEF Allocated
<1>3. Cardinality(Allocated) \in Nat
  BY <1>2, FS_CardinalityType
<1>4. Len(mined) <= Cardinality(Allocated)
  <2>1. CASE Len(mined) = 0
    BY <1>3, <2>1
  <2>2. CASE Len(mined) # 0
    <3>1. Len(mined) \in Nat /\ Len(mined) \in 1..Len(mined)
      BY <1>1, <2>2, Basics
    <3>2. mined[Len(mined)].job \in Jobs /\ nonce[mined[Len(mined)].job] = Len(mined) - 1
      BY <1>1, <3>1, Basics DEF ChainInv, Block
    <3>3. Len(mined) - 1 # None
      BY <3>1
    <3>4. Len(mined) - 1 \in Allocated
      BY <3>2, <3>3 DEF Allocated
    <3>5. QED BY <1>1, <1>3, <3>1, <3>4
  <2>3. QED BY <2>1, <2>2
<1>5. QED BY <1>1, <1>2, <1>3, <1>4

\* The nonce nextNonce takes is the first that is free.
LEMMA NextIsFirstFree ==
  ASSUME IInv, NEW n \in Nat, NEW pending \in {Len(mined), Cardinality(Allocated)},
         NextNonce(n, pending)
  PROVE  n = Cardinality(Allocated)
<1>1. PICK c \in Nat : c = Cardinality(Allocated)
  BY Allocations
<1>2. Allocated = 0..(c - 1) /\ Len(mined) <= c /\ Len(mined) \in Nat
  BY <1>1, Allocations, Basics DEF IInv
<1>3. pending \in Nat /\ pending <= c
  BY <1>1, <1>2
<1>4. n <= c
  BY <1>2, <1>3 DEF NextNonce
<1>5. n >= c
  <2>1. CASE c = 0
    BY <2>1
  <2>2. CASE c # 0
    <3>1. c - 1 \in Allocated
      BY <1>2, <2>2
    <3>2. QED BY <3>1 DEF NextNonce
  <2>3. QED BY <2>1, <2>2
<1>6. QED BY <1>1, <1>4, <1>5

\* Signing job j with the first free nonce keeps the nonces serial.
LEMMA SerialNonces ==
  ASSUME IInv, NEW j \in Jobs, nonce[j] = None,
         nonce' = [nonce EXCEPT ![j] = Cardinality(Allocated)]
  PROVE  /\ NoncesSerial'
         /\ nonce' \in [Jobs -> (0..(Cardinality(Jobs) - 1)) \union {None}]
<1>1. PICK c \in Nat : c = Cardinality(Allocated)
  BY Allocations
<1>2. TypeOK /\ Allocated = 0..(c - 1) /\ c # None /\ Cardinality(Jobs) \in Nat
  BY <1>1, Allocations, Basics DEF IInv
<1>3. \A k \in Jobs : nonce'[k] = IF k = j THEN c ELSE nonce[k]
  BY <1>1, <1>2 DEF TypeOK
<1>4. \A k \in Jobs : nonce[k] # None => nonce[k] \in Allocated
  BY DEF Allocated
<1>5. Allocated' = Allocated \union {c}
  BY <1>2, <1>3 DEF Allocated
<1>6. Allocated' = 0..c
  BY <1>2, <1>5
<1>7. Cardinality(Allocated') = c + 1
  BY <1>6, FS_Interval
<1>8. \A k, l \in Jobs : k # l /\ nonce'[k] # None => nonce'[k] # nonce'[l]
  BY <1>2, <1>3, <1>4 DEF IInv, NoncesSerial
<1>9. NoncesSerial'
  BY <1>6, <1>7, <1>8 DEF NoncesSerial
<1>10. c <= Cardinality(Jobs) - 1
  <2> DEFINE R == {nonce'[k] : k \in Jobs}
  <2>1. nonce' \in Surjection(Jobs, R)
    BY <1>2 DEF TypeOK, Surjection
  <2>2. IsFiniteSet(R) /\ Cardinality(R) <= Cardinality(Jobs)
    BY <2>1, FS_Surjection
  <2>3. Allocated' \in SUBSET R
    BY DEF Allocated
  <2>4. Cardinality(Allocated') <= Cardinality(R) /\ Cardinality(R) \in Nat
    BY <2>2, <2>3, FS_Subset, FS_CardinalityType
  <2>5. QED BY <1>2, <1>7, <2>2, <2>4
<1>11. nonce' \in [Jobs -> (0..(Cardinality(Jobs) - 1)) \union {None}]
  BY <1>1, <1>2, <1>10 DEF TypeOK
<1>12. QED BY <1>9, <1>11

\* An intent is stored: the jobs before the signed one have ended, and none after it
\* was signed before.
LEMMA SignKeeps ==
  ASSUME IInv, NEW w \in Workers, pc[w] = "sign", Fenced(w), nonce[job[w]] = None,
         pc' = [pc EXCEPT ![w] = "receipt"],
         state' = [state EXCEPT ![job[w]] = "prepared"],
         nonce' = [nonce EXCEPT ![job[w]] = Cardinality(Allocated)],
         UNCHANGED <<receipt, lease, capacity, job, seen, outcome, chainVars, faults>>
  PROVE  IInv'
<1>1. PICK j, n : j = job[w] /\ n = Cardinality(Allocated)
  OBVIOUS
<1>2. /\ j \in Jobs /\ TypeOK /\ seen[w] = None /\ Worker(w) /\ Held(w)
      /\ (~deepened => Serial(w)) /\ n \in Nat /\ n # None /\ nonce[j] = None
  BY <1>1, WorkerFacts, NothingSeen, Allocations
<1>3. /\ \A i \in Jobs : nonce'[i] = IF i = j THEN n ELSE nonce[i]
      /\ \A i \in Jobs : state'[i] = IF i = j THEN "prepared" ELSE state[i]
      /\ receipt' = receipt /\ mined' = mined /\ final' = final /\ branch' = branch
      /\ deepened' = deepened /\ mempool' = mempool /\ job' = job /\ seen' = seen
      /\ outcome' = outcome
  BY <1>1, <1>2 DEF TypeOK, chainVars
<1>4. /\ pc'[w] = "receipt"
      /\ \A u \in Workers \ {w} : pc'[u] = pc[u]
      /\ \A u \in Workers : Fenced(u)' <=> Fenced(u)
  BY <1>2 DEF TypeOK, Fenced
<1>5. NoncesSerial' /\ nonce' \in [Jobs -> (0..(Cardinality(Jobs) - 1)) \union {None}]
  BY <1>1, <1>2, SerialNonces
<1>6. TypeOK'
  <2>1. state' \in [Jobs -> {"absent"} \union Pending \union Ended]
    BY <1>1, <1>2 DEF TypeOK, Pending
  <2>2. pc' \in [Workers -> Control]
    BY <1>2 DEF TypeOK, Control
  <2>3. QED BY <1>2, <1>3, <1>5, <2>1, <2>2 DEF TypeOK, chainVars
<1>7. \A i \in Jobs : nonce[i] # None => i # j /\ nonce'[i] = nonce[i] /\ nonce'[i] # None
  BY <1>2, <1>3
<1>8. /\ \A i \in Jobs : nonce[i] # None => /\ Included(i)' <=> Included(i)
                                            /\ Inclusion(i)' = Inclusion(i)
      /\ \A i \in Jobs : Before(i)' = Before(i) /\ Before(i) \subseteq Jobs
  BY <1>3, <1>7 DEF Included, Inclusion, Before, Siblings
<1>9. ChainInv'
  <2>1. \A i \in 1..Len(mined) : mined[i].job \in Jobs /\ i - 1 # None
    BY <1>2, Basics DEF Block
  <2>2. \A i \in 1..Len(mined) : nonce'[mined[i].job] = i - 1
    BY <1>3, <1>7, <2>1 DEF IInv, ChainInv
  <2>3. \A k \in mempool : nonce'[k] # None
    BY <1>2, <1>7 DEF IInv, ChainInv, TypeOK
  <2>4. QED BY <1>3, <2>2, <2>3 DEF IInv, ChainInv
<1>10. state[j] \in Pending
  BY <1>1, <1>2 DEF Held, Active
<1>11. Good(w)'
  <2>1. Worker(w)'
    BY <1>1, <1>2, <1>3, <1>4 DEF Worker
  <2>2. Held(w)'
    BY <1>1, <1>2, <1>3, <1>4 DEF Held, Pending
  <2>3. Sighted(w)'
    BY <1>2, <1>3, <1>4 DEF Sighted
  <2>4. Serial(w) => Serial(w)'
    <3>1. j \notin Before(j)
      BY DEF Before, Siblings
    <3>2. Serial(w) => \A i \in Before(j) : state'[i] \in {"absent", "finalized", "failed"}
      BY <1>1, <1>2, <1>3, <1>8, <3>1 DEF Serial, Active
    <3>3. job'[w] = j
      BY <1>1, <1>3
    <3>4. QED BY <1>2, <1>8, <3>2, <3>3 DEF Serial
  <2>5. QED BY <1>2, <1>3, <2>1, <2>2, <2>3, <2>4 DEF Good
<1>12. ASSUME NEW u \in Workers \ {w} PROVE Good(u)'
  <2>1. Good(u) /\ (pc[u] # "idle" => job[u] \in Jobs)
    BY WorkerFacts
  <2>2. Fenced(u) => job[u] # j /\ ProjectOf[job[u]] # ProjectOf[j]
    BY <1>1, OneHolder
  <2>3. Worker(u)'
    <3>1. pc[u] # "idle" /\ nonce[job[u]] # None => nonce'[job[u]] # None
      BY <1>7, <2>1
    <3>2. QED BY <1>3, <1>4, <2>1, <3>1 DEF Good, Worker
  <2>4. Held(u)'
    BY <1>3, <1>4, <2>1, <2>2 DEF Good, Held, Active
  <2>5. Sighted(u) => Sighted(u)'
    <3> SUFFICES ASSUME Sighted(u) PROVE Sighted(u)'
      OBVIOUS
    <3>1. seen[u] # None => /\ job[u] \in Jobs /\ nonce[job[u]] # None
                            /\ (Included(job[u])' <=> Included(job[u]))
                            /\ Inclusion(job[u])' = Inclusion(job[u])
                            /\ nonce'[job[u]] = nonce[job[u]]
      BY <1>3, <1>7, <1>8, <2>1 DEF Good, Worker
    <3>2. pc[u] = "final" => seen[u] # None
      BY <2>1 DEF Good, Worker
    <3>3. pc[u] = "writing" /\ Fenced(u) => nonce'[job[u]] = nonce[job[u]]
      BY <1>3, <2>1, <2>2
    <3>4. pc[u] = "writing" /\ outcome[u] = "finalized" => seen[u] # None
      BY <2>1 DEF Good, Worker
    <3>5. seen[u] # None /\ pc'[u] = "final" /\ Fenced(u)' /\ nonce'[job[u]] < final'
            => Canonical(u)'
      BY <1>3, <1>4, <3>1 DEF Sighted, Canonical
    <3>6. pc'[u] = "writing" /\ Fenced(u)' =>
            /\ outcome[u] = "finalized" => Firm(job[u], seen[u], "success")'
            /\ outcome[u] = "failed" =>
                 IF seen[u] = None THEN nonce'[job[u]] = None
                                   ELSE Firm(job[u], seen[u], "reverted")'
      BY <1>3, <1>4, <3>1, <3>3, <3>4 DEF Sighted, Firm
    <3>7. QED BY <1>3, <1>4, <3>1, <3>2, <3>5, <3>6 DEF Sighted
  <2>6. Serial(u) => Serial(u)'
    <3>1. Fenced(u) => j \notin Before(job[u])
      BY <2>2 DEF Before, Siblings
    <3>2. pc[u] \in Active => job[u] \in Jobs
      BY <2>1 DEF Active
    <3>3. job'[u] = job[u]
      BY <1>3
    <3>4. QED BY <1>3, <1>4, <1>8, <3>1, <3>2, <3>3 DEF Serial
  <2>7. QED BY <1>3, <2>1, <2>3, <2>4, <2>5, <2>6 DEF Good
<1>13. ASSUME NEW i \in Jobs PROVE Sound(i)'
  <2>1. \A k \in Jobs : Planned(k) /\ (~deepened => Settled(k))
    BY DEF IInv, Sound
  <2>2. state[j] # "absent"
    BY <1>10 DEF Pending
  <2>3. Planned(i)'
    BY <1>3, <1>7, <1>8, <2>1, <2>2 DEF Planned
  <2>4. ASSUME ~deepened PROVE Settled(i)'
    <3>1. \A k \in Before(j) : IF nonce[k] = None THEN state[k] = "failed"
                                                  ELSE Included(k) /\ nonce[k] < final
      <4> SUFFICES ASSUME NEW k \in Before(j)
                   PROVE  IF nonce[k] = None THEN state[k] = "failed"
                                             ELSE Included(k) /\ nonce[k] < final
        OBVIOUS
      <4>1. k \in Jobs /\ state[k] # "absent"
        BY <1>2, <1>8, <2>1, <2>2 DEF Planned
      <4>2. state[k] \in {"finalized", "failed"}
        BY <1>1, <1>2, <2>4, <4>1 DEF Serial, Active
      <4>3. Settled(k)
        BY <2>1, <2>4, <4>1
      <4>4. QED BY <4>2, <4>3 DEF Settled, Firm, Included
    <3>2. CASE i = j
      <4>1. nonce'[j] # None /\ \A k \in Before(j) : k # j /\ k \in Jobs
        BY <1>2, <1>3, <1>8 DEF Before, Siblings
      <4>2. \A k \in Before(j) : IF nonce'[k] = None THEN state'[k] \in {"failed", "quarantined"}
                                 ELSE Included(k)' /\ nonce'[k] < final'
        <5> SUFFICES ASSUME NEW k \in Before(j)
                     PROVE  IF nonce'[k] = None THEN state'[k] \in {"failed", "quarantined"}
                                                ELSE Included(k)' /\ nonce'[k] < final'
          OBVIOUS
        <5>1. nonce'[k] = nonce[k] /\ state'[k] = state[k]
              /\ (nonce[k] # None => (Included(k)' <=> Included(k)))
          BY <1>3, <1>8, <4>1
        <5>2. QED BY <1>3, <3>1, <5>1
      <4>3. state'[j] = "prepared"
        BY <1>2, <1>3
      <4>4. QED BY <1>8, <3>2, <4>2, <4>3 DEF Settled
    <3>3. CASE i # j
      <4>1. nonce[i] # None => j \notin Before(i)
        BY <1>2, <1>10, <2>1, <2>4 DEF Settled, Pending
      <4>2. /\ nonce'[i] = nonce[i] /\ state'[i] = state[i]
            /\ nonce[i] # None =>
                 \A x : Firm(i, Inclusion(i), x)' <=> Firm(i, Inclusion(i), x)
        BY <1>3, <1>8, <3>3 DEF Firm
      <4>3. nonce[i] # None =>
              \A k \in Before(i) : IF nonce'[k] = None
                                     THEN state'[k] \in {"failed", "quarantined"}
                                     ELSE Included(k)' /\ nonce'[k] < final'
        <5> SUFFICES ASSUME nonce[i] # None, NEW k \in Before(i)
                     PROVE  IF nonce'[k] = None THEN state'[k] \in {"failed", "quarantined"}
                                                ELSE Included(k)' /\ nonce'[k] < final'
          OBVIOUS
        <5>1. k # j /\ k \in Jobs
          BY <1>8, <4>1
        <5>2. nonce'[k] = nonce[k] /\ state'[k] = state[k]
              /\ (nonce[k] # None => (Included(k)' <=> Included(k)))
          BY <1>3, <1>8, <5>1
        <5>3. IF nonce[k] = None THEN state[k] \in {"failed", "quarantined"}
                                 ELSE Included(k) /\ nonce[k] < final
          BY <2>1, <2>4 DEF Settled
        <5>4. QED BY <1>3, <5>2, <5>3
      <4>4. state[i] = "finalized" => nonce[i] # None
        BY <2>1, <2>4 DEF Settled, Firm, Included
      <4>5. QED BY <1>3, <1>8, <2>1, <2>4, <4>2, <4>3, <4>4 DEF Settled
    <3>4. QED BY <3>2, <3>3
  <2>5. QED BY <1>3, <2>3, <2>4 DEF Sound
<1>14. ~deepened' => branch' <= MaxReorgs
  BY <1>3 DEF IInv
<1>15. QED BY <1>5, <1>6, <1>9, <1>11, <1>12, <1>13, <1>14 DEF IInv

LEMMA SaveIntentKeeps == ASSUME IInv, NEW w \in Workers, SaveIntent(w) PROVE IInv'
<1>1. /\ seen[w] = None /\ pc[w] = "sign" /\ pc[w] \in Active
  BY NothingSeen DEF SaveIntent
<1>2. CASE ~Fenced(w)
  <2>1. Goes(w, "release", None, outcome[w])
    BY <1>1, <1>2, WorkerFacts
       DEF SaveIntent, Go, chainVars, Untouched, Control, Goes, ChainInv
  <2>2. QED BY <1>1, <2>1, Walks
<1>3. CASE Fenced(w) /\ nonce[job[w]] # None
  <2>1. Goes(w, "receipt", None, outcome[w])
    BY <1>1, <1>3, WorkerFacts
       DEF SaveIntent, Go, chainVars, Untouched, Control, Goes, ChainInv
  <2>2. QED BY <1>1, <1>3, <2>1, Walks
<1>4. CASE Fenced(w) /\ nonce[job[w]] = None
  <2>1. PICK n \in 0..Cardinality(Jobs), pending \in {Len(mined), Cardinality(Allocated)} :
          NextNonce(n, pending) /\ nonce' = [nonce EXCEPT ![job[w]] = n]
    BY <1>4 DEF SaveIntent
  <2>2. n \in Nat
    BY Basics DEF IInv
  <2>3. n = Cardinality(Allocated)
    BY <2>1, <2>2, NextIsFirstFree
  <2>4. QED BY <1>1, <1>4, <2>1, <2>3, SignKeeps DEF SaveIntent, Go
<1>5. QED BY <1>2, <1>3, <1>4

(***************************** Planning and auditing **************************)
\* Workers keep what they have of the chain when the state of one job changes.
LEMMA SightedStays ==
  ASSUME NEW u \in Workers, UNCHANGED <<nonce, lease, workerVars, chainVars>>
  PROVE  Sighted(u)' <=> Sighted(u)
<1>1. \A k, x, y : Firm(k, x, y)' <=> Firm(k, x, y)
  BY DEF Firm, Included, Inclusion, chainVars
<1>2. /\ Canonical(u)' <=> Canonical(u)
      /\ Included(job[u])' <=> Included(job[u])
      /\ Inclusion(job[u])' = Inclusion(job[u])
      /\ Fenced(u)' <=> Fenced(u)
  BY DEF Canonical, Included, Inclusion, Fenced, chainVars, workerVars
<1>3. QED BY <1>1, <1>2 DEF Sighted, workerVars, chainVars

LEMMA PlanKeeps == ASSUME IInv, NEW j \in Jobs, Plan(j) PROVE IInv'
<1>1. /\ TypeOK /\ state[j] = "absent" /\ nonce[j] = None
      /\ UNCHANGED <<receipt, nonce, lease, capacity, workerVars, chainVars, faults>>
      /\ \A k \in Jobs : Planned(k) /\ (~deepened => Settled(k))
  BY DEF IInv, Sound, Plan, Planned
<1>2. \A i \in Jobs : state'[i] = IF i = j THEN "queued" ELSE state[i]
  BY <1>1 DEF Plan, TypeOK
<1>3. TypeOK'
  <2>1. state' \in [Jobs -> {"absent"} \union Pending \union Ended]
    BY <1>1 DEF Plan, TypeOK, Pending
  <2>2. QED BY <1>1, <2>1 DEF TypeOK, workerVars, chainVars
<1>4. ASSUME NEW u \in Workers PROVE Good(u)'
  <2>1. Good(u) /\ (pc[u] # "idle" => job[u] \in Jobs) /\ (Fenced(u)' <=> Fenced(u))
    BY <1>1, WorkerFacts DEF Fenced, workerVars
  <2>2. Worker(u)'
    BY <1>1, <2>1 DEF Good, Worker, workerVars
  <2>3. pc[u] \in Active \union {"writing"} /\ Fenced(u) => job[u] # j
    BY <1>1, <2>1 DEF Good, Held, Worker, Pending
  <2>4. Held(u)'
    <3>1. pc[u] \in Active \union {"writing"} /\ Fenced(u) => state'[job[u]] = state[job[u]]
      BY <1>2, <2>1, <2>3 DEF Active
    <3>2. pc[u] = "withdraw" /\ state[job[u]] # "quarantined" => state'[job[u]] # "quarantined"
      BY <1>2, <2>1
    <3>3. UNCHANGED <<pc, outcome, seen, job, deepened>>
      BY <1>1 DEF workerVars, chainVars
    <3>4. pc[u] = "withdraw" /\ Fenced(u) /\ outcome[u] = "finalized" =>
            state[job[u]] # "quarantined" \/ deepened
      BY <2>1 DEF Good, Held
    <3>5. QED BY <2>1, <3>1, <3>2, <3>3, <3>4 DEF Good, Held
  <2>5. Sighted(u)' <=> Sighted(u)
    BY <1>1, SightedStays
  <2>6. Serial(u) => Serial(u)'
    <3> SUFFICES ASSUME Serial(u), pc[u] \in Active, Fenced(u), NEW i \in Before(job[u])
                 PROVE  state'[i] \in {"absent", "finalized", "failed"}
      BY <1>1, <2>1 DEF Serial, Before, Siblings, workerVars
    <3>1. job[u] \in Jobs /\ i \in Jobs /\ state[job[u]] \in Pending
      BY <2>1 DEF Active, Before, Siblings, Good, Held
    <3>2. i # j
      BY <3>1 DEF Plan, Before, Siblings
    <3>3. QED BY <1>2, <3>1, <3>2 DEF Serial
  <2>7. QED BY <1>1, <2>1, <2>2, <2>4, <2>5, <2>6 DEF Good, chainVars
<1>5. ASSUME NEW i \in Jobs PROVE Sound(i)'
  <2>1. \A k \in Jobs : Before(k)' = Before(k) /\ Before(k) \subseteq Jobs
    BY DEF Before, Siblings
  <2>2. \A k \in Before(j) : state[k] # "absent"
    BY DEF Plan, Before
  <2>3. Planned(i)'
    BY <1>1, <1>2, <2>1, <2>2 DEF Planned
  <2>4. ASSUME ~deepened PROVE Settled(i)'
    <3>1. /\ state'[i] = "finalized" => i # j
          /\ state'[i] = "failed" => i # j
      BY <1>2
    <3>2. nonce[i] # None => j \notin Before(i)
      BY <1>1, <2>4 DEF Settled
    <3>3. /\ \A k \in Jobs : \A x : Firm(k, Inclusion(k), x)' <=> Firm(k, Inclusion(k), x)
          /\ \A k \in Jobs : (Included(k)' <=> Included(k)) /\ Inclusion(k)' = Inclusion(k)
          /\ nonce' = nonce /\ receipt' = receipt /\ final' = final
      BY <1>1 DEF Firm, Included, Inclusion, chainVars
    <3>4. nonce[i] # None => \A k \in Before(i) : state'[k] = state[k] /\ k \in Jobs
      BY <1>2, <2>1, <3>2
    <3>5. nonce[i] # None => \A k \in Before(i) :
            IF nonce'[k] = None THEN state'[k] \in {"failed", "quarantined"}
                                ELSE Included(k)' /\ nonce'[k] < final'
      <4> SUFFICES ASSUME nonce[i] # None, NEW k \in Before(i)
                   PROVE  IF nonce'[k] = None THEN state'[k] \in {"failed", "quarantined"}
                                              ELSE Included(k)' /\ nonce'[k] < final'
        OBVIOUS
      <4>1. IF nonce[k] = None THEN state[k] \in {"failed", "quarantined"}
                               ELSE Included(k) /\ nonce[k] < final
        BY <1>1, <2>4 DEF Settled
      <4>2. state'[k] = state[k] /\ k \in Jobs
        BY <3>4
      <4>3. QED BY <3>3, <4>1, <4>2
    <3>6. QED BY <1>1, <1>2, <2>1, <2>4, <3>1, <3>3, <3>5 DEF Settled
  <2>5. QED BY <1>1, <2>3, <2>4 DEF Sound, chainVars
<1>6. NoncesSerial' /\ ChainInv' /\ (~deepened' => branch' <= MaxReorgs)
  <2>1. NoncesSerial'
    BY <1>1 DEF IInv, NoncesSerial, Allocated
  <2>2. ChainInv'
    BY <1>1 DEF IInv, ChainInv, chainVars
  <2>3. QED BY <1>1, <2>1, <2>2 DEF IInv, chainVars
<1>7. QED BY <1>3, <1>4, <1>5, <1>6 DEF IInv

\* While finality holds, the audit finds every recorded receipt where it was.
LEMMA AuditIsIdle ==
  ASSUME IInv, NEW j \in Jobs, Audit(j)
  PROVE  deepened
<1> SUFFICES ASSUME ~deepened PROVE FALSE
  OBVIOUS
<1>1. Settled(j) /\ Planned(j)
  BY DEF IInv, Sound
<1>2. QED BY <1>1 DEF Audit, Settled, Planned, Firm

LEMMA AuditKeeps == ASSUME IInv, NEW j \in Jobs, Audit(j) PROVE IInv'
<1>1. /\ TypeOK /\ state[j] \in {"finalized", "failed"} /\ deepened
      /\ UNCHANGED <<receipt, nonce, lease, workerVars, chainVars, faults>>
      /\ \A k \in Jobs : Planned(k)
  BY AuditIsIdle DEF IInv, Sound, Audit
<1>2. \A i \in Jobs : state'[i] = IF i = j THEN "quarantined" ELSE state[i]
  BY <1>1 DEF Audit, TypeOK
<1>3. TypeOK'
  <2>1. state' \in [Jobs -> {"absent"} \union Pending \union Ended]
    BY <1>1 DEF Audit, TypeOK, Ended
  <2>2. capacity' \subseteq Projects
    BY <1>1 DEF Audit, TypeOK
  <2>3. QED BY <1>1, <2>1, <2>2 DEF TypeOK, workerVars, chainVars
<1>4. deepened'
  BY <1>1 DEF chainVars
<1>5. ASSUME NEW u \in Workers PROVE Good(u)'
  <2>1. Good(u) /\ (pc[u] # "idle" => job[u] \in Jobs) /\ (Fenced(u)' <=> Fenced(u))
    BY <1>1, WorkerFacts DEF Fenced, workerVars
  <2>2. Worker(u)'
    BY <1>1, <2>1 DEF Good, Worker, workerVars
  <2>3. Held(u)'
    <3>1. pc[u] # "idle" /\ state[job[u]] \in Pending => state'[job[u]] = state[job[u]]
      BY <1>1, <1>2, <2>1 DEF Pending
    <3>2. UNCHANGED <<pc, outcome, seen, job>>
      BY <1>1 DEF workerVars
    <3>3. QED BY <1>4, <2>1, <3>1, <3>2 DEF Good, Held, Active
  <2>4. QED BY <1>4, <2>2, <2>3 DEF Good
<1>6. ASSUME NEW i \in Jobs PROVE Sound(i)'
  <2>1. Planned(i)'
    <3>1. \A k \in Jobs : state'[k] = "absent" <=> state[k] = "absent"
      BY <1>1, <1>2
    <3>2. \A k \in Before(i) : k \in Jobs
      BY DEF Before, Siblings
    <3>3. Before(i)' = Before(i)
      BY DEF Before, Siblings
    <3>4. QED BY <1>1, <3>1, <3>2, <3>3 DEF Planned
  <2>2. QED BY <1>4, <2>1 DEF Sound
<1>7. NoncesSerial'
  BY <1>1 DEF IInv, NoncesSerial, Allocated
<1>8. ChainInv'
  BY <1>1 DEF IInv, ChainInv, chainVars
<1>9. QED BY <1>3, <1>4, <1>5, <1>6, <1>7, <1>8 DEF IInv

(********************************** The chain *********************************)
\* A step of the chain that keeps what is final, while finality holds.
LEMMA ChainStep ==
  ASSUME IInv, UNCHANGED <<dbVars, workerVars>>, TypeOK', ChainInv',
         deepened => deepened',
         ~deepened' => /\ branch' <= MaxReorgs
                       /\ \A i \in Jobs : Included(i) /\ nonce[i] < final =>
                            Included(i)' /\ Inclusion(i)' = Inclusion(i) /\ nonce[i] < final'
                       /\ \A u \in Workers : Sighted(u)'
  PROVE  IInv'
<1>1. /\ UNCHANGED <<state, receipt, nonce, lease, pc, job, seen, outcome>>
      /\ \A u \in Workers : Good(u) /\ (Fenced(u)' <=> Fenced(u))
      /\ \A i \in Jobs : Planned(i) /\ (~deepened => Settled(i))
      /\ ~deepened' => ~deepened
  BY DEF IInv, Sound, dbVars, workerVars, Fenced
<1>2. ASSUME NEW u \in Workers PROVE Good(u)'
  <2>1. Worker(u)'
    BY <1>1 DEF Good, Worker
  <2>2. Held(u)'
    BY <1>1 DEF Good, Held
  <2>3. Serial(u) => Serial(u)'
    BY <1>1 DEF Serial, Before, Siblings
  <2>4. QED BY <1>1, <2>1, <2>2, <2>3 DEF Good
<1>3. ASSUME NEW i \in Jobs PROVE Sound(i)'
  <2>1. Planned(i)'
    BY <1>1 DEF Planned, Before, Siblings
  <2>2. ASSUME ~deepened' PROVE Settled(i)'
    <3>1. \A x : Firm(i, Inclusion(i), x) => /\ Firm(i, Inclusion(i), x)'
                                             /\ Inclusion(i)' = Inclusion(i)
      BY <1>1, <2>2 DEF Firm
    <3>2. \A k \in Before(i) : k \in Jobs
      BY DEF Before, Siblings
    <3>3. Settled(i) /\ Before(i)' = Before(i)
      BY <1>1, <2>2 DEF Before, Siblings
    <3>4. nonce[i] # None => \A k \in Before(i) :
            IF nonce[k] = None THEN state[k] \in {"failed", "quarantined"}
                               ELSE Included(k)' /\ nonce[k] < final'
      BY <2>2, <3>2, <3>3 DEF Settled
    <3>5. QED BY <1>1, <3>1, <3>3, <3>4 DEF Settled
  <2>3. QED BY <2>1, <2>2 DEF Sound
<1>4. NoncesSerial'
  BY <1>1 DEF IInv, NoncesSerial, Allocated
<1>5. QED BY <1>2, <1>3, <1>4 DEF IInv

LEMMA FinalizeKeeps == ASSUME IInv, Finalize PROVE IInv'
<1>1. /\ TypeOK /\ final' = final + 1 /\ final < Len(mined)
      /\ UNCHANGED <<dbVars, workerVars, mined, mempool, branch, deepened, faults>>
      /\ final \in Nat /\ Len(mined) \in Nat
  BY Basics DEF IInv, Finalize
<1>2. TypeOK'
  <2>1. final' \in 0..Len(mined)
    BY <1>1
  <2>2. QED BY <1>1, <2>1 DEF TypeOK, dbVars, workerVars
<1>3. ChainInv'
  BY <1>1 DEF IInv, ChainInv, dbVars
<1>4. \A i \in Jobs : /\ nonce[i] # None => nonce[i] \in Nat
                      /\ Included(i)' <=> Included(i)
                      /\ Inclusion(i)' = Inclusion(i)
  BY <1>1, Basics DEF Included, Inclusion, dbVars
<1>5. \A i \in Jobs : Included(i) /\ nonce[i] < final => nonce[i] < final'
  BY <1>1, <1>4 DEF Included
<1>6. ASSUME ~deepened, NEW u \in Workers PROVE Sighted(u)'
  <2>1. Sighted(u) /\ Worker(u) /\ (pc[u] # "idle" => job[u] \in Jobs)
    BY <1>6, WorkerFacts
  <2>2. UNCHANGED <<pc, job, seen, outcome, nonce, branch>> /\ (Fenced(u)' <=> Fenced(u))
    BY <1>1 DEF dbVars, workerVars, Fenced
  <2>3. ASSUME pc[u] = "final", Fenced(u), nonce[job[u]] < final + 1
        PROVE  Canonical(u)
    <3>1. job[u] \in Jobs /\ nonce[job[u]] \in Nat /\ seen[u] # None
      BY <1>4, <2>1, <2>3 DEF Worker
    <3>2. CASE nonce[job[u]] < final
      BY <2>1, <2>3, <3>2 DEF Sighted
    <3>3. CASE nonce[job[u]] = final
      BY <2>3, <3>1, <3>3 DEF Finalize
    <3>4. QED BY <1>1, <2>3, <3>1, <3>2, <3>3
  <2>4. pc[u] # "idle" => /\ Included(job[u])' <=> Included(job[u])
                          /\ Inclusion(job[u])' = Inclusion(job[u])
                          /\ Canonical(u)' <=> Canonical(u)
    BY <1>4, <2>1, <2>2 DEF Canonical
  <2>5. seen[u] # None => pc[u] # "idle"
    BY <2>1 DEF Worker
  <2>6. pc[u] = "writing" /\ Fenced(u) =>
          \A x, y : Firm(job[u], x, y) => Firm(job[u], x, y)'
    BY <1>5, <2>1, <2>2, <2>4 DEF Firm
  <2>7. QED BY <1>1, <2>1, <2>2, <2>3, <2>4, <2>5, <2>6 DEF Sighted
<1>7. ~deepened => branch <= MaxReorgs
  BY DEF IInv
<1>8. QED BY <1>1, <1>2, <1>3, <1>4, <1>5, <1>6, <1>7, ChainStep

\* A block with the transaction of j at its nonce.
LEMMA MineKeeps == ASSUME IInv, NEW j \in Jobs, Mine(j) PROVE IInv'
<1>0. PICK status \in Statuses :
        mined' = Append(mined, [job |-> j, branch |-> branch, status |-> status])
  BY DEF Mine, Statuses
<1>a. PICK b : b = [job |-> j, branch |-> branch, status |-> status]
  OBVIOUS
<1>1. b = [job |-> j, branch |-> branch, status |-> status] /\ mined' = Append(mined, b)
  BY <1>0, <1>a
<1>2. PICK n : n = Len(mined)
  OBVIOUS
<1>3. /\ TypeOK /\ n \in Nat /\ nonce[j] = n /\ mined \in Seq(Block) /\ branch \in Nat
      /\ UNCHANGED <<dbVars, workerVars, final, mempool, branch, deepened, faults>>
      /\ final \in Nat /\ final <= n /\ \A i \in 1..n : mined[i] \in Block
  BY <1>2, Basics DEF IInv, Mine
<1>4. b \in Block /\ b.job = j /\ b.branch = branch
  BY <1>1, <1>3 DEF Block, TypeOK
<1>5. /\ mined' \in Seq(Block) /\ Len(mined') = n + 1 /\ mined'[n + 1] = b
      /\ \A i \in 1..n : mined'[i] = mined[i]
  BY <1>1, <1>2, <1>3, <1>4
<1>6. TypeOK'
  <2>1. mined' \in Seq([job : Jobs, branch : Branches, status : {"success", "reverted"}])
    BY <1>5 DEF Block, Statuses
  <2>2. final' \in 0..Len(mined')
    BY <1>3, <1>5
  <2>3. QED BY <1>3, <2>1, <2>2 DEF TypeOK, dbVars, workerVars
<1>7. ChainInv'
  <2>1. \A i \in 1..n + 1 : nonce[mined'[i].job] = i - 1 /\ mined'[i].branch <= branch
    <3> SUFFICES ASSUME NEW i \in 1..n + 1
                 PROVE  nonce[mined'[i].job] = i - 1 /\ mined'[i].branch <= branch
      OBVIOUS
    <3>1. CASE i = n + 1
      BY <1>3, <1>4, <1>5, <3>1
    <3>2. CASE i # n + 1
      <4>1. i \in 1..n
        BY <1>3, <3>2
      <4>2. QED BY <1>2, <1>5, <4>1 DEF IInv, ChainInv
    <3>3. QED BY <3>1, <3>2
  <2>2. \A k \in mempool : nonce[k] # None
    BY DEF IInv, ChainInv
  <2>3. QED BY <1>3, <1>5, <2>1, <2>2 DEF ChainInv, dbVars
<1>8. ASSUME NEW i \in Jobs
      PROVE  /\ i # j => /\ Included(i)' <=> Included(i)
                         /\ Included(i) => Inclusion(i)' = Inclusion(i)
             /\ nonce[i] # None => nonce[i] \in Nat
  <2>1. nonce[i] # None => nonce[i] \in Nat
    BY <1>3, Basics
  <2>2. i # j /\ nonce[i] # None => nonce[i] # n
    BY <1>3 DEF IInv, NoncesSerial
  <2>3. nonce[i] # None /\ nonce[i] < n => mined'[nonce[i] + 1] = mined[nonce[i] + 1]
    BY <1>3, <1>5, <2>1
  <2>4. nonce' = nonce
    BY <1>3 DEF dbVars
  <2>5. QED BY <1>2, <1>3, <1>5, <2>1, <2>2, <2>3, <2>4 DEF Included, Inclusion
<1>9. ~Included(j) /\ nonce[j] # None /\ ~(nonce[j] < final)
  BY <1>2, <1>3 DEF Included
<1>10. Inclusion(j)'.branch = branch
  <2>1. mined'[nonce'[j] + 1] = b
    BY <1>3, <1>5 DEF dbVars
  <2>2. QED BY <1>4, <2>1 DEF Inclusion
<1>11. ASSUME ~deepened, NEW u \in Workers PROVE Sighted(u)'
  <2>1. Sighted(u) /\ Worker(u) /\ (pc[u] # "idle" => job[u] \in Jobs)
    BY <1>11, WorkerFacts
  <2>2. UNCHANGED <<pc, job, seen, outcome, nonce, branch, final>> /\ (Fenced(u)' <=> Fenced(u))
    BY <1>3 DEF dbVars, workerVars, Fenced
  <2>3. seen[u] # None => pc[u] # "idle"
    BY <2>1 DEF Worker
  <2>4. seen[u] # None =>
          /\ seen[u].branch <= branch
          /\ seen[u].branch = branch => Included(job[u])' /\ Inclusion(job[u])' = seen[u]
          /\ Included(job[u])' /\ Inclusion(job[u])'.branch = seen[u].branch =>
               Inclusion(job[u])' = seen[u]
    <3> SUFFICES ASSUME seen[u] # None
                 PROVE  /\ seen[u].branch <= branch
                        /\ seen[u].branch = branch =>
                             Included(job[u])' /\ Inclusion(job[u])' = seen[u]
                        /\ Included(job[u])' /\ Inclusion(job[u])'.branch = seen[u].branch =>
                             Inclusion(job[u])' = seen[u]
      OBVIOUS
    <3>1. job[u] \in Jobs
      BY <2>1, <2>3
    <3>2. CASE job[u] = j
      <4>1. seen[u].branch # branch /\ seen[u].branch <= branch
        BY <1>9, <2>1, <3>2 DEF Sighted
      <4>2. Inclusion(job[u])'.branch = branch
        <5>1. Inclusion(job[u])' = Inclusion(j)'
          BY <2>2, <3>2 DEF Inclusion
        <5>2. QED BY <1>10, <5>1
      <4>3. QED BY <4>1, <4>2
    <3>3. CASE job[u] # j
      <4>1. PICK i \in Jobs : i = job[u]
        BY <3>1
      <4>2. Included(i)' <=> Included(job[u])'
        BY <2>2, <4>1 DEF Included
      <4>3. Inclusion(i)' = Inclusion(job[u])'
        BY <2>2, <4>1 DEF Inclusion
      <4>4. QED BY <1>8, <2>1, <3>3, <4>1, <4>2, <4>3 DEF Sighted
    <3>4. QED BY <3>2, <3>3
  <2>5. ASSUME pc[u] # "idle", nonce[job[u]] < final, Included(job[u])
        PROVE  Included(job[u])' /\ Inclusion(job[u])' = Inclusion(job[u])
    <3>1. PICK i \in Jobs : i = job[u]
      BY <2>1, <2>5
    <3>2. i # j
      BY <1>9, <2>5, <3>1
    <3>3. Included(i)' /\ Inclusion(i)' = Inclusion(i)
      BY <1>8, <2>5, <3>1, <3>2
    <3>4. QED BY <2>2, <3>1, <3>3 DEF Included, Inclusion
  <2>6. pc[u] = "final" /\ Fenced(u) /\ nonce[job[u]] < final => Canonical(u)'
    BY <2>1, <2>2, <2>5 DEF Sighted, Canonical
  <2>7. pc[u] = "writing" =>
          \A x, y : Firm(job[u], x, y) => Firm(job[u], x, y)'
    BY <2>1, <2>2, <2>5 DEF Firm
  <2>8. QED BY <2>1, <2>2, <2>4, <2>6, <2>7 DEF Sighted
<1>12. \A i \in Jobs : Included(i) /\ nonce[i] < final =>
         Included(i)' /\ Inclusion(i)' = Inclusion(i) /\ nonce[i] < final'
  BY <1>3, <1>8, <1>9
<1>13. ~deepened => branch <= MaxReorgs
  BY DEF IInv
<1>14. QED BY <1>3, <1>6, <1>7, <1>11, <1>12, <1>13, ChainStep

\* The blocks above kept are given up.
LEMMA Shortened ==
  ASSUME TypeOK, NEW kept \in 0..Len(mined), mined' = SubSeq(mined, 1, kept)
  PROVE  /\ mined' \in Seq(Block) /\ Len(mined') = kept
         /\ \A i \in 1..kept : i \in 1..Len(mined) /\ mined'[i] = mined[i]
<1>1. mined \in Seq(Block) /\ Len(mined) \in Nat
  BY Basics
<1>2. PICK s \in Seq(Block) : s = mined
  BY <1>1
<1>3. kept \in Nat /\ kept <= Len(s) /\ mined' = SubSeq(s, 1, kept)
  BY <1>1, <1>2
<1>4. mined' \in Seq(Block) /\ Len(mined') = kept /\ \A i \in 1..kept : mined'[i] = s[i]
  BY <1>3, SubSeqProperties
<1>5. \A i \in 1..kept : i \in 1..Len(mined)
  BY <1>1, <1>3
<1>6. QED BY <1>2, <1>4, <1>5

\* What the chain still has it had before, and below kept nothing is lost.
LEMMA StillIncluded ==
  ASSUME TypeOK, NEW kept \in 0..Len(mined), mined' = SubSeq(mined, 1, kept),
         nonce' = nonce, NEW i \in Jobs
  PROVE  /\ Included(i)' => Included(i) /\ Inclusion(i)' = Inclusion(i)
         /\ Included(i) /\ nonce[i] < kept => Included(i)' /\ Inclusion(i)' = Inclusion(i)
<1>1. /\ Len(mined') = kept
      /\ \A k \in 1..kept : k \in 1..Len(mined) /\ mined'[k] = mined[k]
  BY Shortened
<1>2. Len(mined) \in Nat /\ (nonce[i] # None => nonce[i] \in Nat)
  BY Basics
<1>3. ASSUME nonce[i] # None, nonce[i] < kept
      PROVE  nonce[i] < Len(mined) /\ mined'[nonce[i] + 1] = mined[nonce[i] + 1]
  <2>1. PICK n \in Nat : n = nonce[i]
    BY <1>2, <1>3
  <2>2. n < kept /\ kept <= Len(mined) /\ kept \in Nat
    BY <1>2, <1>3, <2>1
  <2>3. n + 1 \in 1..kept /\ n < Len(mined)
    BY <1>2, <2>2
  <2>4. mined'[n + 1] = mined[n + 1]
    BY <1>1, <2>3
  <2>5. QED BY <2>1, <2>3, <2>4
<1>4. nonce'[i] = nonce[i]
  OBVIOUS
<1>5. Included(i)' => nonce[i] # None /\ nonce[i] < kept
  BY <1>1 DEF Included
<1>6. QED BY <1>1, <1>3, <1>5 DEF Included, Inclusion

LEMMA ShortChain ==
  ASSUME IInv, NEW kept \in 0..Len(mined), mined' = SubSeq(mined, 1, kept),
         UNCHANGED <<dbVars, workerVars, mempool, faults>>,
         branch' \in Branches, branch <= branch', deepened' \in BOOLEAN,
         final' \in 0..kept
  PROVE  TypeOK' /\ ChainInv'
<1>1. /\ TypeOK /\ mined' \in Seq(Block) /\ Len(mined') = kept
      /\ \A i \in 1..kept : i \in 1..Len(mined) /\ mined'[i] = mined[i]
  BY Shortened DEF IInv
<1>2. TypeOK'
  <2>1. mined' \in Seq([job : Jobs, branch : Branches, status : {"success", "reverted"}])
    BY <1>1 DEF Block, Statuses
  <2>2. final' \in 0..Len(mined')
    BY <1>1
  <2>3. QED BY <1>1, <2>1, <2>2 DEF TypeOK, dbVars, workerVars
<1>3. ChainInv'
  <2>1. \A i \in 1..kept : nonce[mined'[i].job] = i - 1 /\ mined'[i].branch <= branch'
    <3> SUFFICES ASSUME NEW i \in 1..kept
                 PROVE  nonce[mined'[i].job] = i - 1 /\ mined'[i].branch <= branch'
      OBVIOUS
    <3>1. nonce[mined[i].job] = i - 1 /\ mined[i].branch <= branch
      BY <1>1 DEF IInv, ChainInv
    <3>2. mined[i] \in Block /\ mined[i].branch \in Int
      BY <1>1, Basics DEF Block, Branches
    <3>3. branch \in Int /\ branch' \in Int
      BY <1>1 DEF TypeOK, Branches
    <3>4. QED BY <1>1, <3>1, <3>2, <3>3
  <2>2. QED BY <1>1, <2>1 DEF IInv, ChainInv, dbVars
<1>4. QED BY <1>2, <1>3

LEMMA ReorgKeeps == ASSUME IInv, Reorg PROVE IInv'
<1>1. PICK kept \in final..(Len(mined) - 1) : mined' = SubSeq(mined, 1, kept)
  BY DEF Reorg
<1>2. /\ TypeOK /\ final \in Nat /\ Len(mined) \in Nat
      /\ branch \in Nat /\ branch < MaxReorgs /\ branch' = branch + 1
      /\ UNCHANGED <<dbVars, workerVars, mempool, faults>>
      /\ UNCHANGED <<final, deepened, nonce, pc, job, seen, outcome>>
  BY Basics DEF IInv, Reorg, TypeOK, Branches, dbVars, workerVars
<1>3. kept \in 0..Len(mined) /\ final <= kept /\ final' \in 0..kept
  BY <1>1, <1>2
<1>4. branch' \in Branches /\ branch <= branch' /\ branch' <= MaxReorgs
  BY <1>2 DEF Branches
<1>5. deepened' \in BOOLEAN
  BY <1>2 DEF TypeOK
<1>6. TypeOK' /\ ChainInv'
  BY <1>1, <1>2, <1>3, <1>4, <1>5, ShortChain
<1>7. \A i \in Jobs :
        /\ Included(i)' => Included(i) /\ Inclusion(i)' = Inclusion(i)
        /\ Included(i) /\ nonce[i] < kept => Included(i)' /\ Inclusion(i)' = Inclusion(i)
  BY <1>1, <1>2, <1>3, StillIncluded
<1>8. \A i \in Jobs : nonce[i] # None => nonce[i] \in Nat
  BY <1>2, Basics
<1>9. \A i \in Jobs : Included(i) /\ nonce[i] < final =>
        Included(i)' /\ Inclusion(i)' = Inclusion(i) /\ nonce[i] < final'
  <2> SUFFICES ASSUME NEW i \in Jobs, Included(i), nonce[i] < final
               PROVE  Included(i)' /\ Inclusion(i)' = Inclusion(i) /\ nonce[i] < final'
    OBVIOUS
  <2>0. Included(i) /\ nonce[i] < final
    OBVIOUS
  <2>1. PICK n \in Nat : n = nonce[i]
    BY <1>8, <2>0 DEF Included
  <2>2. n < final /\ final \in Nat /\ kept \in Nat /\ final <= kept
    BY <1>2, <1>3, <2>0, <2>1
  <2>3. n < kept
    BY <2>2
  <2>4. Included(i)' /\ Inclusion(i)' = Inclusion(i)
    BY <1>7, <2>0, <2>1, <2>3
  <2>5. QED BY <1>2, <2>0, <2>4
<1>10. ASSUME ~deepened, NEW u \in Workers PROVE Sighted(u)'
  <2>1. Sighted(u) /\ Worker(u) /\ (pc[u] # "idle" => job[u] \in Jobs)
    BY <1>10, WorkerFacts
  <2>2. Fenced(u)' <=> Fenced(u)
    BY <1>2 DEF dbVars, workerVars, Fenced
  <2>3. seen[u] # None => pc[u] # "idle" /\ seen[u].branch \in Int
    <3>1. seen[u] # None => seen[u] \in Receipts
      BY <1>2 DEF TypeOK
    <3>2. QED BY <2>1, <3>1 DEF Worker, Receipts, Branches
  <2>4. pc[u] # "idle" =>
          /\ Included(job[u])' => Included(job[u]) /\ Inclusion(job[u])' = Inclusion(job[u])
          /\ Included(job[u]) /\ nonce[job[u]] < final =>
               Included(job[u])' /\ Inclusion(job[u])' = Inclusion(job[u])
    <3> SUFFICES ASSUME pc[u] # "idle"
                 PROVE  /\ Included(job[u])' =>
                             Included(job[u]) /\ Inclusion(job[u])' = Inclusion(job[u])
                        /\ Included(job[u]) /\ nonce[job[u]] < final =>
                             Included(job[u])' /\ Inclusion(job[u])' = Inclusion(job[u])
      OBVIOUS
    <3>1. PICK i \in Jobs : i = job[u]
      BY <2>1
    <3>2. (Included(i)' <=> Included(job[u])') /\ Inclusion(i)' = Inclusion(job[u])'
      BY <1>2, <3>1 DEF Included, Inclusion
    <3>3. QED BY <1>7, <1>9, <3>1, <3>2
  <2>5. seen[u] # None =>
          /\ seen[u].branch <= branch' /\ seen[u].branch # branch'
          /\ Included(job[u])' /\ Inclusion(job[u])'.branch = seen[u].branch =>
               Inclusion(job[u])' = seen[u]
    <3>1. seen[u] # None => seen[u].branch <= branch' /\ seen[u].branch # branch'
      BY <1>2, <2>1, <2>3 DEF Sighted
    <3>2. QED BY <2>1, <2>3, <2>4, <3>1 DEF Sighted
  <2>6. pc[u] = "final" /\ Fenced(u) /\ nonce[job[u]] < final => Canonical(u)'
    BY <1>2, <2>1, <2>4 DEF Sighted, Canonical
  <2>7. pc[u] = "writing" =>
          \A x, y : Firm(job[u], x, y) => Firm(job[u], x, y)'
    BY <1>2, <2>4 DEF Firm
  <2>8. QED BY <1>2, <2>1, <2>2, <2>5, <2>6, <2>7 DEF Sighted
<1>11. QED BY <1>2, <1>4, <1>6, <1>9, <1>10, ChainStep

LEMMA DeepReorgKeeps == ASSUME IInv, DeepReorg PROVE IInv'
<1>1. PICK kept \in 0..(final - 1) : mined' = SubSeq(mined, 1, kept) /\ final' = kept
  BY DEF DeepReorg
<1>2. /\ TypeOK /\ final \in Nat /\ Len(mined) \in Nat /\ final <= Len(mined)
      /\ branch \in Nat /\ branch <= MaxReorgs /\ branch' = MaxReorgs + 1 /\ deepened'
      /\ UNCHANGED <<dbVars, workerVars, mempool, faults>>
      /\ deepened' = TRUE
  BY Basics DEF IInv, DeepReorg, TypeOK, Branches
<1>3. kept \in 0..Len(mined) /\ final' \in 0..kept
  BY <1>1, <1>2
<1>4. branch' \in Branches /\ branch <= branch'
  BY <1>2 DEF Branches
<1>5. TypeOK' /\ ChainInv'
  <2>1. deepened' \in BOOLEAN
    BY <1>2
  <2>2. QED BY <1>1, <1>2, <1>3, <1>4, <2>1, ShortChain
<1>6. UNCHANGED <<dbVars, workerVars>>
  BY <1>2
<1>7. QED BY <1>2, <1>5, <1>6, ChainStep

(******************************** The invariant *******************************)
LEMMA StepIInv == IInv /\ [Next]_vars => IInv'
<1> SUFFICES ASSUME IInv, [Next]_vars PROVE IInv'
  OBVIOUS
<1>1. ASSUME NEW w \in Workers, Step(w) PROVE IInv'
  <2>1. ASSUME NEW j \in Jobs, Claim(w, j) PROVE IInv'
    BY <2>1, ClaimKeeps
  <2>2. CASE Validate(w) \/ Preflight(w) \/ SaveIntent(w)
    BY <2>2, ValidateKeeps, PreflightKeeps, SaveIntentKeeps
  <2>3. CASE ReadReceipt(w) \/ CheckCanonical(w) \/ CheckFinal(w)
    BY <2>3, ReadReceiptKeeps, CheckCanonicalKeeps, CheckFinalKeeps
  <2>4. CASE CheckNonce(w) \/ Broadcast(w)
    BY <2>4, CheckNonceKeeps, BroadcastKeeps
  <2>5. CASE Write(w) \/ Withdraw(w) \/ Release(w)
    BY <2>5, WriteKeeps, WithdrawKeeps, ForgetKeeps
  <2>6. QED BY <1>1, <2>1, <2>2, <2>3, <2>4, <2>5 DEF Step
<1>2. ASSUME NEW w \in Workers, Misfortune(w) PROVE IInv'
  BY <1>2, BindingChangedKeeps, CallFailsKeeps, WriteKeeps, WithdrawKeeps, ForgetKeeps
     DEF Misfortune
<1>3. ASSUME NEW j \in Jobs, Plan(j) \/ Mine(j) \/ DropBytes(j) \/ Audit(j) PROVE IInv'
  BY <1>3, PlanKeeps, MineKeeps, OutsideKeeps, AuditKeeps
<1>4. CASE \/ \E p \in Projects : LeaseRunsOut(p) \/ Refresh(p)
           \/ UNCHANGED vars
  BY <1>4, OutsideKeeps
<1>5. CASE Finalize \/ Reorg \/ DeepReorg
  BY <1>5, FinalizeKeeps, ReorgKeeps, DeepReorgKeeps
<1>6. QED BY <1>1, <1>2, <1>3, <1>4, <1>5 DEF Next

LEMMA IInvIsEnough == IInv => TypeOK /\ NoncesSerial /\ NoRevival /\ EndedIsTrue
<1> SUFFICES ASSUME IInv PROVE TypeOK /\ NoncesSerial /\ NoRevival /\ EndedIsTrue
  OBVIOUS
<1>1. \A j \in Jobs : ~deepened => Settled(j)
  BY DEF IInv, Sound
<1>2. NoRevival
  BY <1>1 DEF NoRevival, Settled, Before
<1>3. EndedIsTrue
  BY <1>1 DEF EndedIsTrue, Settled, Firm
<1>4. QED BY <1>2, <1>3 DEF IInv

\* The invariant holds in every reachable state.
THEOREM Inductive == Spec => []IInv
BY InitIInv, StepIInv, PTL DEF Spec

\* Types, and a chain that holds what was final.
THEOREM Typing == Spec => []TypeOK
BY Inductive, IInvIsEnough, PTL

\* No two jobs sign the same nonce and none is skipped.
THEOREM NoncesStaySerial == Spec => []NoncesSerial
BY Inductive, IInvIsEnough, PTL

\* No transaction of a project comes back around a later one.
THEOREM NothingRevives == Spec => []NoRevival
BY Inductive, IInvIsEnough, PTL

\* A job's end says what the chain did with its transaction, for good.
THEOREM EndsAreTrue == Spec => []EndedIsTrue
BY Inductive, IInvIsEnough, PTL

\* The next nonce the chain waits for is never one nobody looks after: it belongs to a
\* job that workers still follow up, or to a quarantined one, left to the operator.
\* A job that ended without its transaction (worker.mjs 40-45 fails a job, 57-89 ends
\* one by its receipt) would stop every project behind its nonce.
HeadIsFollowed ==
  ~deepened /\ Len(mined) < Cardinality(Allocated) =>
    \E j \in Jobs : nonce[j] = Len(mined) /\ state[j] \in Pending \union {"quarantined"}

\* No gap opens in the nonces that wait for the chain: the safety half of JobsEnd.
THEOREM NoNonceIsAbandoned == Spec => []HeadIsFollowed
<1>1. ASSUME IInv, ~deepened, Len(mined) < Cardinality(Allocated)
      PROVE  \E j \in Jobs : nonce[j] = Len(mined) /\ state[j] \in Pending \union {"quarantined"}
  <2>1. /\ state \in [Jobs -> {"absent"} \union Pending \union Ended]
        /\ Len(mined) \in Nat /\ Allocated = 0..(Cardinality(Allocated) - 1)
    BY <1>1, Basics DEF IInv, TypeOK, NoncesSerial
  <2>2. Cardinality(Allocated) \in Nat
    BY <1>1, Allocations
  <2>3. Len(mined) \in Allocated
    BY <1>1, <2>1, <2>2
  <2>4. PICK j \in Jobs : nonce[j] = Len(mined)
    BY <2>3 DEF Allocated
  <2>5. nonce[j] # None /\ ~Included(j)
    BY <2>1, <2>4 DEF Included
  <2>6. Planned(j) /\ Settled(j)
    BY <1>1 DEF IInv, Sound
  <2>7. state[j] \notin {"absent", "finalized", "failed"}
    BY <2>5, <2>6 DEF Planned, Settled, Firm
  <2> QED BY <2>1, <2>4, <2>7 DEF Ended
<1>2. IInv => HeadIsFollowed
  BY <1>1 DEF HeadIsFollowed
<1> QED BY <1>2, Inductive, PTL

(****************************** Ends and capacity *****************************)
\* Only a fenced write, the plan, the intent and the audit touch a job's state.
LEMMA WhoWrites ==
  ASSUME IInv, [Next]_vars
  PROVE  \/ state' = state
         \/ \E w \in Workers : /\ Write(w) \/ WriteFails(w)
                               /\ Fenced(w) /\ Record(w)
         \/ \E w \in Workers : SaveIntent(w) /\ Fenced(w)
         \/ \E j \in Jobs : Plan(j) \/ Audit(j)
<1>1. CASE UNCHANGED vars
  BY <1>1 DEF vars, dbVars
<1>2. ASSUME NEW w \in Workers, Step(w) PROVE
         \/ state' = state
         \/ Write(w) /\ Fenced(w) /\ Record(w)
         \/ SaveIntent(w) /\ Fenced(w)
  BY <1>2 DEF Step, Claim, Validate, Preflight, SaveIntent, ReadReceipt, CheckCanonical,
              CheckFinal, CheckNonce, Broadcast, Write, Withdraw, Release, dbVars
<1>3. ASSUME NEW w \in Workers, Misfortune(w) PROVE
         \/ state' = state
         \/ WriteFails(w) /\ Fenced(w) /\ Record(w)
  BY <1>3 DEF Misfortune, BindingChanged, CallFails, WriteFails, WithdrawFails, Crash, dbVars
<1>4. ASSUME NEW j \in Jobs, Mine(j) \/ DropBytes(j) PROVE state' = state
  BY <1>4 DEF Mine, DropBytes, dbVars
<1>5. ASSUME NEW p \in Projects, LeaseRunsOut(p) \/ Refresh(p) PROVE state' = state
  BY <1>5 DEF LeaseRunsOut, Refresh
<1>6. CASE Finalize \/ Reorg \/ DeepReorg
  BY <1>6 DEF Finalize, Reorg, DeepReorg, dbVars
<1>7. QED BY <1>1, <1>2, <1>3, <1>4, <1>5, <1>6 DEF Next

\* What has ended stays ended, but for the audit and a tick writing over itself.
THEOREM EndsStay == Spec => EndedStays
<1>1. ASSUME IInv, [Next]_vars, NEW j \in Jobs, state[j] \in Ended
      PROVE  \/ state'[j] = state[j]
             \/ state[j] # "quarantined" /\ state'[j] = "quarantined"
             \/ /\ state[j] # "quarantined" \/ deepened
                /\ state'[j] = "broadcast_unknown"
                /\ \E w \in Workers :
                     HoldsLease(w, ProjectOf[j]) /\ job[w] = j /\ seen[w] # None
  <2>1. state \in [Jobs -> {"absent"} \union Pending \union Ended]
    BY <1>1 DEF IInv, TypeOK
  <2>2. ASSUME NEW w \in Workers, Write(w) \/ WriteFails(w), Fenced(w), Record(w),
               state'[j] # state[j]
        PROVE  /\ state[j] # "quarantined" \/ deepened
               /\ state'[j] = "broadcast_unknown"
               /\ HoldsLease(w, ProjectOf[j]) /\ job[w] = j /\ seen[w] # None
    <3>1. pc[w] = "writing" /\ Held(w) /\ job[w] \in Jobs
      BY <1>1, <2>2, WorkerFacts DEF Write, WriteFails
    <3>2. job[w] = j /\ state'[j] = outcome[w]
      BY <2>1, <2>2, <3>1 DEF Record
    <3>3. state[j] \notin Pending
      BY <1>1 DEF Pending, Ended
    <3>4. outcome[w] = "broadcast_unknown" /\ seen[w] # None
          /\ (state[j] # "quarantined" \/ deepened)
      BY <2>2, <3>1, <3>2, <3>3 DEF Held
    <3>5. HoldsLease(w, ProjectOf[j])
      BY <2>2, <3>1, <3>2 DEF HoldsLease, Fenced
    <3>6. QED BY <3>2, <3>4, <3>5
  <2>3. ASSUME NEW w \in Workers, SaveIntent(w), Fenced(w) PROVE state'[j] = state[j]
    <3>1. state[job[w]] \in Pending
      BY <1>1, <2>3, WorkerFacts DEF SaveIntent, Held, Active
    <3>2. job[w] # j
      BY <1>1, <3>1 DEF Pending, Ended
    <3>3. QED BY <2>1, <2>3, <3>2 DEF SaveIntent
  <2>4. ASSUME NEW k \in Jobs, Plan(k) PROVE state'[j] = state[j]
    BY <1>1, <2>1, <2>4 DEF Plan, Ended
  <2>5. ASSUME NEW k \in Jobs, Audit(k)
        PROVE  \/ state'[j] = state[j]
               \/ state[j] # "quarantined" /\ state'[j] = "quarantined"
    BY <2>1, <2>5 DEF Audit
  <2>6. QED BY <1>1, <2>2, <2>3, <2>4, <2>5, WhoWrites
<1>2. ASSUME IInv, [Next]_vars
      PROVE  \A j \in Jobs : state[j] \in Ended =>
               \/ state'[j] = state[j]
               \/ state[j] # "quarantined" /\ state'[j] = "quarantined"
               \/ /\ state[j] # "quarantined" \/ deepened
                  /\ state'[j] = "broadcast_unknown"
                  /\ \E w \in Workers :
                       HoldsLease(w, ProjectOf[j]) /\ job[w] = j /\ seen[w] # None
  BY <1>1, <1>2
<1>3. QED BY <1>2, Inductive, PTL DEF Spec, EndedStays

\* A quarantined project comes to have capacity only by a write that withdraws it next.
THEOREM QuarantineStaysClosed == Spec => QuarantineCloses
<1>1. ASSUME IInv, [Next]_vars, NEW p \in Projects, Quarantined(p)', p \in capacity',
             ~(Quarantined(p) /\ p \in capacity)
      PROVE  \/ faults' > faults
             \/ \E w \in Workers : pc'[w] = "withdraw" /\ ProjectOf[job[w]] = p
  <2>1. /\ state \in [Jobs -> {"absent"} \union Pending \union Ended]
        /\ pc \in [Workers -> Control] /\ capacity \subseteq Projects /\ faults \in Nat
    BY <1>1 DEF IInv, TypeOK
  <2>2. PICK j \in Jobs : ProjectOf[j] = p /\ state'[j] = "quarantined"
    BY <1>1 DEF Quarantined
  <2>3. ASSUME NEW w \in Workers, Write(w) \/ WriteFails(w), Fenced(w), Record(w)
        PROVE  \/ faults' > faults
               \/ pc'[w] = "withdraw" /\ ProjectOf[job[w]] = p
    <3>1. capacity' = capacity
      BY <2>3 DEF Write, WriteFails
    <3>2. state[j] # "quarantined"
      BY <1>1, <2>2, <3>1 DEF Quarantined
    <3>3. job[w] = j /\ outcome[w] = "quarantined"
      BY <2>1, <2>2, <2>3, <3>2 DEF Record
    <3>4. CASE Write(w)
      BY <2>1, <2>2, <2>3, <3>3, <3>4 DEF Write, Go
    <3>5. CASE WriteFails(w)
      BY <2>1, <3>5 DEF WriteFails, Fault
    <3>6. QED BY <2>3, <3>4, <3>5
  <2>4. ASSUME state'[j] = state[j] PROVE FALSE
    <3>1. Quarantined(p)
      BY <2>2, <2>4 DEF Quarantined
    <3>2. p \notin capacity
      BY <1>1, <3>1
    <3>3. \/ capacity' \subseteq capacity
          \/ \E q \in Projects : Refresh(q)
      <4>1. CASE UNCHANGED vars
        BY <4>1 DEF vars, dbVars
      <4>2. ASSUME NEW w \in Workers, Step(w) PROVE capacity' \subseteq capacity
        BY <4>2 DEF Step, Claim, Validate, Preflight, SaveIntent, ReadReceipt,
                    CheckCanonical, CheckFinal, CheckNonce, Broadcast, Write, Withdraw,
                    Release, dbVars
      <4>3. ASSUME NEW w \in Workers, Misfortune(w) PROVE capacity' \subseteq capacity
        BY <4>3 DEF Misfortune, BindingChanged, CallFails, WriteFails, WithdrawFails, Crash,
                    dbVars
      <4>4. ASSUME NEW k \in Jobs, Plan(k) \/ Mine(k) \/ DropBytes(k) \/ Audit(k)
            PROVE  capacity' \subseteq capacity
        BY <4>4 DEF Plan, Mine, DropBytes, Audit, dbVars
      <4>5. ASSUME NEW q \in Projects, LeaseRunsOut(q) PROVE capacity' \subseteq capacity
        BY <4>5 DEF LeaseRunsOut
      <4>6. CASE Finalize \/ Reorg \/ DeepReorg
        BY <4>6 DEF Finalize, Reorg, DeepReorg, dbVars
      <4>7. QED BY <1>1, <4>1, <4>2, <4>3, <4>4, <4>5, <4>6 DEF Next
    <3>4. PICK q \in Projects : Refresh(q)
      BY <1>1, <3>2, <3>3
    <3>5. q = p
      BY <1>1, <3>2, <3>4 DEF Refresh
    <3>6. QED BY <3>1, <3>4, <3>5 DEF Refresh, Refreshable
  <2>5. ASSUME NEW w \in Workers, SaveIntent(w) PROVE FALSE
    <3>1. CASE state' = state
      BY <2>4, <3>1
    <3>2. CASE state' = [state EXCEPT ![job[w]] = "prepared"]
      BY <2>1, <2>2, <2>4, <3>2
    <3>3. QED BY <2>5, <3>1, <3>2 DEF SaveIntent
  <2>6. ASSUME NEW k \in Jobs, Plan(k) PROVE FALSE
    BY <2>1, <2>2, <2>4, <2>6 DEF Plan
  <2>7. ASSUME NEW k \in Jobs, Audit(k) PROVE FALSE
    <3>1. CASE k = j
      BY <1>1, <2>2, <2>7, <3>1 DEF Audit
    <3>2. CASE k # j
      BY <2>1, <2>4, <2>7, <3>2 DEF Audit
    <3>3. QED BY <3>1, <3>2
  <2>8. QED BY <1>1, <2>3, <2>4, <2>5, <2>6, <2>7, WhoWrites
<1>2. ASSUME IInv, [Next]_vars
      PROVE  \A p \in Projects :
               (Quarantined(p) /\ p \in capacity)' /\ ~(Quarantined(p) /\ p \in capacity) =>
                 \/ faults' > faults
                 \/ \E w \in Workers : pc'[w] = "withdraw" /\ ProjectOf[job[w]] = p
  BY <1>1, <1>2
<1>3. QED BY <1>2, Inductive, PTL DEF Spec, QuarantineCloses

==============================================================================
