------------------------ MODULE RequestLifecycleProofs ------------------------
(***************************************************************************)
(* The safety of the request lifecycle for any number of requests, gateway *)
(* instances and amounts.  The inductive invariant relates, request by     *)
(* request, the handler's control to the row it may no longer own.         *)
(***************************************************************************)
EXTENDS RequestLifecycle, TLAPS

\* What the row alone says.
RowInv(r) ==
  /\ state[r] # "settled" => charged[r] = 0
  /\ state[r] = "settled" =>
       charged[r] = MaxAmount \/ (charge[r] # 0 /\ charge[r] <= charged[r])
  /\ reconciled[r] => state[r] = "settled" /\ charged[r] = MaxAmount
  /\ charge[r] # 0 => sent[r]
  /\ state[r] \in {"none", "released"} => ~sent[r]

\* A legacy row has neither an instance nor a handler.
LegacyInv(r) ==
  /\ owner[r] = NoInstance /\ pc[r] = "done" /\ mark[r] = "none"
  /\ state[r] \notin {"none", "released"}

\* A handler may outlive its row: what it can still do to the provider is
\* bounded by the dispatch marker, whatever recovery did to the row meanwhile.
HandlerInv(r) ==
  /\ pc[r] = "idle" \/ owner[r] \in Instances
  /\ pc[r] \in {"idle", "reserving"} => state[r] = "none"
  /\ pc[r] \in {"auth", "marking", "provider", "finishing"} => state[r] # "none"
  /\ pc[r] \in {"idle", "reserving", "auth", "marking"} => ~sent[r]
  /\ sent[r] => dispatched[r]
  /\ mark[r] = "ok" => dispatched[r]
  /\ pc[r] = "marking" /\ dispatched[r] => state[r] # "released"

\* The one outcome a handler is about to write.
OutcomeInv(r) ==
  /\ pc[r] = "finishing" <=> verdict[r] # "none"
  /\ verdict[r] = "released" => ~sent[r]
  /\ verdict[r] = "settled" => charge[r] # 0 /\ charge[r] <= cost[r]
  /\ verdict[r] # "settled" => cost[r] = 0

ReqInv(r) ==
  /\ RowInv(r)
  /\ r \in Legacy => LegacyInv(r)
  /\ r \notin Legacy => HandlerInv(r)
  /\ OutcomeInv(r)

IInv == TypeOK /\ \A r \in Requests : ReqInv(r)

USE LifecycleAssumption DEF LifecycleAssumption

LEMMA InitInv == Init => IInv
<1> SUFFICES ASSUME Init PROVE IInv
  OBVIOUS
<1> USE DEF Init, Ledger!Init
<1>1. TypeOK
  <2>1. /\ state \in [Requests -> Ledger!RowStates]
        /\ charged \in [Requests -> 0..MaxAmount]
        /\ sent \in [Requests -> BOOLEAN]
        /\ charge \in [Requests -> {0} \union Charges]
    BY DEF Ledger!RowStates
  <2>2. /\ dispatched \in [Requests -> BOOLEAN]
        /\ identity \in [Requests -> BOOLEAN]
        /\ owner \in [Requests -> Instances \union {NoInstance}]
        /\ reconciled \in [Requests -> BOOLEAN]
        /\ suspended \in BOOLEAN
    OBVIOUS
  <2>3. /\ silent \in [Instances -> BOOLEAN]
        /\ stopped \in [Instances -> BOOLEAN]
        /\ process \in [Instances -> {"off", "up", "draining", "stopping", "exited"}]
        /\ todo \in [Instances -> SUBSET Requests]
    OBVIOUS
  <2>4. /\ pc \in [Requests -> Control]
        /\ client \in [Requests -> {"waiting", "timedout", "gone"}]
        /\ mark \in [Requests -> CallStates]
        /\ note \in [Requests -> CallStates]
        /\ verdict \in [Requests -> {"none", "settled", "uncertain", "released"}]
        /\ cost \in [Requests -> 0..MaxAmount]
        /\ proof \in [Requests -> {0} \union Charges]
    BY DEF CallStates, Control
  <2>5. QED
    BY <2>1, <2>2, <2>3, <2>4 DEF TypeOK
<1>2. ASSUME NEW r \in Requests PROVE ReqInv(r)
  BY <1>2 DEF ReqInv, RowInv, LegacyInv, HandlerInv, OutcomeInv
<1>3. QED
  BY <1>1, <1>2 DEF IInv

\* The amounts of a request are numbers.
LEMMA AmountTypes ==
  ASSUME TypeOK, NEW r \in Requests
  PROVE  /\ charge[r] \in Nat /\ cost[r] \in 0..MaxAmount
         /\ charged[r] \in 0..MaxAmount /\ proof[r] \in Nat
<1>1. /\ charge[r] \in {0} \union Charges /\ proof[r] \in {0} \union Charges
      /\ cost[r] \in 0..MaxAmount /\ charged[r] \in 0..MaxAmount
  BY DEF TypeOK
<1>2. {0} \union Charges \subseteq Nat
  OBVIOUS
<1>3. QED
  BY <1>1, <1>2

\* Every action of one request keeps the types.
LEMMA RequestTypes ==
  ASSUME TypeOK, NEW r \in Requests,
         Handler(r) \/ Database(r) \/ Operator(r) \/ \E c \in Charges : ProviderCharges(r, c)
  PROVE  TypeOK'
<1> USE DEF TypeOK, rowVars, instanceVars, handlerVars, providerVars
<1>1. ASSUME NEW i \in Instances, Arrive(r, i) PROVE TypeOK'
  BY <1>1 DEF Arrive, Control
<1>2. CASE Reserve(r)
  <2>1. PICK next \in {"auth", "done"} : pc' = [pc EXCEPT ![r] = next]
    BY <1>2 DEF Reserve
  <2>2. pc' \in [Requests -> Control]
    BY <2>1 DEF Control
  <2>3. state' \in [Requests -> Ledger!RowStates]
    BY <1>2 DEF Reserve, Ledger!RowStates
  <2>4. silent' \in [Instances -> BOOLEAN]
    BY <1>2 DEF Reserve
  <2>5. QED
    BY <1>2, <2>2, <2>3, <2>4 DEF Reserve
<1>3. CASE Refuse(r)
  BY <1>3 DEF Refuse, Control
<1>4. CASE ClientLeaves(r)
  BY <1>4 DEF ClientLeaves
<1>5. CASE Deadline(r)
  BY <1>5 DEF Deadline, Timed, Running, Aborted
<1>6. CASE Sign(r)
  BY <1>6 DEF Sign, Dispatchable, Running, Aborted, Control, CallStates
<1>7. CASE MarkDispatched(r)
  <2>1. PICK answer \in {"ok", "failed"} : mark' = [mark EXCEPT ![r] = answer]
    BY <1>7 DEF MarkDispatched
  <2>2. mark' \in [Requests -> CallStates]
    BY <2>1 DEF CallStates
  <2>3. dispatched' \in [Requests -> BOOLEAN]
    BY <1>7 DEF MarkDispatched
  <2>4. QED
    BY <1>7, <2>2, <2>3 DEF MarkDispatched
<1>8. CASE LoseMark(r)
  BY <1>8 DEF LoseMark, CallStates
<1>9. CASE Send(r)
  BY <1>9 DEF Send, Marked, Running, Aborted, Control
<1>10. CASE ReceiveIdentity(r)
  BY <1>10 DEF ReceiveIdentity, Running, Aborted, CallStates
<1>11. CASE NoteProviderRequestId(r)
  <2>1. PICK answer \in {"ok", "failed"} : note' = [note EXCEPT ![r] = answer]
    BY <1>11 DEF NoteProviderRequestId
  <2>2. note' \in [Requests -> CallStates]
    BY <2>1 DEF CallStates
  <2>3. identity' \in [Requests -> BOOLEAN]
    BY <1>11 DEF NoteProviderRequestId
  <2>4. QED
    BY <1>11, <2>2, <2>3 DEF NoteProviderRequestId
<1>12. CASE LoseNote(r)
  BY <1>12 DEF LoseNote, CallStates
<1>13. ASSUME NEW c \in AccountedCosts(r), Answer(r, c) PROVE TypeOK'
  <2>1. c \in 0..MaxAmount
    BY AmountTypes, c \in charge[r]..MaxAmount DEF AccountedCosts
  <2>2. QED
    BY <1>13, <2>1 DEF Answer, Control
<1>14. CASE Fail(r)
  BY <1>14 DEF Fail, FailVerdict, Running, Control
<1>15. CASE Finish(r)
  BY <1>15, SMTT(30) DEF Finish, Finishable, Ledger!RowStates, Control
<1>16. CASE LoseFinish(r)
  BY <1>16 DEF LoseFinish, Control
<1>17. CASE RetainUnproven(r)
  BY <1>17 DEF RetainUnproven, RetainMaximum, Ledger!RowStates
<1>18. CASE ReadProof(r)
  BY <1>18 DEF ReadProof
<1>19. CASE Reconcile(r)
  <2>1. proof' \in [Requests -> {0} \union Charges]
    BY <1>19 DEF Reconcile
  <2>2. CASE RetainMaximum(r) /\ UNCHANGED suspended
    BY <2>1, <2>2 DEF RetainMaximum, Ledger!RowStates
  <2>3. CASE UNCHANGED <<state, charged, dispatched, identity, owner, reconciled,
                         instanceVars, handlerVars, providerVars>>
             /\ suspended' \in BOOLEAN
    BY <2>1, <2>3
  <2>4. QED
    BY <1>19, <2>2, <2>3 DEF Reconcile
<1>20. ASSUME NEW c \in Charges, ProviderCharges(r, c) PROVE TypeOK'
  BY <1>20 DEF ProviderCharges
<1>21. QED
  BY <1>1, <1>2, <1>3, <1>4, <1>5, <1>6, <1>7, <1>8, <1>9, <1>10, <1>11, <1>12, <1>13, <1>14, <1>15, <1>16, <1>17, <1>18, <1>19, <1>20
     DEF Handler, Database, Operator

\* So does every action of a gateway process.
LEMMA ProcessTypes ==
  ASSUME TypeOK, NEW i \in Instances, Process(i)
  PROVE  TypeOK'
<1> USE DEF TypeOK, rowVars, instanceVars, handlerVars, providerVars
<1>1. CASE Start(i)
  BY <1>1 DEF Start
<1>2. CASE Heartbeat(i)
  BY <1>2 DEF Heartbeat
<1>3. CASE GoSilent(i)
  BY <1>3 DEF GoSilent
<1>4. CASE Shutdown(i)
  BY <1>4 DEF Shutdown
<1>5. CASE Drained(i)
  BY <1>5 DEF Drained
<1>6. CASE Exit(i)
  BY <1>6 DEF Exit
<1>7. CASE SelectOrphans(i)
  BY <1>7 DEF SelectOrphans, Orphan
<1>8. CASE AbandonSweep(i)
  BY <1>8 DEF AbandonSweep
<1>9. ASSUME NEW r \in Requests, RecoverOrphan(i, r) PROVE TypeOK'
  BY <1>9 DEF RecoverOrphan, JudgedAgain, Orphan, Proven, Ledger!RowStates
<1>10. QED
  BY <1>1, <1>2, <1>3, <1>4, <1>5, <1>6, <1>7, <1>8, <1>9 DEF Process

------------------------------------------------------------------------------
\* The part of the state ReqInv(q) speaks about is unchanged.
SameAt(q) ==
  /\ state'[q] = state[q] /\ charged'[q] = charged[q]
  /\ dispatched'[q] = dispatched[q] /\ reconciled'[q] = reconciled[q]
  /\ owner'[q] = owner[q] /\ pc'[q] = pc[q] /\ mark'[q] = mark[q]
  /\ verdict'[q] = verdict[q] /\ cost'[q] = cost[q]
  /\ sent'[q] = sent[q] /\ charge'[q] = charge[q]

LEMMA SameKeeps ==
  ASSUME NEW q \in Requests, ReqInv(q), SameAt(q) PROVE ReqInv(q)'
BY DEF SameAt, ReqInv, RowInv, LegacyInv, HandlerInv, OutcomeInv

\* A step of one request leaves the others as they are.
LEMMA OthersSame ==
  ASSUME TypeOK, NEW r \in Requests, NEW q \in Requests \ {r},
         Handler(r) \/ Database(r) \/ Operator(r) \/ \E c \in Charges : ProviderCharges(r, c)
  PROVE  SameAt(q)
<1> USE DEF TypeOK, SameAt, rowVars, instanceVars, handlerVars, providerVars
<1>1. ASSUME NEW i \in Instances, Arrive(r, i) PROVE SameAt(q)
  BY <1>1 DEF Arrive
<1>2. ASSUME NEW c \in AccountedCosts(r), Answer(r, c) PROVE SameAt(q)
  BY <1>2 DEF Answer
<1>3. ASSUME NEW c \in Charges, ProviderCharges(r, c) PROVE SameAt(q)
  BY <1>3 DEF ProviderCharges
<1>4. CASE Refuse(r)
  BY <1>4 DEF Refuse
<1>5. CASE ClientLeaves(r)
  BY <1>5 DEF ClientLeaves
<1>6. CASE Deadline(r)
  BY <1>6 DEF Deadline
<1>7. CASE Sign(r)
  BY <1>7 DEF Sign
<1>8. CASE Send(r)
  BY <1>8 DEF Send
<1>9. CASE ReceiveIdentity(r)
  BY <1>9 DEF ReceiveIdentity
<1>10. CASE Fail(r)
  BY <1>10 DEF Fail
<1>11. CASE Reserve(r)
  BY <1>11 DEF Reserve
<1>12. CASE MarkDispatched(r)
  BY <1>12 DEF MarkDispatched
<1>13. CASE LoseMark(r)
  BY <1>13 DEF LoseMark
<1>14. CASE NoteProviderRequestId(r)
  BY <1>14 DEF NoteProviderRequestId
<1>15. CASE LoseNote(r)
  BY <1>15 DEF LoseNote
<1>16. CASE Finish(r)
  BY <1>16 DEF Finish
<1>17. CASE LoseFinish(r)
  BY <1>17 DEF LoseFinish
<1>18. CASE RetainUnproven(r)
  BY <1>18 DEF RetainUnproven, RetainMaximum
<1>19. CASE ReadProof(r)
  BY <1>19 DEF ReadProof
<1>20. CASE Reconcile(r)
  BY <1>20 DEF Reconcile, RetainMaximum
<1>21. QED
  BY <1>1, <1>2, <1>3, <1>4, <1>5, <1>6, <1>7, <1>8, <1>9, <1>10, <1>11, <1>12, <1>13, <1>14, <1>15, <1>16, <1>17, <1>18, <1>19, <1>20
     DEF Handler, Database, Operator

\* A step of a request keeps that request's invariant.
LEMMA RequestKeeps ==
  ASSUME TypeOK, NEW r \in Requests, ReqInv(r),
         Handler(r) \/ Database(r) \/ Operator(r) \/ \E c \in Charges : ProviderCharges(r, c)
  PROVE  ReqInv(r)'
<1> USE DEF TypeOK, ReqInv, RowInv, LegacyInv, HandlerInv, OutcomeInv,
            rowVars, instanceVars, handlerVars, providerVars
<1>1. ASSUME NEW i \in Instances, Arrive(r, i) PROVE ReqInv(r)'
  BY <1>1 DEF Arrive
<1>2. ASSUME NEW c \in AccountedCosts(r), Answer(r, c) PROVE ReqInv(r)'
  BY <1>2, AmountTypes DEF Answer, AccountedCosts
<1>3. ASSUME NEW c \in Charges, ProviderCharges(r, c) PROVE ReqInv(r)'
  BY <1>3, AmountTypes DEF ProviderCharges
<1>4. CASE Refuse(r)
  BY <1>4 DEF Refuse
<1>5. CASE ClientLeaves(r)
  BY <1>5 DEF ClientLeaves
<1>6. CASE Deadline(r)
  BY <1>6 DEF Deadline, Timed
<1>7. CASE Sign(r)
  BY <1>7 DEF Sign, Dispatchable
<1>8. CASE Send(r)
  BY <1>8 DEF Send, Marked
<1>9. CASE ReceiveIdentity(r)
  BY <1>9 DEF ReceiveIdentity
<1>10. CASE Fail(r)
  BY <1>10 DEF Fail, FailVerdict
<1>11. CASE Reserve(r)
  BY <1>11 DEF Reserve
<1>12. CASE MarkDispatched(r)
  BY <1>12 DEF MarkDispatched, Dispatchable
<1>13. CASE LoseMark(r)
  BY <1>13 DEF LoseMark
<1>14. CASE NoteProviderRequestId(r)
  BY <1>14 DEF NoteProviderRequestId
<1>15. CASE LoseNote(r)
  BY <1>15 DEF LoseNote
<1>16. CASE Finish(r)
  BY <1>16 DEF Finish, Finishable
<1>17. CASE LoseFinish(r)
  BY <1>17 DEF LoseFinish
<1>18. CASE RetainUnproven(r)
  BY <1>18 DEF RetainUnproven, RetainMaximum
<1>19. CASE ReadProof(r)
  BY <1>19 DEF ReadProof
<1>20. CASE Reconcile(r)
  BY <1>20 DEF Reconcile, Reconcilable, RetainMaximum, Outstanding, Ledger!Outstanding
<1>21. QED
  BY <1>1, <1>2, <1>3, <1>4, <1>5, <1>6, <1>7, <1>8, <1>9, <1>10, <1>11, <1>12, <1>13, <1>14, <1>15, <1>16, <1>17, <1>18, <1>19, <1>20
     DEF Handler, Database, Operator

\* Recovery releases a row only with the proof that its handler cannot send.
LEMMA ProcessKeeps ==
  ASSUME TypeOK, NEW i \in Instances, Process(i), NEW q \in Requests, ReqInv(q)
  PROVE  ReqInv(q)'
<1>1. CASE Start(i) \/ Heartbeat(i) \/ GoSilent(i) \/ Shutdown(i) \/ Drained(i)
           \/ Exit(i) \/ SelectOrphans(i) \/ AbandonSweep(i)
  <2>1. SameAt(q)
    BY <1>1 DEF SameAt, Start, Heartbeat, GoSilent, Shutdown, Drained, Exit,
                SelectOrphans, AbandonSweep, rowVars, handlerVars, providerVars
  <2>2. QED
    BY <2>1, SameKeeps
<1>2. ASSUME NEW r \in Requests, RecoverOrphan(i, r) PROVE ReqInv(q)'
  <2>1. CASE q # r \/ ~JudgedAgain(r)
    <3>1. SameAt(q)
      BY <1>2, <2>1 DEF SameAt, RecoverOrphan, TypeOK, handlerVars, providerVars
    <3>2. QED
      BY <3>1, SameKeeps
  <2>2. CASE q = r /\ JudgedAgain(r)
    BY <1>2, <2>2 DEF RecoverOrphan, JudgedAgain, Orphan, Proven, TypeOK, ReqInv,
                      RowInv, LegacyInv, HandlerInv, OutcomeInv, handlerVars, providerVars
  <2>3. QED
    BY <2>1, <2>2
<1>3. QED
  BY <1>1, <1>2 DEF Process

LEMMA StepInv == IInv /\ [Next]_vars => IInv'
<1> SUFFICES ASSUME IInv, [Next]_vars PROVE IInv'
  OBVIOUS
<1>1. TypeOK /\ \A r \in Requests : ReqInv(r)
  BY DEF IInv
<1>2. ASSUME NEW r \in Requests,
             Handler(r) \/ Database(r) \/ Operator(r) \/ \E c \in Charges : ProviderCharges(r, c)
      PROVE  IInv'
  <2>1. TypeOK'
    BY <1>1, <1>2, RequestTypes
  <2>2. ASSUME NEW q \in Requests PROVE ReqInv(q)'
    <3>1. CASE q = r
      BY <1>1, <1>2, <3>1, RequestKeeps
    <3>2. CASE q # r
      <4>1. SameAt(q)
        BY <1>1, <1>2, <3>2, OthersSame
      <4>2. QED
        BY <1>1, <4>1, SameKeeps
    <3>3. QED
      BY <3>1, <3>2
  <2>3. QED
    BY <2>1, <2>2 DEF IInv
<1>3. ASSUME NEW i \in Instances, Process(i) PROVE IInv'
  <2>1. TypeOK'
    BY <1>1, <1>3, ProcessTypes
  <2>2. ASSUME NEW q \in Requests PROVE ReqInv(q)'
    BY <1>1, <1>3, ProcessKeeps
  <2>3. QED
    BY <2>1, <2>2 DEF IInv
<1>4. CASE UNCHANGED vars
  <2>1. TypeOK'
    BY <1>1, <1>4 DEF TypeOK, vars, rowVars, instanceVars, handlerVars, providerVars
  <2>2. ASSUME NEW q \in Requests PROVE ReqInv(q)'
    <3>1. SameAt(q)
      BY <1>4 DEF SameAt, vars, rowVars, handlerVars, providerVars
    <3>2. QED
      BY <1>1, <3>1, SameKeeps
  <2>3. QED
    BY <2>1, <2>2 DEF IInv
<1>5. QED
  BY <1>2, <1>3, <1>4 DEF Next

\* The invariant holds in every reachable state.
THEOREM Invariance == Spec => []IInv
<1>1. QED
  BY InitInv, StepInv, PTL DEF Spec

------------------------------------------------------------------------------
\* Type correctness of the whole lifecycle.
THEOREM Typing == Spec => []TypeOK
<1>1. IInv => TypeOK
  BY DEF IInv
<1>2. QED
  BY <1>1, Invariance, PTL

\* Recovery, a late marker and an abandoned handler never release a request
\* that reaches the provider, however many of each there are.
THEOREM ReleaseIsProven == Spec => []ReleasedNeverSent
<1>1. IInv => ReleasedNeverSent
  BY DEF IInv, ReqInv, RowInv, ReleasedNeverSent
<1>2. QED
  BY <1>1, Invariance, PTL

\* A tracked request leaves the gateway only with its marker committed.
THEOREM MarkerFirst == Spec => []SentWasMarked
<1>1. IInv => SentWasMarked
  BY DEF IInv, ReqInv, HandlerInv, SentWasMarked
<1>2. QED
  BY <1>1, Invariance, PTL

\* What the provider charges within the quote is debited at every moment.
THEOREM ChargesAreDebited == Spec => []DebitCoversCharge
<1>1. IInv => DebitCoversCharge
  <2> SUFFICES ASSUME IInv, NEW r \in Requests, charge[r] <= MaxAmount
               PROVE  charge[r] <= Ledger!Debit(r)
    BY DEF DebitCoversCharge, Ledger!Covered
  <2>1. TypeOK /\ RowInv(r)
    BY DEF IInv, ReqInv
  <2>2. charge[r] \in Nat /\ charged[r] \in 0..MaxAmount
    BY <2>1, AmountTypes
  <2>3. CASE state[r] \in Ledger!Outstanding
    BY <2>3 DEF Ledger!Debit
  <2>4. CASE state[r] = "settled"
    BY <2>1, <2>2, <2>4 DEF RowInv, Ledger!Debit, Ledger!Outstanding
  <2>5. CASE state[r] \in {"none", "released"}
    <3>1. charge[r] = 0
      BY <2>1, <2>5 DEF RowInv
    <3>2. Ledger!Debit(r) = 0
      BY <2>5 DEF Ledger!Debit, Ledger!Outstanding
    <3>3. QED
      BY <3>1, <3>2
  <2>6. QED
    BY <2>1, <2>3, <2>4, <2>5 DEF TypeOK, Ledger!RowStates, Ledger!Outstanding
<1>2. QED
  BY <1>1, Invariance, PTL

\* Evidence of a retained maximum is never contradicted by its row.
THEOREM EvidenceStands == Spec => []EvidenceHolds
<1>1. IInv => EvidenceHolds
  BY DEF IInv, ReqInv, RowInv, EvidenceHolds
<1>2. QED
  BY <1>1, Invariance, PTL

------------------------------------------------------------------------------
(* Every step of the gateway, the database, recovery and the operator is a    *)
(* step of the ledger's promise, or leaves the ledger alone.                  *)

LEMMA RequestRefines ==
  ASSUME IInv, NEW r \in Requests,
         Handler(r) \/ Database(r) \/ Operator(r) \/ \E c \in Charges : ProviderCharges(r, c)
  PROVE  Ledger!Next \/ UNCHANGED Ledger!ledgerVars
<1> USE DEF Ledger!ledgerVars, rowVars, providerVars
<1>0. TypeOK /\ ReqInv(r)
  BY DEF IInv
<1>1. CASE Reserve(r)
  <2>1. Ledger!Admit(r)
    BY <1>0, <1>1 DEF Reserve, Ledger!Admit, ReqInv, LegacyInv, HandlerInv
  <2>2. QED
    BY <2>1 DEF Ledger!Next
<1>2. CASE Send(r)
  <2>1. Ledger!Dispatch(r)
    BY <1>0, <1>2 DEF Send, Marked, Ledger!Dispatch, ReqInv, LegacyInv, HandlerInv
  <2>2. QED
    BY <2>1 DEF Ledger!Next
<1>3. ASSUME NEW c \in Charges, ProviderCharges(r, c)
      PROVE  Ledger!Next
  BY <1>3 DEF ProviderCharges, Ledger!Next, Ledger!Execute
<1>4. CASE Finish(r)
  <2>1. CASE ~Finishable(r)
    BY <1>4, <2>1 DEF Finish
  <2>2. CASE Finishable(r) /\ verdict[r] = "settled"
    <3>1. cost[r] \in 1..MaxAmount
      BY <1>0, <2>2, AmountTypes DEF ReqInv, OutcomeInv
    <3>2. Ledger!Settle(r, cost[r])
      BY <1>0, <1>4, <2>2, <3>1, AmountTypes
         DEF Finish, Finishable, ReqInv, OutcomeInv, Ledger!Settle
    <3>3. QED
      BY <3>1, <3>2 DEF Ledger!Next
  <2>3. CASE Finishable(r) /\ verdict[r] \in {"uncertain", "released"}
    <3>0. cost[r] = 0 /\ charged[r] = 0
      BY <1>0, <1>4, <2>3 DEF Finish, Finishable, ReqInv, RowInv, OutcomeInv, Ledger!Outstanding
    <3>1. charged' = charged
      <4>1. charged' = [charged EXCEPT ![r] = 0]
        BY <1>4, <2>3, <3>0 DEF Finish
      <4>2. charged \in [Requests -> 0..MaxAmount]
        BY <1>0 DEF TypeOK
      <4>3. QED
        BY <3>0, <4>1, <4>2
    <3>2. Ledger!Hold(r) \/ Ledger!Release(r)
      BY <1>0, <1>4, <2>3, <3>1
         DEF Finish, Finishable, ReqInv, OutcomeInv, Ledger!Hold, Ledger!Release
    <3>3. QED
      BY <3>2 DEF Ledger!Next
  <2>4. QED
    BY <1>0, <1>4, <2>1, <2>2, <2>3 DEF Finish, ReqInv, OutcomeInv, TypeOK
<1>5. ASSUME RetainMaximum(r), state[r] \in Outstanding
      PROVE  Ledger!Next
  <2>1. Ledger!Retain(r)
    BY <1>5 DEF RetainMaximum, Outstanding, Ledger!Retain
  <2>2. QED
    BY <2>1 DEF Ledger!Next
<1>6. CASE RetainUnproven(r)
  BY <1>5, <1>6 DEF RetainUnproven, Outstanding, Ledger!Outstanding
<1>7. CASE Reconcile(r)
  BY <1>5, <1>7 DEF Reconcile, Reconcilable
<1>8. CASE (\E i \in Instances : Arrive(r, i)) \/ \E c \in AccountedCosts(r) : Answer(r, c)
  BY <1>8 DEF Arrive, Answer
<1>9. CASE Refuse(r)
  BY <1>9 DEF Refuse
<1>10. CASE ClientLeaves(r)
  BY <1>10 DEF ClientLeaves
<1>11. CASE Deadline(r)
  BY <1>11 DEF Deadline
<1>12. CASE Sign(r)
  BY <1>12 DEF Sign
<1>13. CASE ReceiveIdentity(r)
  BY <1>13 DEF ReceiveIdentity
<1>14. CASE Fail(r)
  BY <1>14 DEF Fail
<1>15. CASE MarkDispatched(r)
  BY <1>15 DEF MarkDispatched
<1>16. CASE LoseMark(r)
  BY <1>16 DEF LoseMark
<1>17. CASE NoteProviderRequestId(r)
  BY <1>17 DEF NoteProviderRequestId
<1>18. CASE LoseNote(r)
  BY <1>18 DEF LoseNote
<1>19. CASE LoseFinish(r)
  BY <1>19 DEF LoseFinish
<1>20. CASE ReadProof(r)
  BY <1>20 DEF ReadProof
<1>21. QED
  BY <1>1, <1>2, <1>3, <1>4, <1>6, <1>7, <1>8, <1>9, <1>10, <1>11, <1>12, <1>13, <1>14, <1>15, <1>16, <1>17, <1>18, <1>19, <1>20
     DEF Handler, Database, Operator

LEMMA ProcessRefines ==
  ASSUME IInv, NEW i \in Instances, Process(i)
  PROVE  Ledger!Next \/ UNCHANGED Ledger!ledgerVars
<1> USE DEF Ledger!ledgerVars, rowVars, providerVars
<1>1. CASE Start(i) \/ Heartbeat(i) \/ GoSilent(i) \/ Shutdown(i) \/ Drained(i)
           \/ Exit(i) \/ SelectOrphans(i) \/ AbandonSweep(i)
  BY <1>1 DEF Start, Heartbeat, GoSilent, Shutdown, Drained, Exit, SelectOrphans,
              AbandonSweep
<1>2. ASSUME NEW r \in Requests, RecoverOrphan(i, r)
      PROVE  Ledger!Next \/ UNCHANGED Ledger!ledgerVars
  <2>1. CASE ~JudgedAgain(r)
    BY <1>2, <2>1 DEF RecoverOrphan
  <2>2. CASE JudgedAgain(r)
    <3>1. ReqInv(r)
      BY DEF IInv
    <3>2. Ledger!Hold(r) \/ Ledger!Release(r)
      BY <1>2, <2>2, <3>1 DEF RecoverOrphan, JudgedAgain, Orphan, Proven, ReqInv,
           LegacyInv, HandlerInv, Ledger!Hold, Ledger!Release
    <3>3. QED
      BY <3>2 DEF Ledger!Next
  <2>3. QED
    BY <2>1, <2>2
<1>3. QED
  BY <1>1, <1>2 DEF Process

\* The gateway implements the ledger's promise.
THEOREM LedgerRefined == Spec => LedgerSpec
<1>1. Init => Ledger!Init
  BY DEF Init
<1>2. IInv /\ [Next]_vars => [Ledger!Next]_(Ledger!ledgerVars)
  <2> SUFFICES ASSUME IInv, [Next]_vars
               PROVE  Ledger!Next \/ UNCHANGED Ledger!ledgerVars
    OBVIOUS
  <2>1. CASE UNCHANGED vars
    BY <2>1 DEF vars, rowVars, providerVars, Ledger!ledgerVars
  <2>2. QED
    BY <2>1, RequestRefines, ProcessRefines DEF Next
<1>3. QED
  BY <1>1, <1>2, Invariance, PTL DEF Spec, LedgerSpec, Ledger!Spec

\* A settled row keeps its amount: neither a handler that finishes late nor a
\* reconciliation that read the row before it was settled rewrites it.
THEOREM SettledAmountStands == Spec => SettledCostStands
<1>1. IInv /\ [Next]_vars =>
        [\A r \in Requests : state[r] = "settled" =>
            state'[r] = "settled" /\ charged'[r] = charged[r]]_vars
  <2> SUFFICES ASSUME IInv, [Next]_vars, NEW r \in Requests, state[r] = "settled"
               PROVE  state'[r] = "settled" /\ charged'[r] = charged[r]
    OBVIOUS
  <2>1. CASE UNCHANGED Ledger!ledgerVars
    BY <2>1 DEF Ledger!ledgerVars
  <2>2. CASE Ledger!Next
    BY <2>2 DEF Ledger!Next, Ledger!Admit, Ledger!Dispatch, Ledger!Execute,
       Ledger!Settle, Ledger!Hold, Ledger!Release, Ledger!Retain, Ledger!Outstanding,
       IInv, TypeOK
  <2>3. CASE UNCHANGED vars
    BY <2>3 DEF vars, rowVars
  <2>4. QED
    BY <2>1, <2>2, <2>3, RequestRefines, ProcessRefines DEF Next
<1>2. QED
  BY <1>1, Invariance, PTL DEF Spec, SettledCostStands

------------------------------------------------------------------------------
\* An instance that wrote stopped_at has finished its drain.
StoppedInv == \A i \in Instances : stopped[i] => process[i] \in {"stopping", "exited"}

LEMMA StoppedKept == TypeOK /\ StoppedInv /\ [Next]_vars => StoppedInv'
<1> SUFFICES ASSUME TypeOK, StoppedInv, [Next]_vars
             PROVE  StoppedInv'
  OBVIOUS
<1>1. CASE UNCHANGED <<stopped, process>>
  BY <1>1 DEF StoppedInv
<1>2. ASSUME NEW i \in Instances, Start(i) \/ Shutdown(i) \/ Exit(i) PROVE StoppedInv'
  BY <1>2 DEF Start, Shutdown, Exit, Alive, StoppedInv, TypeOK
<1>3. ASSUME NEW i \in Instances, Drained(i) PROVE StoppedInv'
  BY <1>3 DEF Drained, StoppedInv, TypeOK
<1>4. CASE UNCHANGED vars
  BY <1>1, <1>4 DEF vars, instanceVars
<1>5. ASSUME NEW i \in Instances, Process(i) PROVE StoppedInv'
  BY <1>1, <1>2, <1>3, <1>5
     DEF Process, Heartbeat, GoSilent, SelectOrphans, RecoverOrphan, AbandonSweep
<1>6. ASSUME NEW r \in Requests, Handler(r) PROVE StoppedInv'
  BY <1>1, <1>6
     DEF Handler, Arrive, Refuse, ClientLeaves, Deadline, Sign, Send, ReceiveIdentity,
         Answer, Fail, instanceVars
<1>7. ASSUME NEW r \in Requests, Database(r) \/ Operator(r) PROVE StoppedInv'
  BY <1>1, <1>7
     DEF Database, Operator, Reserve, MarkDispatched, LoseMark, NoteProviderRequestId,
         LoseNote, Finish, LoseFinish, RetainUnproven, RetainMaximum, ReadProof, Reconcile,
         instanceVars
<1>8. ASSUME NEW r \in Requests, NEW c \in Charges, ProviderCharges(r, c) PROVE StoppedInv'
  BY <1>1, <1>8 DEF ProviderCharges, instanceVars
<1>9. QED
  BY <1>4, <1>5, <1>6, <1>7, <1>8 DEF Next

\* A row of a process that runs and heartbeats is left to its own handler and to
\* the operator: the sweep of another gateway judges it again and finds it owned.
THEOREM RunningRowsStay == Spec => RunningRowsUntouched
<1>1. Init => StoppedInv
  BY DEF Init, StoppedInv
<1>2. Spec => []StoppedInv
  BY <1>1, StoppedKept, Typing, PTL DEF Spec
<1>3. ASSUME TypeOK, StoppedInv, [Next]_vars, NEW r \in Requests,
             state[r] = "reserved", state'[r] # "reserved", ~reconciled'[r],
             owner[r] \in Instances, process[owner[r]] = "up", ~silent[owner[r]]
      PROVE  pc[r] = "finishing"
  <2>1. state' # state /\ ~stopped[owner[r]]
    BY <1>3 DEF StoppedInv
  <2>2. ASSUME NEW i \in Instances, Process(i) PROVE FALSE
    <3>1. PICK q \in Requests : RecoverOrphan(i, q)
      BY <2>1, <2>2
         DEF Process, Start, Heartbeat, GoSilent, Shutdown, Drained, Exit, SelectOrphans,
             AbandonSweep, rowVars
    <3>2. CASE q = r
      BY <1>3, <2>1, <3>1, <3>2 DEF RecoverOrphan, JudgedAgain, Orphan
    <3>3. CASE q # r
      BY <1>3, <3>1, <3>3 DEF RecoverOrphan, TypeOK
    <3>4. QED
      BY <3>2, <3>3
  <2>3. ASSUME NEW q \in Requests, Handler(q) \/ Database(q) \/ Operator(q)
        PROVE  pc[r] = "finishing"
    <3>1. Reserve(q) \/ Finish(q) \/ (RetainMaximum(q) /\ q \in Requests)
      BY <2>1, <2>3
         DEF Handler, Database, Operator, Arrive, Refuse, ClientLeaves, Deadline, Sign,
             Send, ReceiveIdentity, Answer, Fail, LoseFinish, MarkDispatched, LoseMark,
             NoteProviderRequestId, LoseNote, RetainUnproven, ReadProof, Reconcile, rowVars
    <3>2. q = r
      BY <1>3, <3>1 DEF Reserve, Finish, RetainMaximum, TypeOK
    <3>3. ~Reserve(q) /\ ~RetainMaximum(q)
      BY <1>3, <3>2 DEF Reserve, RetainMaximum, TypeOK
    <3>4. QED
      BY <3>1, <3>2, <3>3 DEF Finish
  <2>4. ASSUME NEW q \in Requests, NEW c \in Charges, ProviderCharges(q, c) PROVE FALSE
    BY <2>1, <2>4 DEF ProviderCharges, rowVars
  <2>5. ~UNCHANGED vars
    BY <2>1 DEF vars, rowVars
  <2>6. QED
    BY <1>3, <2>2, <2>3, <2>4, <2>5 DEF Next
<1>4. ASSUME TypeOK, StoppedInv, [Next]_vars
      PROVE  \A r \in Requests :
               /\ state[r] = "reserved" /\ state'[r] # "reserved" /\ ~reconciled'[r]
               /\ owner[r] \in Instances /\ process[owner[r]] = "up"
               /\ ~silent[owner[r]]
               => pc[r] = "finishing"
  BY <1>3, <1>4
<1>5. QED
  BY <1>2, <1>4, Typing, PTL DEF Spec, RunningRowsUntouched

==============================================================================
