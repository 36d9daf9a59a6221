------------------------ MODULE ReservationLedgerProofs ------------------------
(* What the ledger's promise alone guarantees, for any number of rows, under  *)
(* the constants the lifecycle gives it.                                       *)
EXTENDS ReservationLedger, TLAPS

\* A row that was never inserted or was given back has not been sent, only a sent
\* request is charged, and a settled row stands at its maximum or above its charge.
RowInv(r) ==
  /\ state[r] \in {"none", "released"} => ~sent[r]
  /\ charge[r] # 0 => sent[r]
  /\ state[r] = "settled" => charged[r] = MaxAmount \/ charge[r] <= charged[r]
  /\ state[r] = "settled" /\ charged[r] # MaxAmount => charge[r] # 0

IInv == TypeOK /\ \A r \in Requests : RowInv(r)

USE DEF LedgerAssumption

LEMMA InitInv ==
  ASSUME LedgerAssumption
  PROVE  Init => IInv
  BY DEF Init, IInv, TypeOK, RowInv, RowStates

\* A step of one row keeps the types.
LEMMA StepTypes ==
  ASSUME LedgerAssumption, IInv, NEW r \in Requests,
         \/ Admit(r) \/ Dispatch(r) \/ Hold(r) \/ Release(r) \/ Retain(r)
         \/ \E c \in Charges : Execute(r, c)
         \/ \E cost \in 1..MaxAmount : Settle(r, cost)
  PROVE  TypeOK'
<1> USE DEF IInv, TypeOK, RowStates
<1>1. CASE Admit(r)
  BY <1>1 DEF Admit
<1>2. CASE Dispatch(r)
  BY <1>2 DEF Dispatch
<1>3. CASE Hold(r)
  BY <1>3 DEF Hold
<1>4. CASE Release(r)
  BY <1>4 DEF Release
<1>5. CASE Retain(r)
  BY <1>5 DEF Retain
<1>6. ASSUME NEW c \in Charges, Execute(r, c) PROVE TypeOK'
  BY <1>6 DEF Execute
<1>7. ASSUME NEW cost \in 1..MaxAmount, Settle(r, cost) PROVE TypeOK'
  BY <1>7 DEF Settle
<1>8. QED
  BY <1>1, <1>2, <1>3, <1>4, <1>5, <1>6, <1>7

\* A step of one row keeps the invariant of every row.
LEMMA StepRows ==
  ASSUME LedgerAssumption, IInv, NEW r \in Requests, NEW q \in Requests,
         \/ Admit(r) \/ Dispatch(r) \/ Hold(r) \/ Release(r) \/ Retain(r)
         \/ \E c \in Charges : Execute(r, c)
         \/ \E cost \in 1..MaxAmount : Settle(r, cost)
  PROVE  RowInv(q)'
<1>0. TypeOK /\ RowInv(q) /\ charge[q] \in Nat /\ charged[q] \in 0..MaxAmount
  <2>1. charge[q] \in {0} \union Charges /\ {0} \union Charges \subseteq Nat
    BY DEF IInv, TypeOK
  <2>2. QED
    BY <2>1 DEF IInv, TypeOK
<1> USE DEF RowInv, TypeOK
<1>1. CASE Admit(r)
  BY <1>0, <1>1 DEF Admit
<1>2. CASE Dispatch(r)
  BY <1>0, <1>2 DEF Dispatch
<1>3. CASE Hold(r)
  BY <1>0, <1>3 DEF Hold
<1>4. CASE Release(r)
  BY <1>0, <1>4 DEF Release
<1>5. CASE Retain(r)
  BY <1>0, <1>5 DEF Retain, Outstanding
<1>6. ASSUME NEW c \in Charges, Execute(r, c) PROVE RowInv(q)'
  BY <1>0, <1>6 DEF Execute
<1>7. ASSUME NEW cost \in 1..MaxAmount, Settle(r, cost) PROVE RowInv(q)'
  BY <1>0, <1>7 DEF Settle
<1>8. QED
  BY <1>1, <1>2, <1>3, <1>4, <1>5, <1>6, <1>7

LEMMA NextInv ==
  ASSUME LedgerAssumption
  PROVE  IInv /\ [Next]_ledgerVars => IInv'
<1> SUFFICES ASSUME IInv, [Next]_ledgerVars PROVE IInv'
  OBVIOUS
<1>1. CASE Next
  BY <1>1, StepTypes, StepRows DEF Next, IInv
<1>2. CASE UNCHANGED ledgerVars
  BY <1>2 DEF ledgerVars, IInv, TypeOK, RowInv
<1>3. QED
  BY <1>1, <1>2

\* The rows have their types in every behaviour the ledger allows.
THEOREM LedgerTyping ==
  ASSUME LedgerAssumption
  PROVE  Spec => []TypeOK
<1>1. IInv => TypeOK
  BY DEF IInv
<1>2. QED
  BY <1>1, InitInv, NextInv, PTL DEF Spec

\* Ambiguous spend, of the promise itself: a charge within the quoted maximum is
\* always covered by the debit of its row.
THEOREM LedgerCovers ==
  ASSUME LedgerAssumption
  PROVE  Spec => []Covered
<1>1. ASSUME IInv PROVE Covered
  <2> SUFFICES ASSUME NEW r \in Requests, charge[r] <= MaxAmount
               PROVE  charge[r] <= Debit(r)
    BY DEF Covered
  <2>1. charge[r] \in Nat /\ charged[r] \in 0..MaxAmount /\ state[r] \in RowStates
    <3>1. charge[r] \in {0} \union Charges /\ {0} \union Charges \subseteq Nat
      BY <1>1 DEF IInv, TypeOK
    <3>2. QED
      BY <1>1, <3>1 DEF IInv, TypeOK
  <2>2. RowInv(r)
    BY <1>1 DEF IInv
  <2>3. QED
    BY <2>1, <2>2 DEF RowInv, Debit, Outstanding, RowStates
<1>2. QED
  BY <1>1, InitInv, NextInv, PTL DEF Spec

\* A settled or released row is final, and an uncertain one only ever settles at
\* its maximum.
THEOREM FinalRowsStay ==
  ASSUME LedgerAssumption
  PROVE  Spec => FinalStays
<1> DEFINE Stays == \A r \in Requests :
       /\ state[r] \in {"settled", "released"} =>
            state'[r] = state[r] /\ charged'[r] = charged[r]
       /\ state[r] = "uncertain" =>
            \/ state'[r] = "uncertain"
            \/ state'[r] = "settled" /\ charged'[r] = MaxAmount
<1>1. ASSUME IInv, Next PROVE Stays
  <2> SUFFICES ASSUME NEW q \in Requests PROVE
       /\ state[q] \in {"settled", "released"} =>
            state'[q] = state[q] /\ charged'[q] = charged[q]
       /\ state[q] = "uncertain" =>
            \/ state'[q] = "uncertain"
            \/ state'[q] = "settled" /\ charged'[q] = MaxAmount
    OBVIOUS
  <2>1. PICK r \in Requests :
           \/ Admit(r) \/ Dispatch(r) \/ Hold(r) \/ Release(r) \/ Retain(r)
           \/ \E c \in Charges : Execute(r, c)
           \/ \E cost \in 1..MaxAmount : Settle(r, cost)
    BY <1>1 DEF Next
  <2>2. state \in [Requests -> RowStates] /\ charged \in [Requests -> 0..MaxAmount]
    BY <1>1 DEF IInv, TypeOK
  <2>3. QED
    BY <2>1, <2>2 DEF Admit, Dispatch, Hold, Release, Retain, Execute, Settle, Outstanding
<1>2. ASSUME UNCHANGED ledgerVars PROVE Stays
  BY <1>2 DEF ledgerVars
<1>3. IInv /\ [Next]_ledgerVars => [Stays]_ledgerVars
  BY <1>1, <1>2
<1>4. QED
  BY <1>3, InitInv, NextInv, PTL DEF Spec, FinalStays
================================================================================
