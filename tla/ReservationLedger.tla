-------------------------- MODULE ReservationLedger --------------------------
(***************************************************************************)
(* What the usage ledger promises about one inference request, whoever     *)
(* writes it: gateway processes, their crash recovery, the operator.  The  *)
(* table of states is the one of schema.sql; the promise is the request    *)
(* lifecycle of docs/resilience.md and the "Ambiguous spend" and "Request  *)
(* lifecycle" rows of INVARIANTS.md.                                       *)
(*                                                                         *)
(*   state    the row's state, "none" before it is inserted                *)
(*   charged  charged_microusd of a settled row, 0 for every other row     *)
(*   sent     the provider request has left a gateway                      *)
(*   charge   what the provider meters for it, 0 until it has executed     *)
(***************************************************************************)
EXTENDS Naturals

CONSTANTS Requests,     \* the requests of one project
          Legacy,       \* those whose row predates instance tracking
          MaxAmount,    \* maximum_microusd of a row
          Charges       \* what the provider may charge for a request

LedgerAssumption == /\ Legacy \subseteq Requests
                    /\ MaxAmount \in Nat \ {0}
                    /\ Charges \subseteq Nat \ {0}

VARIABLES state, charged, sent, charge

ledgerVars == <<state, charged, sent, charge>>

RowStates == {"none", "reserved", "settled", "uncertain", "released"}
Outstanding == {"reserved", "uncertain"}

\* The debit of a row: the whole maximum while the spend is open.
Debit(r) == IF state[r] \in Outstanding THEN MaxAmount
            ELSE IF state[r] = "settled" THEN charged[r] ELSE 0

Init == /\ state = [r \in Requests |-> IF r \in Legacy THEN "reserved" ELSE "none"]
        /\ charged = [r \in Requests |-> 0]
        /\ sent \in [Requests -> BOOLEAN]
        /\ \A r \in Requests \ Legacy : ~sent[r]
        /\ charge = [r \in Requests |-> 0]

Admit(r) == /\ state[r] = "none"
            /\ state' = [state EXCEPT ![r] = "reserved"]
            /\ UNCHANGED <<charged, sent, charge>>

\* A request leaves at most once, and never after its row was released.
Dispatch(r) == /\ ~sent[r]
               /\ state[r] \notin {"none", "released"}
               /\ sent' = [sent EXCEPT ![r] = TRUE]
               /\ UNCHANGED <<state, charged, charge>>

Execute(r, c) == /\ sent[r] /\ charge[r] = 0
                 /\ charge' = [charge EXCEPT ![r] = c]
                 /\ UNCHANGED <<state, charged, sent>>

\* Settling below the maximum needs the final usage of an executed request.
Settle(r, cost) == /\ state[r] = "reserved"
                   /\ charge[r] # 0 /\ cost >= charge[r] /\ cost <= MaxAmount
                   /\ state' = [state EXCEPT ![r] = "settled"]
                   /\ charged' = [charged EXCEPT ![r] = cost]
                   /\ UNCHANGED <<sent, charge>>

Hold(r) == /\ state[r] = "reserved"
           /\ state' = [state EXCEPT ![r] = "uncertain"]
           /\ UNCHANGED <<charged, sent, charge>>

\* Only what provably never left may be given back.
Release(r) == /\ state[r] = "reserved" /\ ~sent[r]
              /\ state' = [state EXCEPT ![r] = "released"]
              /\ UNCHANGED <<charged, sent, charge>>

\* The operator keeps the whole maximum; nothing is ever refunded.
Retain(r) == /\ state[r] \in Outstanding
             /\ state' = [state EXCEPT ![r] = "settled"]
             /\ charged' = [charged EXCEPT ![r] = MaxAmount]
             /\ UNCHANGED <<sent, charge>>

Next == \E r \in Requests :
           \/ Admit(r) \/ Dispatch(r) \/ Hold(r) \/ Release(r) \/ Retain(r)
           \/ \E c \in Charges : Execute(r, c)
           \/ \E cost \in 1..MaxAmount : Settle(r, cost)

Spec == Init /\ [][Next]_ledgerVars

TypeOK == /\ state \in [Requests -> RowStates]
          /\ charged \in [Requests -> 0..MaxAmount]
          /\ sent \in [Requests -> BOOLEAN]
          /\ charge \in [Requests -> {0} \union Charges]

------------------------------------------------------------------------------
\* Whatever the provider takes within the quoted maximum is covered by the row's
\* debit (a charge above it is the bound violation of reconcile.mjs).
Covered == \A r \in Requests : charge[r] <= MaxAmount => charge[r] <= Debit(r)

\* Once final, a row stays as it is; an uncertain row only ever settles at the
\* maximum.
FinalStays ==
  [][\A r \in Requests :
       /\ state[r] \in {"settled", "released"} =>
            state'[r] = state[r] /\ charged'[r] = charged[r]
       /\ state[r] = "uncertain" =>
            \/ state'[r] = "uncertain"
            \/ state'[r] = "settled" /\ charged'[r] = MaxAmount]_ledgerVars
==============================================================================
