-------------------------------- MODULE Budget --------------------------------
(* What a daily budget promises the owner of a key and the project, however    *)
(* the ledger keeps its rows, epochs and retentions: a request takes its whole *)
(* maximum when it is admitted, and no more is admitted than the day has left; *)
(* only a request that finished normally gives any of it back; one whose       *)
(* outcome is unknown takes its maximum until the operator keeps it, and       *)
(* midnight gives back only what closed requests took.                         *)
(* CreditLedger is shown to implement this specification.                      *)
EXTENDS Integers, FiniteSets, FiniteSetsExt

CONSTANTS Requests, KeyOf, MaxAmount, KeyLimit, DayLimit, MaxConcurrency

VARIABLES phase,     \* new, running, held with an unknown outcome, or closed
          takes      \* what each request takes of the present day

vars == <<phase, takes>>

Open == {"running", "held"}
Taken(rows) == SumFunctionOnSet(takes, rows)
SameKey(r) == {s \in Requests : KeyOf[s] = KeyOf[r]}
Running == {r \in Requests : phase[r] = "running"}

Init ==
  /\ phase = [r \in Requests |-> "new"]
  /\ takes = [r \in Requests |-> 0]

Admit(r) ==
  /\ phase[r] = "new"
  /\ Taken(SameKey(r)) + MaxAmount <= KeyLimit[KeyOf[r]]
  /\ Taken(Requests) + MaxAmount <= DayLimit
  /\ Cardinality(Running) < MaxConcurrency
  /\ phase' = [phase EXCEPT ![r] = "running"]
  /\ takes' = [takes EXCEPT ![r] = MaxAmount]

Finish(r) ==
  /\ phase[r] = "running"
  /\ phase' = [phase EXCEPT ![r] = "closed"]
  /\ \E amount \in 0..takes[r] : takes' = [takes EXCEPT ![r] = amount]

Hold(r) ==
  /\ phase[r] = "running"
  /\ phase' = [phase EXCEPT ![r] = "held"]
  /\ UNCHANGED takes

Keep(r) ==
  /\ phase[r] \in Open
  /\ phase' = [phase EXCEPT ![r] = "closed"]
  /\ UNCHANGED takes

Midnight ==
  /\ takes' = [r \in Requests |-> IF phase[r] \in Open THEN takes[r] ELSE 0]
  /\ UNCHANGED phase

Next ==
  \/ Midnight
  \/ \E r \in Requests : Admit(r) \/ Finish(r) \/ Hold(r) \/ Keep(r)

Spec == Init /\ [][Next]_vars
==============================================================================
