---------------------------- MODULE RelayrFunding -----------------------------
(* Multichain operations through Relayr (web/src/hooks/useReviewedRelayr.ts).  *)
(* A browser tab signs the destination calls of an operation, publishes them   *)
(* and pays Relayr once to have them executed; any tab may check the bundle.   *)
(* All that keeps an operation from being signed or paid twice is a row in the *)
(* browser's storage (web/src/lib/transaction-activity.ts), shared by the tabs *)
(* and surviving them; a tab's memory goes when it is closed.                  *)
(* The operations are of one account and one forwarder, so all of them claim   *)
(* the same nonce scope; an operation is authorized at most once here, a second *)
(* authorization of the same calls being one more operation.                   *)
EXTENDS Integers, FiniteSets

CONSTANTS
  Tabs,
  Operations,
  None,
  Locks,                \* the browser has navigator.locks
  Outcomes,             \* what becomes of a payment once it is mined
  MaxPayments           \* bound: payments sent

ASSUME FundingAssumption ==
  /\ IsFiniteSet(Operations) /\ None \notin Operations
  /\ Locks \in BOOLEAN
  /\ Outcomes \subseteq {"paid", "reverted"}
  /\ MaxPayments \in Nat

VARIABLES
  rows,                 \* the bundle's activity, by operation
  publications,         \* operations with a publication activity
  tabs,                 \* what a tab is doing and remembers
  payments,             \* funding transactions, by number
  nonces,               \* the nonce an operation was signed for and published
  executed              \* operations whose destination calls are done

vars == <<rows, publications, tabs, payments, nonces, executed>>

Payments == 1..MaxPayments
NoHash == 0
Unsigned == -1
Absent == [payment |-> "none", hash |-> NoHash, done |-> FALSE]
Closed == [pc |-> "idle", op |-> None, hash |-> NoHash, quotes |-> {},
           funded |-> {}, poll |-> None, seen |-> NoHash,
           nonce |-> Unsigned]

Init ==
  /\ rows = [o \in Operations |-> Absent]
  /\ publications = {}
  /\ tabs = [t \in Tabs |-> Closed]
  /\ payments = [m \in Payments |-> [op |-> None, state |-> "unsent"]]
  /\ nonces = [o \in Operations |-> Unsigned]
  /\ executed = {}

Stored(o) == rows[o] # Absent
Row(o, r) == rows' = [rows EXCEPT ![o] = r]
Update(o, r) == Row(o, IF Stored(o) THEN r ELSE Absent)

Step(t, pc, o) == [tabs[t] EXCEPT !.pc = pc, !.op = o]
Becomes(t, to) == tabs' = [tabs EXCEPT ![t] = to]
Stops(t) == Becomes(t, Step(t, "idle", None))

(******************************** Authorizing *********************************)
\* Mutant: a publication whose quote was lost is forgotten.
UnresolvedQuoted(o) == Stored(o) /\ ~ rows[o].done

Unresolved(o) == o \in publications \/ (Stored(o) /\ ~ rows[o].done)

\* requireUnfunded with the keys of an operation not yet quoted: every operation
\* shares the nonce scope.
Authorizable == \A o \in Operations : ~ Unresolved(o)

\* withAuthorizationLock: one authorization in a tab and, with locks, at all.
Authorizing(t) == tabs[t].pc \in {"sign", "post"}
MayAuthorize(t) ==
  /\ tabs[t].pc = "idle"
  /\ Locks => \A u \in Tabs : ~ Authorizing(u)

\* getRelayrTxQuote for an operation with a saved quote returns that quote.
ResumeQuote(t, o) ==
  /\ MayAuthorize(t)
  /\ rows[o].payment \in {"unfunded", "reverted"}
  /\ Becomes(t, [tabs[t] EXCEPT !.quotes = @ \union {o}])
  /\ UNCHANGED <<rows, publications, payments, nonces, executed>>

\* The forwarder's nonce: it counts the operations executed.
Nonce == Cardinality(executed)

\* Mutant: the intent is recorded before there is a signature.
StartSigningRecorded(t, o) ==
  /\ MayAuthorize(t)
  /\ Authorizable
  /\ nonces[o] = Unsigned
  /\ \A u \in Tabs : tabs[u].op # o
  /\ publications' = publications \union {o}
  /\ Becomes(t, [Step(t, "sign", o) EXCEPT !.nonce = Nonce])
  /\ UNCHANGED <<rows, payments, nonces, executed>>

StartSigning(t, o) ==
  /\ MayAuthorize(t)
  /\ Authorizable
  /\ nonces[o] = Unsigned
  /\ \A u \in Tabs : tabs[u].op # o
  /\ Becomes(t, [Step(t, "sign", o) EXCEPT !.nonce = Nonce])
  /\ UNCHANGED <<rows, publications, payments, nonces, executed>>

\* Signed: the storage is looked at again, the intent is kept, and the
\* signatures go out.
Publish(t) ==
  LET o == tabs[t].op
  IN  /\ tabs[t].pc = "sign"
      /\ Authorizable
      /\ publications' = publications \union {o}
      /\ nonces' = [nonces EXCEPT ![o] = tabs[t].nonce]
      /\ Becomes(t, [Step(t, "post", o) EXCEPT !.nonce = Unsigned])
      /\ UNCHANGED <<rows, payments, executed>>

\* Relayr's quote replaces the publication.
ReceiveQuote(t) ==
  LET o == tabs[t].op
  IN  /\ tabs[t].pc = "post"
      /\ Row(o, [payment |-> "unfunded", hash |-> NoHash, done |-> FALSE])
      /\ publications' = publications \ {o}
      /\ Becomes(t, [Step(t, "idle", None) EXCEPT !.quotes = @ \union {o}])
      /\ UNCHANGED <<payments, nonces, executed>>

\* A refusal, an account switch, a lost response.
GiveUpAuthorizing(t) ==
  /\ Authorizing(t)
  /\ Becomes(t, [Step(t, "idle", None) EXCEPT !.nonce = Unsigned])
  /\ UNCHANGED <<rows, publications, payments, nonces, executed>>

(*********************************** Paying ***********************************)
\* requireUnfunded for a quoted operation.
Unfunded(t, o) ==
  /\ o \notin tabs[t].funded
  /\ \A p \in Operations \ {o} : ~ Unresolved(p)
  /\ o \notin publications
  /\ Stored(o) => rows[o].payment \in {"unfunded", "reverted"}

Paying(t) == tabs[t].pc \in {"review", "wallet", "wait"}

StartPaying(t, o) ==
  /\ tabs[t].pc = "idle"
  /\ o \in tabs[t].quotes
  /\ Locks => \A u \in Tabs : ~ (Paying(u) /\ tabs[u].op = o)
  /\ Unfunded(t, o)
  /\ Becomes(t, Step(t, "review", o))
  /\ UNCHANGED <<rows, publications, payments, nonces, executed>>

\* The destination calls, run against the chain as it is, succeed.
Executable(o) == nonces[o] = Nonce

\* Mutant: the calls are not run again.
SubmitUntried(t) ==
  LET o == tabs[t].op
  IN  /\ tabs[t].pc = "review"
      /\ Unfunded(t, o)
      /\ Row(o, [rows[o] EXCEPT !.payment = "submitted"])
      /\ Becomes(t, Step(t, "wallet", o))
      /\ UNCHANGED <<publications, payments, nonces, executed>>

\* Reviewed: the calls are run again, the storage is looked at again, and the
\* payment is recorded before the wallet is asked.  A row that was there keeps
\* its hash.
Submit(t) ==
  LET o == tabs[t].op
  IN  /\ tabs[t].pc = "review"
      /\ Executable(o)
      /\ Unfunded(t, o)
      /\ Row(o, [rows[o] EXCEPT !.payment = "submitted"])
      /\ Becomes(t, Step(t, "wallet", o))
      /\ UNCHANGED <<publications, payments, nonces, executed>>

\* The wallet broadcasts payment m for o.
Broadcast(m, o) ==
  /\ payments[m].state = "unsent"
  /\ \A n \in Payments : n < m => payments[n].state # "unsent"
  /\ payments' = [payments EXCEPT ![m] = [op |-> o, state |-> "out"]]

Send(t, m) ==
  LET o == tabs[t].op
  IN  /\ tabs[t].pc = "wallet"
      /\ Broadcast(m, o)
      /\ Update(o, [rows[o] EXCEPT !.hash = m])
      /\ Becomes(t, [Step(t, "wait", o) EXCEPT !.hash = m,
                                               !.funded = @ \union {o}])
      /\ UNCHANGED <<publications, nonces, executed>>

\* The user declines in the wallet.
Decline(t) ==
  LET o == tabs[t].op
  IN  /\ tabs[t].pc = "wallet"
      /\ Update(o, [rows[o] EXCEPT !.payment = "unfunded"])
      /\ Stops(t)
      /\ UNCHANGED <<publications, payments, nonces, executed>>

\* Mutant: every error of the wallet counts as a refusal.
LoseWalletDeclined(t) ==
  LET o == tabs[t].op
  IN  /\ tabs[t].pc = "wallet"
      /\ \/ \E m \in Payments : Broadcast(m, o)
         \/ UNCHANGED payments
      /\ Update(o, [rows[o] EXCEPT !.payment = "unfunded"])
      /\ Stops(t)
      /\ UNCHANGED <<publications, nonces, executed>>

\* The wallet fails, having broadcast the payment or not.
LoseWallet(t) ==
  LET o == tabs[t].op
  IN  /\ tabs[t].pc = "wallet"
      /\ \/ \E m \in Payments : Broadcast(m, o)
         \/ UNCHANGED payments
      /\ Stops(t)
      /\ UNCHANGED <<rows, publications, nonces, executed>>

Verdict(h) == IF payments[h].state = "paid" THEN "confirmed" ELSE "reverted"

\* verifyPaymentReceipt, once hash h is mined.
Judge(o, h) == Update(o, [rows[o] EXCEPT !.payment = Verdict(h)])
Forget(t, o, h) == IF payments[h].state = "paid" THEN tabs[t].funded
                                                 ELSE tabs[t].funded \ {o}

Mined(h) == h # NoHash /\ payments[h].state \in {"paid", "reverted"}

Confirm(t) ==
  LET at == tabs[t]
  IN  /\ at.pc = "wait"
      /\ Mined(at.hash)
      /\ Judge(at.op, at.hash)
      /\ Becomes(t, [Step(t, "idle", None) EXCEPT !.hash = NoHash,
                       !.funded = Forget(t, at.op, at.hash)])
      /\ UNCHANGED <<publications, payments, nonces, executed>>

\* A check fails before the wallet is asked, or the receipt does not arrive.
GiveUpPaying(t) ==
  /\ tabs[t].pc \in {"review", "wait"}
  /\ Becomes(t, [Step(t, "idle", None) EXCEPT !.hash = NoHash])
  /\ UNCHANGED <<rows, publications, payments, nonces, executed>>

(********************************** Checking **********************************)
\* waitForRelayrBundle, resumed when a tab opens or asked for by the user, takes
\* the hash from the storage ...
StartCheck(t, o) ==
  /\ tabs[t].poll = None
  /\ rows[o].payment \in {"submitted", "confirmed"}
  /\ ~ rows[o].done
  /\ rows[o].hash # NoHash
  /\ Becomes(t, [tabs[t] EXCEPT !.poll = o, !.seen = rows[o].hash])
  /\ UNCHANGED <<rows, publications, payments, nonces, executed>>

StopsChecking(t) == [tabs[t] EXCEPT !.poll = None, !.seen = NoHash]

\* ... judges its receipt ...
CheckPayment(t) ==
  LET at == tabs[t]
  IN  /\ at.poll # None
      /\ Mined(at.seen)
      /\ Judge(at.poll, at.seen)
      /\ Becomes(t, IF payments[at.seen].state = "paid"
                      THEN [at EXCEPT !.seen = NoHash]
                      ELSE [StopsChecking(t) EXCEPT
                              !.funded = Forget(t, at.poll, at.seen)])
      /\ UNCHANGED <<publications, payments, nonces, executed>>

\* ... and, whatever Relayr reports, the receipts of the destination calls.
CheckBundle(t) ==
  LET at == tabs[t]
  IN  /\ at.poll # None
      /\ at.seen = NoHash
      /\ Update(at.poll, [rows[at.poll] EXCEPT !.done = at.poll \in executed])
      /\ Becomes(t, StopsChecking(t))
      /\ UNCHANGED <<publications, payments, nonces, executed>>

\* No answer; the next attempt reads the storage again.
GiveUpChecking(t) ==
  /\ tabs[t].poll # None
  /\ Becomes(t, StopsChecking(t))
  /\ UNCHANGED <<rows, publications, payments, nonces, executed>>

(*********************************** The rest *********************************)
\* Finished rows may be dismissed.
Dismiss(o) ==
  /\ rows[o].done
  /\ Row(o, Absent)
  /\ UNCHANGED <<publications, tabs, payments, nonces, executed>>

\* The tab is closed or reloaded; the wallet it asked may go on.
Close(t) ==
  /\ tabs[t] # Closed
  /\ \/ /\ tabs[t].pc = "wallet"
        /\ \E m \in Payments : Broadcast(m, tabs[t].op)
     \/ UNCHANGED payments
  /\ Becomes(t, Closed)
  /\ UNCHANGED <<rows, publications, nonces, executed>>

Mine(m, outcome) ==
  /\ payments[m].state = "out"
  /\ payments' = [payments EXCEPT ![m].state = outcome]
  /\ UNCHANGED <<rows, publications, tabs, nonces, executed>>

\* Relayr executes what has been paid for.
Execute(o) ==
  /\ Executable(o)
  /\ \E m \in Payments : payments[m] = [op |-> o, state |-> "paid"]
  /\ executed' = executed \union {o}
  /\ UNCHANGED <<rows, publications, tabs, payments, nonces>>

Next ==
  \/ \E t \in Tabs :
       \/ \E o \in Operations :
            ResumeQuote(t, o) \/ StartSigning(t, o) \/ StartPaying(t, o)
            \/ StartCheck(t, o)
       \/ Publish(t) \/ ReceiveQuote(t) \/ GiveUpAuthorizing(t)
       \/ Submit(t) \/ Decline(t) \/ LoseWallet(t) \/ Confirm(t) \/ GiveUpPaying(t)
       \/ \E m \in Payments : Send(t, m)
       \/ CheckPayment(t) \/ CheckBundle(t) \/ GiveUpChecking(t)
       \/ Close(t)
  \/ \E o \in Operations : Dismiss(o) \/ Execute(o)
  \/ \E m \in Payments, outcome \in Outcomes : Mine(m, outcome)

Spec == Init /\ [][Next]_vars

(********************************* Properties *********************************)
PaymentsOf(o) == {m \in Payments : payments[m].op = o}
Live(o) == {m \in PaymentsOf(o) : payments[m].state \in {"out", "paid"}}
NeverReverted(o) == \A m \in PaymentsOf(o) : payments[m].state # "reverted"

TypeOK ==
  /\ rows \in [Operations -> [payment : {"none", "unfunded", "submitted",
                                         "confirmed", "reverted"},
                              hash : 0..MaxPayments, done : BOOLEAN]]
  /\ nonces \in [Operations -> -1..Cardinality(Operations)]
  /\ \A o \in Operations : o \in publications \/ Stored(o) => nonces[o] # Unsigned
  /\ \A o \in executed : nonces[o] < Nonce

\* No two operations have signatures out that could still be executed: the
\* forwarder would take one of them and the other would be paid for in vain.
AuthorizedOnce == Cardinality({o \in Operations : Executable(o)}) <= 1

\* An operation none of whose payments has reverted is paid for once, with any
\* number of tabs, reloads and answers of the wallet that are lost.
PaidOnce == \A o \in Operations : NeverReverted(o) => Cardinality(Live(o)) <= 1

\* What is paid for can be executed or has been.
PaidIsExecutable ==
  \A o \in Operations : Live(o) # {} => Executable(o) \/ o \in executed

\* web/test/reviewed-relayr-hooks.test.tsx:950 has uncertain funding retained
\* and duplicate funding blocked: at most one payment is out or paid, a retry
\* after a reverted one included.
FundedOnce == \A o \in Operations : Cardinality(Live(o)) <= 1
==============================================================================
