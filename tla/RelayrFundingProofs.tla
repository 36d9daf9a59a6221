-------------------------- MODULE RelayrFundingProofs --------------------------
(* For any number of tabs, operations and payments, with or without locks: one *)
(* set of signatures is executable at a time, an operation is paid for once    *)
(* unless a payment reverts, and only what can be executed is paid for.        *)
EXTENDS RelayrFunding, FiniteSetTheorems, TLAPS

USE FundingAssumption DEF FundingAssumption

Maybe(S) == S \union {None}
Hashes == 0..MaxPayments
RowType == [payment : {"none", "unfunded", "submitted", "confirmed", "reverted"},
            hash : Hashes, done : BOOLEAN]
TabType == [pc : {"idle", "sign", "post", "review", "wallet", "wait"},
            op : Maybe(Operations), hash : Hashes,
            quotes : SUBSET Operations, funded : SUBSET Operations,
            poll : Maybe(Operations), seen : Hashes, nonce : Int]
PaymentType == [op : Maybe(Operations), state : {"unsent", "out", "paid", "reverted"}]

Types ==
  /\ rows \in [Operations -> RowType]
  /\ publications \subseteq Operations
  /\ tabs \in [Tabs -> TabType]
  /\ payments \in [Payments -> PaymentType]
  /\ \A m \in Payments : payments[m].state = "unsent" <=> payments[m].op = None
  /\ nonces \in [Operations -> Int]
  /\ executed \subseteq Operations

\* What is quoted is in the storage until it is done; what the wallet was asked to
\* pay can be executed, or has been.
Known(o) == Stored(o) \/ o \in executed
Sure(o) == Executable(o) \/ o \in executed

TabGood(x) ==
  /\ x.pc = "sign" => /\ x.op \in Operations /\ nonces[x.op] = Unsigned
                      /\ x.nonce >= 0 /\ x.nonce <= Nonce
  /\ x.pc = "post" => /\ x.op \in Operations /\ nonces[x.op] # Unsigned
                      /\ rows[x.op] = Absent /\ x.op \notin executed
  /\ x.pc \in {"review", "wallet", "wait"} => x.op \in x.quotes
  /\ x.pc = "wallet" => Sure(x.op)
  /\ x.pc = "wait" => x.hash \in Payments /\ payments[x.hash].op = x.op
  /\ \A q \in x.quotes : Known(q)
  /\ x.poll # None /\ x.seen # NoHash => payments[x.seen].op = x.poll

Authorizer(x) == x.pc \in {"sign", "post"}
Sole ==
  \A t, u \in Tabs : Authorizer(tabs[t]) /\ Authorizer(tabs[u])
                     /\ tabs[t].op = tabs[u].op => t = u

OpInv(o) ==
  /\ Stored(o) => rows[o].payment # "none"
  /\ rows[o].done => o \in executed
  /\ rows[o].hash # NoHash => payments[rows[o].hash].op = o
  /\ Stored(o) \/ o \in publications => nonces[o] # Unsigned
  /\ nonces[o] >= Unsigned /\ nonces[o] <= Nonce
  /\ o \in executed => /\ nonces[o] >= 0 /\ nonces[o] < Nonce
                       /\ \E m \in Payments : payments[m].op = o
  /\ nonces[o] # Unsigned /\ o \notin executed => Unresolved(o)
  /\ \A m \in Payments : payments[m].op = o => Known(o) /\ Sure(o)

SoleExecutable == \A o, p \in Operations : Executable(o) /\ Executable(p) => o = p

InWallet(t, o) == tabs[t].pc = "wallet" /\ tabs[t].op = o

\* While no payment of o has reverted: one payment, behind a row that says so, or
\* one wallet asked.
OnceInv(o) ==
  NeverReverted(o) =>
    /\ \A m, n \in Payments : payments[m].op = o /\ payments[n].op = o => m = n
    /\ \A m \in Payments : payments[m].op = o =>
         o \in executed \/ rows[o].payment \in {"submitted", "confirmed"}
    /\ \A t \in Tabs : InWallet(t, o) =>
         /\ rows[o].payment = "submitted"
         /\ \A m \in Payments : payments[m].op # o
    /\ \A t, u \in Tabs : InWallet(t, o) /\ InWallet(u, o) => t = u

IInv ==
  /\ Types
  /\ \A t \in Tabs : TabGood(tabs[t])
  /\ Sole
  /\ \A o \in Operations : OpInv(o) /\ OnceInv(o)
  /\ SoleExecutable

LEMMA NonceType ==
  ASSUME executed \subseteq Operations
  PROVE  Nonce \in Nat /\ Nonce <= Cardinality(Operations) /\ IsFiniteSet(executed)
         /\ Cardinality(Operations) \in Nat
<1>1. IsFiniteSet(executed) /\ Nonce <= Cardinality(Operations)
  BY FS_Subset DEF Nonce
<1>2. Nonce \in Nat /\ Cardinality(Operations) \in Nat
  BY <1>1, FS_CardinalityType DEF Nonce
<1>3. QED BY <1>1, <1>2

\* A set whose members are all the same has at most one.
LEMMA AtMostOne ==
  ASSUME NEW S, \A x, y \in S : x = y
  PROVE  Cardinality(S) <= 1
<1>1. CASE S = {}
  BY <1>1, FS_EmptySet
<1>2. CASE S # {}
  <2>1. PICK x \in S : TRUE
    BY <1>2
  <2>2. S = {x}
    BY <2>1
  <2>3. Cardinality({x}) = 1
    BY FS_Singleton
  <2>4. QED BY <2>2, <2>3
<1>3. QED BY <1>1, <1>2

\* What the invariant says at once.
LEMMA IInvIsEnough ==
  IInv => TypeOK /\ AuthorizedOnce /\ PaidOnce /\ PaidIsExecutable
<1> SUFFICES ASSUME IInv PROVE TypeOK /\ AuthorizedOnce /\ PaidOnce /\ PaidIsExecutable
  OBVIOUS
<1>0. /\ executed \subseteq Operations /\ payments \in [Payments -> PaymentType]
      /\ rows \in [Operations -> RowType] /\ nonces \in [Operations -> Int]
      /\ Nonce \in Nat /\ Nonce <= Cardinality(Operations) /\ Cardinality(Operations) \in Nat
      /\ \A m \in Payments : payments[m].op # None => payments[m].state # "unsent"
      /\ \A o \in Operations : OpInv(o) /\ OnceInv(o)
  BY NonceType DEF IInv, Types
<1>1. TypeOK
  <2>1. rows \in [Operations -> [payment : {"none", "unfunded", "submitted",
                                            "confirmed", "reverted"},
                                 hash : 0..MaxPayments, done : BOOLEAN]]
    BY <1>0, Zenon DEF RowType, Hashes
  <2>2. nonces \in [Operations -> -1..Cardinality(Operations)]
    BY <1>0 DEF OpInv, Unsigned
  <2>3. \A o \in Operations : o \in publications \/ Stored(o) => nonces[o] # Unsigned
    BY <1>0 DEF OpInv
  <2>4. \A o \in executed : nonces[o] < Nonce
    BY <1>0 DEF OpInv
  <2>5. QED BY <2>1, <2>2, <2>3, <2>4 DEF TypeOK
<1>2. AuthorizedOnce
  <2> DEFINE S == {o \in Operations : Executable(o)}
  <2>1. \A x, y \in S : x = y
    BY DEF IInv, SoleExecutable
  <2>2. Cardinality(S) <= 1
    <3> HIDE DEF S
    <3>1. QED BY <2>1, AtMostOne
  <2>3. QED BY <2>2 DEF AuthorizedOnce
<1>3. PaidOnce
  <2> SUFFICES ASSUME NEW o \in Operations, NeverReverted(o)
               PROVE  Cardinality(Live(o)) <= 1
    BY DEF PaidOnce
  <2>1. \A x, y \in Live(o) : x = y
    BY <1>0 DEF OnceInv, Live, PaymentsOf
  <2>2. QED BY <2>1, AtMostOne
<1>4. PaidIsExecutable
  BY <1>0 DEF PaidIsExecutable, OpInv, Live, PaymentsOf, Sure
<1>5. QED BY <1>1, <1>2, <1>3, <1>4

LEMMA InitIInv == Init => IInv
<1> SUFFICES ASSUME Init PROVE IInv
  OBVIOUS
<1>0. 0 \in Hashes /\ NoHash \in Hashes /\ NoHash = 0 /\ Unsigned = -1
  BY DEF Hashes, NoHash, Unsigned
<1>1. Types
  <2>1. Absent \in RowType
    BY <1>0, Zenon DEF Absent, RowType
  <2>2. Closed \in TabType
    BY <1>0 DEF Closed, TabType, Maybe
  <2>3. payments \in [Payments -> PaymentType]
        /\ \A m \in Payments : payments[m].state = "unsent" /\ payments[m].op = None
    BY DEF Init, PaymentType, Maybe
  <2>4. QED BY <1>0, <2>1, <2>2, <2>3 DEF Init, Types
<1>2. ASSUME NEW t \in Tabs PROVE TabGood(tabs[t]) /\ tabs[t].pc = "idle"
  <2>1. tabs[t] = Closed
    BY DEF Init
  <2>2. QED BY <2>1 DEF TabGood, Closed
<1>3. Sole
  BY <1>2 DEF Sole, Authorizer
<1>4. ASSUME NEW o \in Operations PROVE OpInv(o) /\ OnceInv(o)
  <2>1. /\ rows[o] = Absent /\ nonces[o] = -1 /\ o \notin publications /\ o \notin executed
        /\ \A m \in Payments : payments[m].op # o
    BY DEF Init, Unsigned
  <2>2. ~ Absent.done /\ Absent.hash = NoHash
    BY DEF Absent
  <2>3. Nonce \in Nat
    BY NonceType DEF Init
  <2>4. OpInv(o)
    BY <1>0, <2>1, <2>2, <2>3 DEF OpInv, Stored
  <2>5. OnceInv(o)
    BY <1>2, <2>1 DEF OnceInv, InWallet
  <2>6. QED BY <2>4, <2>5
<1>5. SoleExecutable
  <2>1. Nonce \in Nat
    BY NonceType DEF Init
  <2>2. QED BY <1>0, <2>1 DEF Init, SoleExecutable, Executable
<1>6. QED BY <1>1, <1>2, <1>3, <1>4, <1>5 DEF IInv

(*********************************** Frames ***********************************)
\* What every step leaves in place: an executed operation, a payment, what is
\* known of an operation and what the wallet may be asked for.
Forward ==
  /\ \A o \in Operations : (Known(o) => Known(o)') /\ (Sure(o) => Sure(o)')
  /\ \A m \in Payments : payments[m].op # None => payments'[m].op = payments[m].op
  /\ Nonce' \in Nat /\ Nonce <= Nonce'

\* A tab the step leaves alone stays good, if the step leaves the operation it is
\* authorizing alone.
LEMMA TabStays ==
  ASSUME Types, Types', Forward, NEW x \in TabType, TabGood(x),
         x.pc = "sign" => nonces'[x.op] = nonces[x.op],
         x.pc = "post" => nonces'[x.op] # Unsigned /\ rows'[x.op] = Absent
                          /\ x.op \notin executed'
  PROVE  TabGood(x)'
<1>0. /\ x.op \in Maybe(Operations) /\ x.hash \in Hashes /\ x.seen \in Hashes
      /\ x.nonce \in Int /\ x.quotes \subseteq Operations /\ x.poll \in Maybe(Operations)
  BY DEF TabType
<1>1. Nonce \in Nat /\ Nonce' \in Nat /\ Nonce <= Nonce'
  BY NonceType DEF Types, Forward
<1>2. x.seen # NoHash => x.seen \in Payments
  BY <1>0 DEF Hashes, Payments, NoHash
<1>3. \A q \in x.quotes : Known(q)'
  BY <1>0 DEF TabGood, Forward
<1>4. x.pc = "sign" => (x.op \in Operations /\ nonces[x.op] = Unsigned
                        /\ x.nonce >= 0 /\ x.nonce <= Nonce)'
  BY <1>0, <1>1 DEF TabGood
<1>5. x.pc = "wallet" => Sure(x.op)'
  BY <1>0 DEF TabGood, Forward
<1>6. x.pc = "wait" => x.hash \in Payments /\ payments'[x.hash].op = x.op
  BY <1>0 DEF TabGood, Forward, Maybe
<1>7. x.poll # None /\ x.seen # NoHash => payments'[x.seen].op = x.poll
  BY <1>2 DEF TabGood, Forward
<1>8. QED BY <1>3, <1>4, <1>5, <1>6, <1>7, Zenon DEF TabGood

\* A step of a tab that neither publishes, nor pays, nor executes.
LEMMA QuietStep ==
  ASSUME IInv, NEW t \in Tabs, NEW x \in TabType, tabs' = [tabs EXCEPT ![t] = x],
         UNCHANGED <<publications, payments, nonces, executed>>,
         rows' \in [Operations -> RowType],
         \A o \in Operations :
           /\ Stored(o)' <=> Stored(o)
           /\ Stored(o) => rows'[o].payment # "none"
           /\ rows'[o].done => o \in executed
           /\ rows'[o].hash # NoHash => payments[rows'[o].hash].op = o
           /\ OnceInv(o)',
         TabGood(x),
         Authorizer(x) => \A u \in Tabs : u # t /\ Authorizer(tabs[u]) => tabs[u].op # x.op
  PROVE  IInv'
<1>0. Types /\ Nonce \in Nat /\ Nonce' = Nonce
  BY NonceType DEF IInv, Types, Nonce
<1>1. Types'
  BY <1>0 DEF Types
<1>2. \A o \in Operations : /\ Known(o)' <=> Known(o)
                            /\ Sure(o)' <=> Sure(o)
                            /\ Executable(o)' <=> Executable(o)
  BY <1>0 DEF Known, Sure, Executable
<1>3. Forward
  BY <1>0, <1>2 DEF Forward
<1>4. \A u \in Tabs : tabs[u] \in TabType /\ TabGood(tabs[u])
  BY <1>0 DEF Types, IInv
<1>5. \A u \in Tabs : tabs'[u] = IF u = t THEN x ELSE tabs[u]
  BY <1>0 DEF Types
<1>6. ASSUME NEW y \in TabType, TabGood(y) PROVE TabGood(y)'
  <2>1. y.pc = "post" => nonces'[y.op] # Unsigned /\ rows'[y.op] = Absent
                         /\ y.op \notin executed'
    BY <1>6, <1>0 DEF TabGood, Stored
  <2>2. QED BY <1>0, <1>1, <1>3, <1>6, <2>1, TabStays
<1>7. \A u \in Tabs : TabGood(tabs[u])'
  <2> SUFFICES ASSUME NEW u \in Tabs PROVE TabGood(tabs[u])'
    OBVIOUS
  <2>1. PICK y : y = tabs'[u]
    OBVIOUS
  <2>2. y \in TabType /\ TabGood(y)
    BY <2>1, <1>4, <1>5
  <2>3. TabGood(y)'
    BY <2>2, <1>6
  <2>4. QED BY <2>1, <2>3 DEF TabGood
<1>8. Sole'
  <2> SUFFICES ASSUME NEW u \in Tabs, NEW v \in Tabs,
                      Authorizer(tabs'[u]), Authorizer(tabs'[v]),
                      tabs'[u].op = tabs'[v].op
               PROVE  u = v
    BY Zenon DEF Sole, Authorizer
  <2>1. CASE u = t \/ v = t
    BY <2>1, <1>5
  <2>2. CASE u # t /\ v # t
    BY <2>2, <1>5 DEF IInv, Sole
  <2>3. QED BY <2>1, <2>2
<1>9. \A o \in Operations : OpInv(o)'
  <2> SUFFICES ASSUME NEW o \in Operations PROVE OpInv(o)'
    OBVIOUS
  <2>1. OpInv(o)
    BY DEF IInv
  <2>2. Unresolved(o)' \/ nonces[o] = Unsigned \/ o \in executed
    BY <2>1 DEF OpInv, Unresolved
  <2>3. QED BY <2>1, <2>2, <1>0, <1>2 DEF OpInv
<1>10. SoleExecutable'
  BY <1>2 DEF IInv, SoleExecutable
<1>11. QED BY <1>1, <1>7, <1>8, <1>9, <1>10 DEF IInv

\* Payments are neither added, nor mined, nor asked for, and the rows of o say of
\* them what they said.
LEMMA OnceStays ==
  ASSUME IInv, NEW o \in Operations, UNCHANGED <<payments, executed>>,
         rows'[o].payment = rows[o].payment,
         \A t \in Tabs : InWallet(t, o)' => InWallet(t, o)
  PROVE  OnceInv(o)'
<1>1. OnceInv(o)
  BY DEF IInv
<1>2. NeverReverted(o)' => NeverReverted(o)
  BY DEF NeverReverted, PaymentsOf
<1>3. QED BY <1>1, <1>2 DEF OnceInv

\* One of the payments of o has reverted.
LEMMA OnceLost ==
  ASSUME NEW o \in Operations, NEW h \in Payments, payments' = payments,
         payments[h].op = o, payments[h].state = "reverted"
  PROVE  OnceInv(o)'
BY DEF OnceInv, NeverReverted, PaymentsOf

\* A step of a tab that changes nothing outside it and asks the wallet nothing.
LEMMA TabStep ==
  ASSUME IInv, NEW t \in Tabs, NEW x \in TabType, tabs' = [tabs EXCEPT ![t] = x],
         UNCHANGED <<rows, publications, payments, nonces, executed>>,
         TabGood(x), x.pc = "wallet" => tabs[t].pc = "wallet" /\ tabs[t].op = x.op,
         Authorizer(x) => \A u \in Tabs : u # t /\ Authorizer(tabs[u]) => tabs[u].op # x.op
  PROVE  IInv'
<1>1. \A u \in Tabs : tabs'[u] = IF u = t THEN x ELSE tabs[u]
  BY DEF IInv, Types
<1>2. \A o \in Operations, u \in Tabs : InWallet(u, o)' => InWallet(u, o)
  BY <1>1 DEF InWallet
<1>3. \A o \in Operations : OnceInv(o)'
  BY <1>2, OnceStays
<1>4. \A o \in Operations :
        /\ Stored(o)' <=> Stored(o)
        /\ Stored(o) => rows'[o].payment # "none"
        /\ rows'[o].done => o \in executed
        /\ rows'[o].hash # NoHash => payments[rows'[o].hash].op = o
  BY DEF IInv, OpInv, Stored
<1>5. rows' \in [Operations -> RowType]
  BY DEF IInv, Types
<1>6. QED BY <1>3, <1>4, <1>5, QuietStep

(********************************* Quiet steps ********************************)
\* What is known of a tab before its step.
LEMMA TabFacts ==
  ASSUME IInv, NEW t \in Tabs
  PROVE  /\ tabs[t] \in TabType /\ TabGood(tabs[t])
         /\ tabs \in [Tabs -> TabType] /\ Nonce \in Nat
         /\ 0 \in Hashes /\ NoHash = 0 /\ Unsigned \in Int
         /\ \A o \in Operations : rows[o] \in RowType /\ OpInv(o) /\ OnceInv(o)
BY NonceType DEF IInv, Types, Hashes, NoHash, Unsigned

LEMMA QuietAuthorizing ==
  ASSUME IInv, NEW t \in Tabs, NEW o \in Operations,
         ResumeQuote(t, o) \/ StartSigning(t, o) \/ GiveUpAuthorizing(t)
  PROVE  IInv'
<1>0. /\ tabs[t] \in TabType /\ TabGood(tabs[t])
      /\ Nonce \in Nat /\ Unsigned \in Int
  BY TabFacts
<1>1. CASE ResumeQuote(t, o)
  <2>1. PICK x : x = [tabs[t] EXCEPT !.quotes = @ \union {o}]
    OBVIOUS
  <2>2. x \in TabType /\ tabs[t].pc = "idle" /\ x.pc = "idle"
    BY <1>0, <1>1, <2>1 DEF TabType, ResumeQuote, MayAuthorize
  <2>3. Stored(o)
    BY <1>1 DEF ResumeQuote, Stored, Absent
  <2>4. TabGood(x)
    BY <1>0, <2>1, <2>2, <2>3 DEF TabGood, TabType, Known
  <2>5. QED BY <1>1, <2>1, <2>2, <2>4, TabStep DEF ResumeQuote, Becomes, Authorizer
<1>2. CASE StartSigning(t, o)
  <2>1. PICK x : x = [Step(t, "sign", o) EXCEPT !.nonce = Nonce]
    OBVIOUS
  <2>a. PICK n : n = Nonce
    OBVIOUS
  <2>b. n \in Int /\ n >= 0 /\ n <= Nonce
    BY <1>0, <2>a
  <2>2. /\ x \in TabType /\ x.pc = "sign" /\ x.op = o /\ x.nonce = n
        /\ x.quotes = tabs[t].quotes /\ x.poll = tabs[t].poll /\ x.seen = tabs[t].seen
    BY <1>0, <2>1, <2>a, <2>b DEF TabType, Step, Maybe
  <2>3. TabGood(x)
    BY <1>0, <1>2, <2>b, <2>2 DEF TabGood, StartSigning
  <2>4. /\ tabs' = [tabs EXCEPT ![t] = x] /\ \A u \in Tabs : tabs[u].op # x.op
        /\ UNCHANGED <<rows, publications, payments, nonces, executed>>
    BY <1>2, <2>1, <2>2 DEF StartSigning, Becomes
  <2>5. QED BY <2>2, <2>3, <2>4, TabStep
<1>3. CASE GiveUpAuthorizing(t)
  <2>1. PICK x : x = [Step(t, "idle", None) EXCEPT !.nonce = Unsigned]
    OBVIOUS
  <2>2. x \in TabType /\ x.pc = "idle"
    BY <1>0, <2>1 DEF TabType, Step, Maybe
  <2>3. TabGood(x)
    BY <1>0, <2>1, <2>2 DEF TabGood, TabType, Step
  <2>4. QED BY <1>3, <2>1, <2>2, <2>3, TabStep DEF GiveUpAuthorizing, Becomes, Authorizer
<1>4. QED BY <1>1, <1>2, <1>3

LEMMA QuietPaying ==
  ASSUME IInv, NEW t \in Tabs, NEW o \in Operations,
         \/ StartPaying(t, o) \/ GiveUpPaying(t)
         \/ LoseWallet(t) /\ UNCHANGED payments
  PROVE  IInv'
<1>0. /\ tabs[t] \in TabType /\ TabGood(tabs[t])
      /\ 0 \in Hashes /\ NoHash = 0 /\ Unsigned \in Int
  BY TabFacts
<1>1. CASE StartPaying(t, o)
  <2>1. PICK x : x = Step(t, "review", o)
    OBVIOUS
  <2>2. x \in TabType /\ x.pc = "review"
    BY <1>0, <2>1 DEF TabType, Step, Maybe
  <2>3. TabGood(x)
    BY <1>0, <1>1, <2>1, <2>2 DEF TabGood, TabType, Step, StartPaying
  <2>4. QED BY <1>1, <2>1, <2>2, <2>3, TabStep DEF StartPaying, Becomes, Authorizer
<1>2. CASE GiveUpPaying(t)
  <2>1. PICK x : x = [Step(t, "idle", None) EXCEPT !.hash = NoHash]
    OBVIOUS
  <2>2. x \in TabType /\ x.pc = "idle"
    BY <1>0, <2>1 DEF TabType, Step, Maybe
  <2>3. TabGood(x)
    BY <1>0, <2>1, <2>2 DEF TabGood, TabType, Step
  <2>4. QED BY <1>2, <2>1, <2>2, <2>3, TabStep DEF GiveUpPaying, Becomes, Authorizer
<1>3. CASE LoseWallet(t) /\ UNCHANGED payments
  <2>1. PICK x : x = Step(t, "idle", None)
    OBVIOUS
  <2>2. x \in TabType /\ x.pc = "idle"
    BY <1>0, <2>1 DEF TabType, Step, Maybe
  <2>3. TabGood(x)
    BY <1>0, <2>1, <2>2 DEF TabGood, TabType, Step
  <2>4. QED BY <1>3, <2>1, <2>2, <2>3, TabStep DEF LoseWallet, Stops, Becomes, Authorizer
<1>4. QED BY <1>1, <1>2, <1>3

LEMMA QuietChecking ==
  ASSUME IInv, NEW t \in Tabs, NEW o \in Operations,
         StartCheck(t, o) \/ GiveUpChecking(t)
  PROVE  IInv'
<1>0. /\ tabs[t] \in TabType /\ TabGood(tabs[t])
      /\ 0 \in Hashes /\ NoHash = 0 /\ rows[o] \in RowType /\ OpInv(o)
  BY TabFacts
<1>a. Authorizer(tabs[t]) =>
        \A u \in Tabs : u # t /\ Authorizer(tabs[u]) => tabs[u].op # tabs[t].op
  BY DEF IInv, Sole
<1>b. rows[o].hash \in Hashes
  BY <1>0 DEF RowType
<1>1. CASE StartCheck(t, o)
  <2>1. PICK x : x = [tabs[t] EXCEPT !.poll = o, !.seen = rows[o].hash]
    OBVIOUS
  <2>2. x \in TabType /\ x.pc = tabs[t].pc /\ x.op = tabs[t].op /\ x.quotes = tabs[t].quotes
        /\ x.hash = tabs[t].hash /\ x.nonce = tabs[t].nonce
        /\ x.poll = o /\ x.seen = rows[o].hash
    BY <1>0, <1>b, <2>1 DEF TabType, Maybe
  <2>3. TabGood(x)
    BY <1>0, <2>2 DEF TabGood, OpInv
  <2>4. tabs' = [tabs EXCEPT ![t] = x]
        /\ UNCHANGED <<rows, publications, payments, nonces, executed>>
    BY <1>1, <2>1 DEF StartCheck, Becomes
  <2>5. Authorizer(x) =>
          \A u \in Tabs : u # t /\ Authorizer(tabs[u]) => tabs[u].op # x.op
    <3>1. Authorizer(x) <=> Authorizer(tabs[t])
      BY <2>2 DEF Authorizer
    <3>2. QED BY <1>a, <2>2, <3>1
  <2>6. x.pc = "wallet" => tabs[t].pc = "wallet" /\ tabs[t].op = x.op
    BY <2>2
  <2>7. QED BY <2>2, <2>3, <2>4, <2>5, <2>6, TabStep
<1>2. CASE GiveUpChecking(t)
  <2>1. PICK x : x = StopsChecking(t)
    OBVIOUS
  <2>2. x \in TabType /\ x.pc = tabs[t].pc /\ x.op = tabs[t].op /\ x.quotes = tabs[t].quotes
        /\ x.hash = tabs[t].hash /\ x.nonce = tabs[t].nonce /\ x.poll = None
    BY <1>0, <2>1 DEF TabType, Maybe, StopsChecking
  <2>3. TabGood(x)
    BY <1>0, <2>2 DEF TabGood
  <2>4. tabs' = [tabs EXCEPT ![t] = x]
        /\ UNCHANGED <<rows, publications, payments, nonces, executed>>
    BY <1>2, <2>1 DEF GiveUpChecking, Becomes
  <2>5. Authorizer(x) =>
          \A u \in Tabs : u # t /\ Authorizer(tabs[u]) => tabs[u].op # x.op
    <3>1. Authorizer(x) <=> Authorizer(tabs[t])
      BY <2>2 DEF Authorizer
    <3>2. QED BY <1>a, <2>2, <3>1
  <2>6. x.pc = "wallet" => tabs[t].pc = "wallet" /\ tabs[t].op = x.op
    BY <2>2
  <2>7. QED BY <2>2, <2>3, <2>4, <2>5, <2>6, TabStep
<1>3. QED BY <1>1, <1>2

(********************************* Row updates ********************************)
\* A step of a tab that rewrites the row of o.
LEMMA RowStep ==
  ASSUME IInv, NEW t \in Tabs, NEW x \in TabType, tabs' = [tabs EXCEPT ![t] = x],
         NEW o \in Operations, NEW r \in RowType, rows' = [rows EXCEPT ![o] = r],
         UNCHANGED <<publications, payments, nonces, executed>>,
         r # Absent <=> Stored(o), Stored(o) => r.payment # "none",
         r.done => o \in executed, r.hash # NoHash => payments[r.hash].op = o,
         OnceInv(o)', TabGood(x),
         x.pc = "wallet" => x.op = o \/ InWallet(t, x.op),
         Authorizer(x) => \A u \in Tabs : u # t /\ Authorizer(tabs[u]) => tabs[u].op # x.op
  PROVE  IInv'
<1>1. \A u \in Tabs : tabs'[u] = IF u = t THEN x ELSE tabs[u]
  BY DEF IInv, Types
<1>2. /\ rows' \in [Operations -> RowType]
      /\ \A p \in Operations : rows'[p] = IF p = o THEN r ELSE rows[p]
  BY DEF IInv, Types
<1>3. ASSUME NEW p \in Operations PROVE OnceInv(p)'
  <2>1. CASE p = o
    BY <2>1
  <2>2. CASE p # o
    <3>1. \A u \in Tabs : InWallet(u, p)' => InWallet(u, p)
      BY <1>1, <2>2 DEF InWallet
    <3>2. QED BY <1>2, <2>2, <3>1, OnceStays
  <2>3. QED BY <2>1, <2>2
<1>4. ASSUME NEW p \in Operations
      PROVE  /\ Stored(p)' <=> Stored(p)
             /\ Stored(p) => rows'[p].payment # "none"
             /\ rows'[p].done => p \in executed
             /\ rows'[p].hash # NoHash => payments[rows'[p].hash].op = p
  <2>1. CASE p = o
    BY <1>2, <2>1 DEF Stored
  <2>2. CASE p # o
    BY <1>2, <2>2 DEF IInv, OpInv, Stored
  <2>3. QED BY <2>1, <2>2
<1>5. QED BY <1>2, <1>3, <1>4, QuietStep

\* An update of a row: of one that is stored, or none.
Revised(o, p) == IF Stored(o) THEN [rows[o] EXCEPT !.payment = p] ELSE Absent

LEMMA Updated ==
  ASSUME NEW o \in Operations, rows[o] \in RowType, OpInv(o),
         NEW p \in {"unfunded", "submitted", "confirmed", "reverted"}, NEW r,
         r = Revised(o, p)
  PROVE  /\ r \in RowType /\ (r # Absent <=> Stored(o))
         /\ Stored(o) => r.payment = p
         /\ Stored(o) => r.payment # "none"
         /\ r.done => o \in executed
         /\ r.hash # NoHash => payments[r.hash].op = o
<1>1. CASE Stored(o)
  <2>1. r \in RowType /\ r.payment = p /\ r.hash = rows[o].hash
    BY <1>1, Zenon DEF RowType, Revised
  <2>2. r.done <=> rows[o].done
    BY <1>1, Zenon DEF RowType, Revised
  <2>3. r # Absent
    BY <2>1 DEF Absent
  <2>4. QED BY <1>1, <2>1, <2>2, <2>3 DEF OpInv
<1>2. CASE ~ Stored(o)
  <2>1. r = Absent /\ 0 \in Hashes
    BY <1>2 DEF Hashes, Revised
  <2>2. Absent \in RowType /\ ~ Absent.done /\ Absent.hash = NoHash
    BY <2>1, Zenon DEF Absent, NoHash, RowType
  <2>3. QED BY <1>2, <2>1, <2>2
<1>3. QED BY <1>1, <1>2

LEMMA SubmitKeeps == ASSUME IInv, NEW t \in Tabs, Submit(t) PROVE IInv'
<1>1. PICK o : o = tabs[t].op
  OBVIOUS
<1>2. /\ tabs[t] \in TabType /\ TabGood(tabs[t]) /\ tabs[t].pc = "review"
      /\ tabs \in [Tabs -> TabType]
  BY TabFacts DEF Submit
<1>3. o \in tabs[t].quotes /\ o \in Operations /\ Known(o)
  BY <1>1, <1>2 DEF TabGood, TabType
<1>4. /\ Executable(o) /\ Unfunded(t, o)
      /\ rows' = [rows EXCEPT ![o] = [rows[o] EXCEPT !.payment = "submitted"]]
      /\ tabs' = [tabs EXCEPT ![t] = Step(t, "wallet", o)]
      /\ UNCHANGED <<publications, payments, nonces, executed>>
  BY <1>1 DEF Submit, Row, Becomes
<1>5. rows[o] \in RowType /\ OpInv(o) /\ OnceInv(o) /\ Nonce \in Nat
  BY <1>3, TabFacts
<1>6. o \notin executed
  BY <1>4, <1>5 DEF OpInv, Executable
<1>7. Stored(o) /\ rows[o].payment \in {"unfunded", "reverted"}
  BY <1>3, <1>4, <1>6 DEF Known, Unfunded
<1>8. PICK r : r = [rows[o] EXCEPT !.payment = "submitted"]
  OBVIOUS
<1>9. /\ r \in RowType /\ r # Absent /\ r.payment = "submitted"
      /\ r.done => o \in executed
      /\ r.hash # NoHash => payments[r.hash].op = o
  <2>1. r = Revised(o, "submitted")
    BY <1>7, <1>8 DEF Revised
  <2>2. QED BY <1>3, <1>5, <1>7, <2>1, Updated
<1>10. PICK x : x = Step(t, "wallet", o)
  OBVIOUS
<1>11. x \in TabType /\ x.pc = "wallet" /\ x.op = o /\ x.quotes = tabs[t].quotes
       /\ x.poll = tabs[t].poll /\ x.seen = tabs[t].seen
  BY <1>2, <1>3, <1>10 DEF TabType, Step, Maybe
<1>12. TabGood(x)
  BY <1>2, <1>3, <1>4, <1>11 DEF TabGood, Sure
<1>13. /\ rows'[o] = r
       /\ \A u \in Tabs : tabs'[u] = IF u = t THEN x ELSE tabs[u]
  BY <1>2, <1>3, <1>4, <1>8, <1>10 DEF IInv, Types
<1>14. OnceInv(o)'
  <2>1. NeverReverted(o)' => NeverReverted(o)
    BY <1>4 DEF NeverReverted, PaymentsOf
  <2>2. NeverReverted(o) => /\ \A m \in Payments : payments[m].op # o
                            /\ \A u \in Tabs : ~ InWallet(u, o)
    BY <1>5, <1>6, <1>7 DEF OnceInv
  <2>3. NeverReverted(o) => \A u \in Tabs : InWallet(u, o)' => u = t
    BY <1>13, <2>2 DEF InWallet
  <2>4. QED BY <1>4, <1>9, <1>13, <2>1, <2>2, <2>3 DEF OnceInv
<1>15. rows' = [rows EXCEPT ![o] = r] /\ tabs' = [tabs EXCEPT ![t] = x]
  BY <1>4, <1>8, <1>10
<1>16. ~ Authorizer(x)
  BY <1>11 DEF Authorizer
<1>17. QED BY <1>3, <1>4, <1>7, <1>9, <1>11, <1>12, <1>14, <1>15, <1>16, RowStep

LEMMA DeclineKeeps == ASSUME IInv, NEW t \in Tabs, Decline(t) PROVE IInv'
<1>1. PICK o : o = tabs[t].op
  OBVIOUS
<1>2. /\ tabs[t] \in TabType /\ TabGood(tabs[t]) /\ tabs[t].pc = "wallet"
      /\ tabs \in [Tabs -> TabType]
  BY TabFacts DEF Decline
<1>3. o \in Operations /\ InWallet(t, o)
  BY <1>1, <1>2 DEF TabGood, TabType, InWallet
<1>4. PICK r : r = Revised(o, "unfunded")
  OBVIOUS
<1>5. PICK x : x = Step(t, "idle", None)
  OBVIOUS
<1>6. /\ rows' = [rows EXCEPT ![o] = r] /\ tabs' = [tabs EXCEPT ![t] = x]
      /\ UNCHANGED <<publications, payments, nonces, executed>>
  BY <1>1, <1>4, <1>5 DEF Decline, Row, Update, Revised, Becomes, Stops
<1>7. rows[o] \in RowType /\ OpInv(o) /\ OnceInv(o)
  BY <1>3, TabFacts
<1>8. /\ r \in RowType /\ (r # Absent <=> Stored(o))
      /\ Stored(o) => r.payment # "none"
      /\ r.done => o \in executed
      /\ r.hash # NoHash => payments[r.hash].op = o
  BY <1>3, <1>4, <1>7, Updated
<1>9. x \in TabType /\ x.pc = "idle" /\ x.quotes = tabs[t].quotes
      /\ x.poll = tabs[t].poll /\ x.seen = tabs[t].seen
  BY <1>2, <1>5 DEF TabType, Step, Maybe
<1>10. TabGood(x)
  BY <1>2, <1>9 DEF TabGood
<1>11. OnceInv(o)'
  <2>1. NeverReverted(o)' => NeverReverted(o)
    BY <1>6 DEF NeverReverted, PaymentsOf
  <2>2. NeverReverted(o) => /\ \A m \in Payments : payments[m].op # o
                            /\ \A u \in Tabs : InWallet(u, o) => u = t
    BY <1>3, <1>7 DEF OnceInv
  <2>3. NeverReverted(o) => \A u \in Tabs : ~ InWallet(u, o)'
    BY <1>2, <1>6, <1>9, <2>2 DEF InWallet
  <2>4. QED BY <1>6, <2>1, <2>2, <2>3 DEF OnceInv
<1>12. ~ Authorizer(x)
  BY <1>9 DEF Authorizer
<1>13. QED BY <1>3, <1>6, <1>8, <1>9, <1>10, <1>11, <1>12, RowStep

\* Judging a receipt of o says of its payments what is true.
LEMMA Judged ==
  ASSUME IInv, NEW o \in Operations, NEW h \in Payments, payments[h].op = o, Mined(h),
         rows'[o] = Revised(o, Verdict(h)), UNCHANGED <<payments, executed>>,
         \A u \in Tabs : InWallet(u, o)' => InWallet(u, o)
  PROVE  OnceInv(o)'
<1>0. rows[o] \in RowType /\ OpInv(o) /\ OnceInv(o)
  BY DEF IInv, Types
<1>1. CASE payments[h].state = "reverted"
  BY <1>1, OnceLost
<1>2. CASE payments[h].state = "paid"
  <2>1. Stored(o) \/ o \in executed
    BY <1>0 DEF OpInv, Known
  <2>2. Verdict(h) = "confirmed"
    BY <1>2 DEF Verdict
  <2>3. Stored(o) => rows'[o].payment = "confirmed"
    BY <1>0, <2>2, Updated
  <2>4. NeverReverted(o)' => NeverReverted(o)
    BY DEF NeverReverted, PaymentsOf
  <2>5. NeverReverted(o) => \A u \in Tabs : ~ InWallet(u, o)
    BY <1>0 DEF OnceInv
  <2>6. NeverReverted(o) =>
          \A m, n \in Payments : payments[m].op = o /\ payments[n].op = o => m = n
    BY <1>0 DEF OnceInv
  <2>7. QED BY <2>1, <2>3, <2>4, <2>5, <2>6 DEF OnceInv
<1>3. QED BY <1>1, <1>2 DEF Mined

LEMMA ConfirmKeeps == ASSUME IInv, NEW t \in Tabs, Confirm(t) PROVE IInv'
<1>1. PICK o, h : o = tabs[t].op /\ h = tabs[t].hash
  OBVIOUS
<1>2. /\ tabs[t] \in TabType /\ TabGood(tabs[t]) /\ tabs[t].pc = "wait"
      /\ tabs \in [Tabs -> TabType] /\ 0 \in Hashes /\ NoHash = 0
  BY TabFacts DEF Confirm
<1>3. o \in Operations /\ h \in Payments /\ payments[h].op = o /\ Mined(h)
  BY <1>1, <1>2 DEF TabGood, TabType, Confirm
<1>4. PICK r, x : /\ r = Revised(o, Verdict(h))
                  /\ x = [Step(t, "idle", None) EXCEPT !.hash = NoHash,
                            !.funded = Forget(t, o, h)]
  OBVIOUS
<1>5. /\ rows' = [rows EXCEPT ![o] = r] /\ tabs' = [tabs EXCEPT ![t] = x]
      /\ UNCHANGED <<publications, payments, nonces, executed>>
  BY <1>1, <1>4 DEF Confirm, Judge, Row, Update, Revised, Becomes
<1>6. rows[o] \in RowType /\ OpInv(o)
  BY <1>3, TabFacts
<1>7. Verdict(h) \in {"unfunded", "submitted", "confirmed", "reverted"}
  BY DEF Verdict
<1>8. /\ r \in RowType /\ (r # Absent <=> Stored(o))
      /\ Stored(o) => r.payment # "none"
      /\ r.done => o \in executed
      /\ r.hash # NoHash => payments[r.hash].op = o
  BY <1>3, <1>4, <1>6, <1>7, Updated
<1>9. Forget(t, o, h) \subseteq Operations
  BY <1>2 DEF Forget, TabType
<1>10. x \in TabType /\ x.pc = "idle" /\ x.quotes = tabs[t].quotes
       /\ x.poll = tabs[t].poll /\ x.seen = tabs[t].seen
  BY <1>2, <1>4, <1>9 DEF TabType, Step, Maybe
<1>11. TabGood(x)
  BY <1>2, <1>10 DEF TabGood
<1>12. \A u \in Tabs : InWallet(u, o)' => InWallet(u, o)
  BY <1>2, <1>5, <1>10 DEF InWallet
<1>13. rows'[o] = r
  BY <1>3, <1>5 DEF IInv, Types
<1>14. OnceInv(o)'
  BY <1>3, <1>4, <1>5, <1>12, <1>13, Judged
<1>15. ~ Authorizer(x)
  BY <1>10 DEF Authorizer
<1>16. QED BY <1>3, <1>5, <1>8, <1>10, <1>11, <1>14, <1>15, RowStep

LEMMA CheckPaymentKeeps == ASSUME IInv, NEW t \in Tabs, CheckPayment(t) PROVE IInv'
<1>1. PICK o, h : o = tabs[t].poll /\ h = tabs[t].seen
  OBVIOUS
<1>2. /\ tabs[t] \in TabType /\ TabGood(tabs[t]) /\ o # None /\ Mined(h)
      /\ tabs \in [Tabs -> TabType] /\ 0 \in Hashes /\ NoHash = 0
  BY <1>1, TabFacts DEF CheckPayment
<1>3. o \in Operations /\ h \in Payments /\ payments[h].op = o
  BY <1>1, <1>2 DEF TabGood, TabType, Mined, Maybe, Hashes, Payments
<1>4. PICK r, x : /\ r = Revised(o, Verdict(h))
                  /\ x = IF payments[h].state = "paid"
                           THEN [tabs[t] EXCEPT !.seen = NoHash]
                           ELSE [StopsChecking(t) EXCEPT !.funded = Forget(t, o, h)]
  OBVIOUS
<1>5. /\ rows' = [rows EXCEPT ![o] = r] /\ tabs' = [tabs EXCEPT ![t] = x]
      /\ UNCHANGED <<publications, payments, nonces, executed>>
  BY <1>1, <1>4 DEF CheckPayment, Judge, Row, Update, Revised, Becomes
<1>6. rows[o] \in RowType /\ OpInv(o)
  BY <1>3, TabFacts
<1>7. Verdict(h) \in {"unfunded", "submitted", "confirmed", "reverted"}
  BY DEF Verdict
<1>8. /\ r \in RowType /\ (r # Absent <=> Stored(o))
      /\ Stored(o) => r.payment # "none"
      /\ r.done => o \in executed
      /\ r.hash # NoHash => payments[r.hash].op = o
  BY <1>3, <1>4, <1>6, <1>7, Updated
<1>9. Forget(t, o, h) \subseteq Operations
  BY <1>2 DEF Forget, TabType
<1>10. x \in TabType /\ x.pc = tabs[t].pc /\ x.op = tabs[t].op
       /\ x.quotes = tabs[t].quotes /\ x.hash = tabs[t].hash /\ x.nonce = tabs[t].nonce
       /\ x.seen = NoHash
  BY <1>2, <1>4, <1>9 DEF TabType, StopsChecking, Maybe
<1>11. TabGood(x)
  BY <1>2, <1>10 DEF TabGood
<1>12. \A u \in Tabs : InWallet(u, o)' => InWallet(u, o)
  BY <1>2, <1>5, <1>10 DEF InWallet
<1>13. rows'[o] = r
  BY <1>3, <1>5 DEF IInv, Types
<1>14. OnceInv(o)'
  BY <1>2, <1>3, <1>4, <1>5, <1>12, <1>13, Judged
<1>15. x.pc = "wallet" => InWallet(t, x.op)
  BY <1>10 DEF InWallet
<1>16. Authorizer(x) => \A u \in Tabs : u # t /\ Authorizer(tabs[u]) => tabs[u].op # x.op
  BY <1>10 DEF Authorizer, IInv, Sole
<1>17. QED BY <1>3, <1>5, <1>8, <1>10, <1>11, <1>14, <1>15, <1>16, RowStep

LEMMA CheckBundleKeeps == ASSUME IInv, NEW t \in Tabs, CheckBundle(t) PROVE IInv'
<1>1. PICK o : o = tabs[t].poll
  OBVIOUS
<1>2. /\ tabs[t] \in TabType /\ TabGood(tabs[t]) /\ o # None
      /\ tabs \in [Tabs -> TabType] /\ 0 \in Hashes /\ NoHash = 0
  BY <1>1, TabFacts DEF CheckBundle
<1>3. o \in Operations
  BY <1>1, <1>2 DEF TabType, Maybe
<1>4. PICK r, x : /\ r = IF Stored(o) THEN [rows[o] EXCEPT !.done = o \in executed]
                                      ELSE Absent
                  /\ x = StopsChecking(t)
  OBVIOUS
<1>5. /\ rows' = [rows EXCEPT ![o] = r] /\ tabs' = [tabs EXCEPT ![t] = x]
      /\ UNCHANGED <<publications, payments, nonces, executed>>
  BY <1>1, <1>4 DEF CheckBundle, Row, Update, Becomes
<1>6. rows[o] \in RowType /\ OpInv(o)
  BY <1>3, TabFacts
<1>7. /\ r \in RowType /\ r.payment = rows[o].payment /\ r.hash = rows[o].hash
      /\ r.done => o \in executed
  <2>1. CASE Stored(o)
    <3>1. PICK b \in BOOLEAN : b <=> o \in executed
      OBVIOUS
    <3>2. r = [rows[o] EXCEPT !.done = o \in executed]
      BY <1>4, <2>1
    <3>3. (o \in executed) \in BOOLEAN
      OBVIOUS
    <3>4. r \in RowType /\ r.payment = rows[o].payment /\ r.hash = rows[o].hash
      BY <1>6, <3>2, <3>3, Zenon DEF RowType
    <3>5. r.done = (o \in executed)
      BY <1>6, <3>2, Zenon DEF RowType
    <3>6. QED BY <3>4, <3>5
  <2>2. CASE ~ Stored(o)
    <3>1. r = Absent /\ rows[o] = Absent
      BY <1>4, <2>2 DEF Stored
    <3>2. ~ Absent.done
      BY DEF Absent
    <3>3. QED BY <1>6, <3>1, <3>2
  <2>3. QED BY <2>1, <2>2
<1>8. /\ r # Absent <=> Stored(o)
      /\ Stored(o) => r.payment # "none"
      /\ r.hash # NoHash => payments[r.hash].op = o
  BY <1>4, <1>6, <1>7 DEF OpInv, Absent
<1>9. x \in TabType /\ x.pc = tabs[t].pc /\ x.op = tabs[t].op
      /\ x.quotes = tabs[t].quotes /\ x.hash = tabs[t].hash /\ x.nonce = tabs[t].nonce
      /\ x.seen = NoHash
  BY <1>2, <1>4 DEF TabType, StopsChecking, Maybe
<1>10. TabGood(x)
  BY <1>2, <1>9 DEF TabGood
<1>11. \A u \in Tabs : InWallet(u, o)' => InWallet(u, o)
  BY <1>2, <1>5, <1>9 DEF InWallet
<1>12. rows'[o].payment = rows[o].payment
  BY <1>3, <1>5, <1>7 DEF IInv, Types
<1>13. OnceInv(o)'
  BY <1>3, <1>5, <1>11, <1>12, OnceStays
<1>14. x.pc = "wallet" => InWallet(t, x.op)
  BY <1>9 DEF InWallet
<1>15. Authorizer(x) => \A u \in Tabs : u # t /\ Authorizer(tabs[u]) => tabs[u].op # x.op
  BY <1>9 DEF Authorizer, IInv, Sole
<1>16. QED BY <1>3, <1>5, <1>7, <1>8, <1>9, <1>10, <1>13, <1>14, <1>15, RowStep

(******************************* Authorizations *******************************)
\* Tabs that a step leaves alone, when the operations they are authorizing are left
\* alone too.
LEMMA TabsStay ==
  ASSUME IInv, Types', Forward, NEW U \in SUBSET Tabs,
         \A u \in U : tabs'[u] = tabs[u],
         \A u \in U : tabs[u].pc = "sign" => nonces'[tabs[u].op] = nonces[tabs[u].op],
         \A u \in U : tabs[u].pc = "post" =>
           nonces'[tabs[u].op] # Unsigned /\ rows'[tabs[u].op] = Absent
           /\ tabs[u].op \notin executed'
  PROVE  \A u \in U : TabGood(tabs[u])'
<1> SUFFICES ASSUME NEW u \in U PROVE TabGood(tabs[u])'
  OBVIOUS
<1>1. PICK y : y = tabs[u]
  OBVIOUS
<1>2. Types /\ y \in TabType /\ TabGood(y)
  BY <1>1 DEF IInv, Types
<1>3. TabGood(y)'
  BY <1>1, <1>2, TabStays
<1>4. tabs'[u] = y
  BY <1>1
<1>5. QED BY <1>3, <1>4 DEF TabGood

LEMMA PublishKeeps == ASSUME IInv, NEW t \in Tabs, Publish(t) PROVE IInv'
<1>1. PICK o, n : o = tabs[t].op /\ n = tabs[t].nonce
  OBVIOUS
<1>2. /\ tabs[t] \in TabType /\ TabGood(tabs[t]) /\ tabs[t].pc = "sign"
      /\ tabs \in [Tabs -> TabType] /\ Nonce \in Nat /\ Unsigned \in Int /\ Unsigned = -1
  BY TabFacts DEF Publish, Unsigned
<1>3. o \in Operations /\ nonces[o] = Unsigned /\ n \in Int /\ n >= 0 /\ n <= Nonce
  BY <1>1, <1>2 DEF TabGood, TabType
<1>4. PICK x : x = [Step(t, "post", o) EXCEPT !.nonce = Unsigned]
  OBVIOUS
<1>5. /\ Authorizable /\ publications' = publications \union {o}
      /\ nonces' = [nonces EXCEPT ![o] = n] /\ tabs' = [tabs EXCEPT ![t] = x]
      /\ UNCHANGED <<rows, payments, executed>>
  BY <1>1, <1>4 DEF Publish, Becomes
<1>6. /\ x \in TabType /\ x.pc = "post" /\ x.op = o /\ x.quotes = tabs[t].quotes
      /\ x.poll = tabs[t].poll /\ x.seen = tabs[t].seen
  BY <1>2, <1>3, <1>4 DEF TabType, Step, Maybe
<1>7. /\ \A p \in Operations : OpInv(p) /\ rows[p] \in RowType
      /\ \A p \in Operations : nonces'[p] = IF p = o THEN n ELSE nonces[p]
      /\ \A u \in Tabs : tabs'[u] = IF u = t THEN x ELSE tabs[u]
      /\ nonces' \in [Operations -> Int] /\ Nonce' = Nonce
  BY <1>3, <1>5 DEF IInv, Types, Nonce
<1>8. /\ rows[o] = Absent /\ o \notin executed /\ ~ Sure(o)
      /\ \A m \in Payments : payments[m].op # o
  BY <1>2, <1>3, <1>7 DEF OpInv, Stored, Sure, Executable
<1>9. Types'
  BY <1>2, <1>3, <1>5, <1>6, <1>7 DEF IInv, Types
<1>10. Forward
  <2>1. \A p \in Operations : (Known(p) => Known(p)') /\ (Sure(p) => Sure(p)')
    BY <1>5, <1>7, <1>8 DEF Known, Stored, Sure, Executable
  <2>2. QED BY <1>2, <1>5, <1>7, <2>1 DEF Forward
<1>11. \A u \in Tabs : TabGood(tabs[u])'
  <2>1. \A u \in Tabs \ {t} : tabs[u].pc = "sign" => tabs[u].op # o
    BY <1>1, <1>2 DEF IInv, Sole, Authorizer
  <2>2. \A u \in Tabs \ {t} : tabs[u].pc \in {"sign", "post"} => tabs[u].op \in Operations
    BY DEF IInv, TabGood
  <2>3. \A u \in Tabs \ {t} : tabs[u].pc = "sign" =>
          nonces'[tabs[u].op] = nonces[tabs[u].op]
    BY <1>7, <2>1, <2>2
  <2>4. \A u \in Tabs \ {t} : tabs[u].pc = "post" =>
          nonces'[tabs[u].op] # Unsigned /\ rows'[tabs[u].op] = Absent
          /\ tabs[u].op \notin executed'
    BY <1>2, <1>3, <1>5, <1>7, <2>2 DEF IInv, TabGood
  <2>5. \A u \in Tabs \ {t} : TabGood(tabs[u])'
    BY <1>7, <1>9, <1>10, <2>3, <2>4, TabsStay
  <2>6. TabGood(x)'
    <3>1. \A q \in x.quotes : Known(q)'
      BY <1>2, <1>6, <1>10 DEF TabGood, TabType, Forward
    <3>2. nonces'[x.op] # Unsigned /\ rows'[x.op] = Absent /\ x.op \notin executed'
      BY <1>2, <1>3, <1>5, <1>6, <1>7, <1>8
    <3>3. x.poll # None /\ x.seen # NoHash => payments'[x.seen].op = x.poll
      BY <1>2, <1>5, <1>6 DEF TabGood
    <3>4. QED BY <1>3, <1>6, <3>1, <3>2, <3>3 DEF TabGood
  <2>7. TabGood(tabs[t])'
    BY <1>7, <2>6 DEF TabGood
  <2>8. QED BY <2>5, <2>7
<1>12. Sole'
  <2>1. \A u \in Tabs : Authorizer(tabs'[u]) =>
          Authorizer(tabs[u]) /\ tabs'[u].op = tabs[u].op
    BY <1>1, <1>2, <1>6, <1>7 DEF Authorizer
  <2>2. \A u, v \in Tabs : Authorizer(tabs'[u]) /\ Authorizer(tabs'[v])
                           /\ tabs'[u].op = tabs'[v].op => u = v
    BY <2>1 DEF IInv, Sole
  <2>3. QED BY <2>2, Zenon DEF Sole, Authorizer
<1>13. ASSUME NEW p \in Operations PROVE OpInv(p)' /\ OnceInv(p)'
  <2>1. OpInv(p)'
    <3>1. (Known(p) => Known(p)') /\ (Sure(p) => Sure(p)')
      BY <1>10 DEF Forward
    <3>2. CASE p = o
      BY <1>2, <1>3, <1>5, <1>7, <1>8, <3>2 DEF OpInv, Stored, Unresolved, Absent
    <3>3. CASE p # o
      BY <1>5, <1>7, <3>1, <3>3 DEF OpInv, Stored, Unresolved
    <3>4. QED BY <3>2, <3>3
  <2>2. \A u \in Tabs : InWallet(u, p)' => InWallet(u, p)
    BY <1>6, <1>7 DEF InWallet
  <2>3. OnceInv(p)'
    BY <1>5, <2>2, OnceStays
  <2>4. QED BY <2>1, <2>3
<1>14. SoleExecutable'
  <2>1. \A p \in Operations : ~ Executable(p)
    BY <1>2, <1>5, <1>7 DEF Executable, OpInv, Authorizable
  <2>2. \A p \in Operations : Executable(p)' => p = o
    BY <1>7, <2>1 DEF Executable
  <2>3. QED BY <2>2 DEF SoleExecutable
<1>15. QED BY <1>9, <1>11, <1>12, <1>13, <1>14 DEF IInv

LEMMA ReceiveQuoteKeeps == ASSUME IInv, NEW t \in Tabs, ReceiveQuote(t) PROVE IInv'
<1>1. PICK o : o = tabs[t].op
  OBVIOUS
<1>2. /\ tabs[t] \in TabType /\ TabGood(tabs[t]) /\ tabs[t].pc = "post"
      /\ tabs \in [Tabs -> TabType] /\ Nonce \in Nat /\ 0 \in Hashes /\ NoHash = 0
  BY TabFacts DEF ReceiveQuote
<1>3. o \in Operations /\ nonces[o] # Unsigned /\ rows[o] = Absent /\ o \notin executed
  BY <1>1, <1>2 DEF TabGood
<1>4. PICK x, r : /\ x = [Step(t, "idle", None) EXCEPT !.quotes = @ \union {o}]
                  /\ r = [payment |-> "unfunded", hash |-> NoHash, done |-> FALSE]
  OBVIOUS
<1>5. /\ rows' = [rows EXCEPT ![o] = r] /\ publications' = publications \ {o}
      /\ tabs' = [tabs EXCEPT ![t] = x]
      /\ UNCHANGED <<payments, nonces, executed>>
  BY <1>1, <1>4 DEF ReceiveQuote, Row, Becomes
<1>6. /\ x \in TabType /\ x.pc = "idle" /\ x.quotes = tabs[t].quotes \union {o}
      /\ x.poll = tabs[t].poll /\ x.seen = tabs[t].seen
  BY <1>2, <1>3, <1>4 DEF TabType, Step, Maybe
<1>7. r \in RowType /\ r # Absent /\ ~ r.done /\ r.hash = NoHash /\ r.payment = "unfunded"
  <2>1. r \in RowType /\ ~ r.done
    BY <1>2, <1>4, Zenon DEF RowType
  <2>2. r.hash = NoHash /\ r.payment = "unfunded"
    BY <1>4
  <2>3. QED BY <2>1, <2>2 DEF Absent
<1>8. /\ \A p \in Operations : OpInv(p) /\ OnceInv(p)
      /\ \A p \in Operations : rows'[p] = IF p = o THEN r ELSE rows[p]
      /\ \A u \in Tabs : tabs'[u] = IF u = t THEN x ELSE tabs[u]
      /\ rows' \in [Operations -> RowType] /\ Nonce' = Nonce
  BY <1>3, <1>5, <1>7 DEF IInv, Types, Nonce
<1>9. Types'
  BY <1>5, <1>6, <1>8 DEF IInv, Types
<1>10. Forward
  <2>1. \A p \in Operations : (Known(p) => Known(p)') /\ (Sure(p) => Sure(p)')
    BY <1>5, <1>7, <1>8 DEF Known, Stored, Sure, Executable
  <2>2. QED BY <1>2, <1>5, <1>8, <2>1 DEF Forward
<1>11. \A u \in Tabs : TabGood(tabs[u])'
  <2>1. \A u \in Tabs \ {t} : tabs[u].pc = "post" => tabs[u].op # o /\ tabs[u].op \in Operations
    BY <1>1, <1>2 DEF IInv, Sole, Authorizer, TabGood
  <2>2. \A u \in Tabs \ {t} : tabs[u].pc = "post" =>
          nonces'[tabs[u].op] # Unsigned /\ rows'[tabs[u].op] = Absent
          /\ tabs[u].op \notin executed'
    BY <1>5, <1>8, <2>1 DEF IInv, TabGood
  <2>3. \A u \in Tabs \ {t} : TabGood(tabs[u])'
    BY <1>5, <1>8, <1>9, <1>10, <2>2, TabsStay
  <2>4. TabGood(x)'
    <3>1. \A q \in x.quotes : Known(q)'
      BY <1>2, <1>3, <1>6, <1>7, <1>8, <1>10 DEF TabGood, TabType, Forward, Known, Stored
    <3>2. x.poll # None /\ x.seen # NoHash => payments'[x.seen].op = x.poll
      BY <1>2, <1>5, <1>6 DEF TabGood
    <3>3. QED BY <1>6, <3>1, <3>2 DEF TabGood
  <2>5. TabGood(tabs[t])'
    BY <1>8, <2>4 DEF TabGood
  <2>6. QED BY <2>3, <2>5
<1>12. Sole'
  <2>1. \A u \in Tabs : Authorizer(tabs'[u]) =>
          Authorizer(tabs[u]) /\ tabs'[u].op = tabs[u].op
    BY <1>6, <1>8 DEF Authorizer
  <2>2. \A u, v \in Tabs : Authorizer(tabs'[u]) /\ Authorizer(tabs'[v])
                           /\ tabs'[u].op = tabs'[v].op => u = v
    BY <2>1 DEF IInv, Sole
  <2>3. QED BY <2>2, Zenon DEF Sole, Authorizer
<1>13. ASSUME NEW p \in Operations PROVE OpInv(p)' /\ OnceInv(p)'
  <2>1. (Known(p) => Known(p)') /\ (Sure(p) => Sure(p)')
    BY <1>10 DEF Forward
  <2>2. \A u \in Tabs : InWallet(u, p)' => InWallet(u, p)
    BY <1>6, <1>8 DEF InWallet
  <2>3. CASE p = o
    <3>1. OpInv(o)'
      BY <1>3, <1>5, <1>7, <1>8, <2>1, <2>3 DEF OpInv, Stored, Unresolved
    <3>2. rows[o].payment = "none"
      BY <1>3 DEF Absent
    <3>3. NeverReverted(o) => /\ \A m \in Payments : payments[m].op # o
                              /\ \A u \in Tabs : ~ InWallet(u, o)
      BY <1>3, <1>8, <3>2 DEF OnceInv
    <3>4. NeverReverted(o)' => NeverReverted(o)
      BY <1>5 DEF NeverReverted, PaymentsOf
    <3>5. OnceInv(o)'
      BY <1>5, <2>2, <2>3, <3>3, <3>4 DEF OnceInv
    <3>6. QED BY <2>3, <3>1, <3>5
  <2>4. CASE p # o
    <3>1. OpInv(p)'
      BY <1>5, <1>8, <2>1, <2>4 DEF OpInv, Stored, Unresolved
    <3>2. rows'[p].payment = rows[p].payment
      BY <1>8, <2>4
    <3>3. OnceInv(p)'
      BY <1>5, <2>2, <3>2, OnceStays
    <3>4. QED BY <3>1, <3>3
  <2>5. QED BY <2>3, <2>4
<1>14. SoleExecutable'
  BY <1>5, <1>8 DEF IInv, SoleExecutable, Executable
<1>15. QED BY <1>9, <1>11, <1>12, <1>13, <1>14 DEF IInv

(********************************* Broadcasts *********************************)
\* The wallet that tab t asked broadcasts payment m; the tab goes on as x, and at
\* most the hash in the row changes.
LEMMA BroadcastKeeps ==
  ASSUME IInv, NEW t \in Tabs, NEW o \in Operations, InWallet(t, o),
         NEW m \in Payments, Broadcast(m, o),
         NEW x \in TabType, tabs' = [tabs EXCEPT ![t] = x],
         UNCHANGED <<publications, nonces, executed>>,
         x.pc \in {"idle", "wait"}, x.quotes \subseteq tabs[t].quotes,
         x.pc = "wait" => x.op = o /\ x.hash = m /\ o \in x.quotes,
         x.poll = None \/ (x.poll = tabs[t].poll /\ x.seen = tabs[t].seen),
         rows' \in [Operations -> RowType],
         \A p \in Operations :
           /\ Stored(p)' <=> Stored(p)
           /\ rows'[p].payment = rows[p].payment
           /\ rows'[p].done => rows[p].done
           /\ rows'[p].hash = rows[p].hash \/ (p = o /\ rows'[p].hash = m)
  PROVE  IInv'
<1>1. /\ Types /\ Nonce \in Nat /\ Nonce' = Nonce
      /\ \A p \in Operations : OpInv(p) /\ OnceInv(p) /\ rows[p] \in RowType
      /\ TabGood(tabs[t]) /\ tabs[t].pc = "wallet" /\ tabs[t].op = o
      /\ tabs[t] \in TabType
  BY TabFacts DEF IInv, Nonce, InWallet
<1>2. /\ payments[m].op = None /\ payments' \in [Payments -> PaymentType]
      /\ \A k \in Payments : payments'[k] = IF k = m THEN [op |-> o, state |-> "out"]
                                                     ELSE payments[k]
  BY <1>1 DEF Broadcast, Types, PaymentType, Maybe
<1>3. \A k \in Payments : payments'[k].op = IF k = m THEN o ELSE payments[k].op
  BY <1>2
<1>4. \A u \in Tabs : tabs'[u] = IF u = t THEN x ELSE tabs[u]
  BY <1>1 DEF Types
<1>5. Types'
  <2>1. \A k \in Payments : payments'[k].state = "unsent" <=> payments'[k].op = None
    BY <1>1, <1>2 DEF Types
  <2>2. tabs' \in [Tabs -> TabType]
    BY <1>1 DEF Types
  <2>3. QED BY <1>1, <1>2, <2>1, <2>2 DEF Types
<1>6. \A p \in Operations : /\ Known(p)' <=> Known(p)
                            /\ Sure(p)' <=> Sure(p)
                            /\ Executable(p)' <=> Executable(p)
  BY <1>1 DEF Known, Sure, Executable
<1>7. Forward
  BY <1>1, <1>2, <1>3, <1>6 DEF Forward
<1>8. Known(o) /\ Sure(o) /\ \A q \in x.quotes : q \in Operations /\ Known(q)
  BY <1>1 DEF TabGood, TabType
<1>9. \A u \in Tabs : TabGood(tabs[u])'
  <2>1. \A u \in Tabs \ {t} : tabs[u].pc = "post" =>
          nonces'[tabs[u].op] # Unsigned /\ rows'[tabs[u].op] = Absent
          /\ tabs[u].op \notin executed'
    BY DEF IInv, TabGood, Stored
  <2>2. \A u \in Tabs \ {t} : TabGood(tabs[u])'
    BY <1>4, <1>5, <1>7, <2>1, TabsStay
  <2>3. TabGood(x)'
    <3>1. \A q \in x.quotes : Known(q)'
      BY <1>6, <1>8
    <3>2. x.pc = "wait" => x.hash \in Payments /\ payments'[x.hash].op = x.op
      BY <1>3
    <3>3. x.poll # None /\ x.seen # NoHash => payments'[x.seen].op = x.poll
      <4>1. SUFFICES ASSUME x.poll # None, x.seen # NoHash
                     PROVE  payments'[x.seen].op = x.poll
        OBVIOUS
      <4>2. x.seen \in Payments /\ payments[x.seen].op = x.poll
        BY <1>1, <4>1 DEF TabGood, TabType, Hashes, Payments, NoHash
      <4>3. QED BY <1>2, <1>3, <4>1, <4>2
    <3>4. QED BY <3>1, <3>2, <3>3 DEF TabGood
  <2>4. TabGood(tabs[t])'
    BY <1>4, <2>3 DEF TabGood
  <2>5. QED BY <2>2, <2>4
<1>10. Sole'
  <2>1. \A u \in Tabs : Authorizer(tabs'[u]) =>
          Authorizer(tabs[u]) /\ tabs'[u].op = tabs[u].op
    BY <1>4 DEF Authorizer
  <2>2. \A u, v \in Tabs : Authorizer(tabs'[u]) /\ Authorizer(tabs'[v])
                           /\ tabs'[u].op = tabs'[v].op => u = v
    BY <2>1 DEF IInv, Sole
  <2>3. QED BY <2>2, Zenon DEF Sole, Authorizer
<1>11. ASSUME NEW p \in Operations PROVE OpInv(p)'
  <2>1. Stored(p)' => rows'[p].payment # "none"
    BY <1>1 DEF OpInv
  <2>2. rows'[p].hash # NoHash => payments'[rows'[p].hash].op = p
    <3>1. CASE rows'[p].hash = rows[p].hash
      <4>1. SUFFICES ASSUME rows[p].hash # NoHash PROVE payments'[rows[p].hash].op = p
        BY <3>1
      <4>2. rows[p].hash \in Payments /\ payments[rows[p].hash].op = p
        BY <1>1, <4>1 DEF OpInv, RowType, Hashes, Payments, NoHash
      <4>3. QED BY <1>2, <1>3, <4>2
    <3>2. CASE p = o /\ rows'[p].hash = m
      BY <1>3, <3>2
    <3>3. QED BY <3>1, <3>2
  <2>3. p \in executed => \E k \in Payments : payments'[k].op = p
    <3>1. SUFFICES ASSUME p \in executed PROVE \E k \in Payments : payments'[k].op = p
      OBVIOUS
    <3>2. PICK k \in Payments : payments[k].op = p
      BY <1>1, <3>1 DEF OpInv
    <3>3. payments'[k].op = p
      BY <1>2, <1>3, <3>2
    <3>4. QED BY <3>3
  <2>4. \A k \in Payments : payments'[k].op = p => Known(p)' /\ Sure(p)'
    BY <1>1, <1>3, <1>6, <1>8 DEF OpInv
  <2>5. nonces[p] # Unsigned /\ p \notin executed => Unresolved(p)'
    BY <1>1 DEF OpInv, Unresolved
  <2>6. QED BY <1>1, <2>1, <2>2, <2>3, <2>4, <2>5 DEF OpInv
<1>12. ASSUME NEW p \in Operations PROVE OnceInv(p)'
  <2>1. NeverReverted(p)' => NeverReverted(p)
    BY <1>2, <1>3 DEF NeverReverted, PaymentsOf
  <2>2. \A u \in Tabs : InWallet(u, p)' => InWallet(u, p) /\ u # t
    BY <1>4 DEF InWallet
  <2>3. CASE p = o
    <3>1. NeverReverted(o) => /\ rows[o].payment = "submitted"
                              /\ \A k \in Payments : payments[k].op # o
                              /\ \A u \in Tabs : InWallet(u, o) => u = t
      BY <1>1 DEF OnceInv
    <3>2. QED BY <1>3, <2>1, <2>2, <2>3, <3>1 DEF OnceInv
  <2>4. CASE p # o
    <3>1. \A k \in Payments : payments'[k].op = p => k # m /\ payments[k].op = p
      BY <1>3, <2>4
    <3>2. \A k \in Payments : payments[k].op # p => payments'[k].op # p
      BY <1>3, <2>4
    <3>3. OnceInv(p) /\ rows'[p].payment = rows[p].payment /\ executed' = executed
      BY <1>1
    <3>4. QED BY <2>1, <2>2, <3>1, <3>2, <3>3 DEF OnceInv
  <2>5. QED BY <2>3, <2>4
<1>13. SoleExecutable'
  BY <1>6 DEF IInv, SoleExecutable
<1>14. QED BY <1>5, <1>9, <1>10, <1>11, <1>12, <1>13 DEF IInv

LEMMA WalletKeeps ==
  ASSUME IInv, NEW t \in Tabs,
         \/ \E m \in Payments : Send(t, m)
         \/ LoseWallet(t) \/ Close(t)
  PROVE  IInv'
<1>0. PICK o : o = tabs[t].op
  OBVIOUS
<1>1. /\ tabs[t] \in TabType /\ TabGood(tabs[t]) /\ tabs \in [Tabs -> TabType]
      /\ 0 \in Hashes /\ NoHash = 0 /\ Unsigned \in Int
      /\ rows \in [Operations -> RowType]
  BY TabFacts DEF IInv, Types
<1>2. tabs[t].pc = "wallet" => o \in Operations /\ InWallet(t, o) /\ o \in tabs[t].quotes
  BY <1>0, <1>1 DEF TabGood, TabType, InWallet
<1>3. ASSUME NEW m \in Payments, Send(t, m) PROVE IInv'
  <2>1. /\ o \in Operations /\ InWallet(t, o) /\ o \in tabs[t].quotes
        /\ rows[o] \in RowType
    BY <1>1, <1>2, <1>3 DEF Send
  <2>2. PICK x, r : /\ x = [Step(t, "wait", o) EXCEPT !.hash = m,
                                                      !.funded = @ \union {o}]
                    /\ r = IF Stored(o) THEN [rows[o] EXCEPT !.hash = m] ELSE Absent
    OBVIOUS
  <2>3. /\ Broadcast(m, o) /\ rows' = [rows EXCEPT ![o] = r]
        /\ tabs' = [tabs EXCEPT ![t] = x]
        /\ UNCHANGED <<publications, nonces, executed>>
    BY <1>0, <1>3, <2>2 DEF Send, Row, Update, Becomes
  <2>4. m \in Hashes
    BY DEF Payments, Hashes
  <2>5. /\ x \in TabType /\ x.pc = "wait" /\ x.op = o /\ x.hash = m
        /\ x.quotes = tabs[t].quotes /\ x.poll = tabs[t].poll /\ x.seen = tabs[t].seen
    BY <1>1, <2>1, <2>2, <2>4 DEF TabType, Step, Maybe
  <2>6. /\ r \in RowType /\ r.payment = rows[o].payment /\ (r.done <=> rows[o].done)
        /\ r.hash = rows[o].hash \/ r.hash = m
        /\ r # Absent <=> Stored(o)
    <3>1. CASE Stored(o)
      <4>1. r = [rows[o] EXCEPT !.hash = m]
        BY <2>2, <3>1
      <4>2. r \in RowType /\ r.payment = rows[o].payment /\ r.hash = m
        BY <2>1, <2>4, <4>1, Zenon DEF RowType
      <4>3. r.done <=> rows[o].done
        BY <2>1, <4>1, Zenon DEF RowType
      <4>4. r # Absent
        BY <2>1, <3>1, <4>2 DEF IInv, OpInv, Absent
      <4>5. QED BY <3>1, <4>2, <4>3, <4>4
    <3>2. CASE ~ Stored(o)
      BY <2>1, <2>2, <3>2 DEF Stored
    <3>3. QED BY <3>1, <3>2
  <2>7. /\ rows' \in [Operations -> RowType]
        /\ \A p \in Operations : rows'[p] = IF p = o THEN r ELSE rows[p]
    BY <1>1, <2>3, <2>6
  <2>8. \A p \in Operations :
          /\ Stored(p)' <=> Stored(p)
          /\ rows'[p].payment = rows[p].payment
          /\ rows'[p].done => rows[p].done
          /\ rows'[p].hash = rows[p].hash \/ (p = o /\ rows'[p].hash = m)
    BY <2>6, <2>7 DEF Stored
  <2>9. /\ x \in TabType /\ x.pc \in {"idle", "wait"} /\ x.quotes \subseteq tabs[t].quotes
        /\ x.pc = "wait" => x.op = o /\ x.hash = m /\ o \in x.quotes
        /\ x.poll = tabs[t].poll /\ x.seen = tabs[t].seen
    BY <2>1, <2>5
  <2>10. rows' \in [Operations -> RowType]
    BY <2>7
  <2>11. QED BY <1>3, <2>1, <2>3, <2>8, <2>9, <2>10, BroadcastKeeps, Zenon
<1>4. ASSUME rows' = rows, NEW m \in Payments, Broadcast(m, o), tabs[t].pc = "wallet",
             NEW x \in TabType, x.pc = "idle", x.quotes \subseteq tabs[t].quotes,
             x.poll = None \/ (x.poll = tabs[t].poll /\ x.seen = tabs[t].seen),
             tabs' = [tabs EXCEPT ![t] = x],
             UNCHANGED <<publications, nonces, executed>>
      PROVE  IInv'
  <2>1. o \in Operations /\ InWallet(t, o)
    BY <1>2, <1>4
  <2>2. \A p \in Operations :
          /\ Stored(p)' <=> Stored(p)
          /\ rows'[p].payment = rows[p].payment
          /\ rows'[p].done => rows[p].done
          /\ rows'[p].hash = rows[p].hash
    BY <1>4 DEF Stored
  <2>3. rows' \in [Operations -> RowType]
    BY <1>1, <1>4
  <2>4. QED BY <1>4, <2>1, <2>2, <2>3, BroadcastKeeps
<1>5. CASE LoseWallet(t)
  <2>1. CASE UNCHANGED payments
    <3>1. QED BY <1>2, <1>5, <2>1, QuietPaying DEF LoseWallet
  <2>2. CASE \E m \in Payments : Broadcast(m, o)
    <3>1. PICK m \in Payments : Broadcast(m, o)
      BY <2>2
    <3>2. PICK x : x = Step(t, "idle", None)
      OBVIOUS
    <3>3. /\ x \in TabType /\ x.pc = "idle" /\ x.quotes = tabs[t].quotes
          /\ x.poll = tabs[t].poll /\ x.seen = tabs[t].seen
      BY <1>1, <3>2 DEF TabType, Step, Maybe
    <3>4. /\ rows' = rows /\ tabs[t].pc = "wallet" /\ tabs' = [tabs EXCEPT ![t] = x]
          /\ UNCHANGED <<publications, nonces, executed>>
      BY <1>5, <3>2 DEF LoseWallet, Stops, Becomes
    <3>5. QED BY <1>4, <3>1, <3>3, <3>4
  <2>3. QED BY <1>0, <1>5, <2>1, <2>2 DEF LoseWallet
<1>6. CASE Close(t)
  <2>1. PICK x : x = Closed
    OBVIOUS
  <2>2. /\ x \in TabType /\ x.pc = "idle" /\ x.quotes = {} /\ x.poll = None
        /\ TabGood(x)
    BY <1>1, <2>1 DEF TabType, Closed, Maybe, TabGood
  <2>3. /\ rows' = rows /\ tabs' = [tabs EXCEPT ![t] = x]
        /\ UNCHANGED <<publications, nonces, executed>>
    BY <1>6, <2>1 DEF Close, Becomes
  <2>4. CASE UNCHANGED payments
    BY <2>2, <2>3, <2>4, TabStep DEF Authorizer
  <2>5. CASE tabs[t].pc = "wallet" /\ \E m \in Payments : Broadcast(m, o)
    <3>1. PICK m \in Payments : Broadcast(m, o)
      BY <2>5
    <3>2. QED BY <1>4, <2>2, <2>3, <2>5, <3>1
  <2>6. QED BY <1>0, <1>6, <2>4, <2>5 DEF Close
<1>7. QED BY <1>3, <1>5, <1>6

(*************************** Steps outside the tabs ***************************)
\* Dismissing the row of an operation that is done forgets nothing needed: the
\* operation has been executed.
LEMMA DismissKeeps == ASSUME IInv, NEW o \in Operations, Dismiss(o) PROVE IInv'
<1>1. /\ Types /\ Nonce \in Nat /\ Nonce' = Nonce /\ NoHash = 0 /\ 0 \in Hashes
      /\ \A p \in Operations : OpInv(p) /\ OnceInv(p)
      /\ UNCHANGED <<publications, tabs, payments, nonces, executed>>
  BY NonceType DEF IInv, Types, Nonce, Dismiss, Hashes, NoHash
<1>2. o \in executed
  BY <1>1 DEF Dismiss, OpInv
<1>3. Absent \in RowType /\ ~ Absent.done /\ Absent.hash = NoHash
  BY <1>1, Zenon DEF Absent, RowType
<1>4. /\ rows' \in [Operations -> RowType]
      /\ \A p \in Operations : rows'[p] = IF p = o THEN Absent ELSE rows[p]
  BY <1>1, <1>3 DEF Types, Dismiss, Row
<1>5. Types'
  BY <1>1, <1>4 DEF Types
<1>6. \A p \in Operations : /\ Known(p) => Known(p)'
                            /\ Sure(p)' <=> Sure(p)
                            /\ Executable(p)' <=> Executable(p)
  BY <1>1, <1>2, <1>4 DEF Known, Stored, Sure, Executable
<1>7. Forward
  BY <1>1, <1>6 DEF Forward
<1>8. \A u \in Tabs : TabGood(tabs[u])'
  <2>1. \A u \in Tabs : tabs[u].pc = "post" =>
          nonces'[tabs[u].op] # Unsigned /\ rows'[tabs[u].op] = Absent
          /\ tabs[u].op \notin executed'
    BY <1>1, <1>4 DEF IInv, TabGood
  <2>2. QED BY <1>1, <1>5, <1>7, <2>1, TabsStay
<1>9. Sole'
  BY <1>1 DEF IInv, Sole, Authorizer
<1>10. ASSUME NEW p \in Operations PROVE OpInv(p)' /\ OnceInv(p)'
  <2>1. CASE p = o
    <3>1. OpInv(o)'
      BY <1>1, <1>2, <1>3, <1>4, <1>6 DEF OpInv, Stored, Known
    <3>2. NeverReverted(o) => \A u \in Tabs : ~ InWallet(u, o)
      BY <1>1, <1>2 DEF OpInv, OnceInv
    <3>3. OnceInv(o)'
      BY <1>1, <1>2, <3>2 DEF OnceInv, NeverReverted, PaymentsOf, InWallet
    <3>4. QED BY <2>1, <3>1, <3>3
  <2>2. CASE p # o
    <3>1. OpInv(p)'
      BY <1>1, <1>4, <1>6, <2>2 DEF OpInv, Stored, Unresolved
    <3>2. OnceInv(p)'
      BY <1>1, <1>4, <2>2, OnceStays DEF InWallet
    <3>3. QED BY <3>1, <3>2
  <2>3. QED BY <2>1, <2>2
<1>11. SoleExecutable'
  BY <1>6 DEF IInv, SoleExecutable
<1>12. QED BY <1>5, <1>8, <1>9, <1>10, <1>11 DEF IInv

LEMMA MineKeeps ==
  ASSUME IInv, NEW m \in Payments, NEW outcome \in Outcomes, Mine(m, outcome)
  PROVE  IInv'
<1>1. /\ Types /\ Nonce \in Nat /\ Nonce' = Nonce
      /\ \A p \in Operations : OpInv(p) /\ OnceInv(p) /\ rows[p] \in RowType
      /\ UNCHANGED <<rows, publications, tabs, nonces, executed>>
  BY TabFacts, NonceType DEF IInv, Types, Nonce, Mine
<1>2. /\ payments[m].state = "out" /\ outcome \in {"paid", "reverted"}
      /\ payments' \in [Payments -> PaymentType]
      /\ \A k \in Payments : /\ payments'[k].op = payments[k].op
                             /\ k # m => payments'[k] = payments[k]
      /\ payments'[m].state = outcome
  BY <1>1 DEF Mine, Types, PaymentType
<1>3. Types'
  <2>1. \A k \in Payments : payments'[k].state = "unsent" <=> payments'[k].op = None
    BY <1>1, <1>2 DEF Types
  <2>2. QED BY <1>1, <1>2, <2>1 DEF Types
<1>4. \A p \in Operations : /\ Known(p)' <=> Known(p)
                            /\ Sure(p)' <=> Sure(p)
                            /\ Executable(p)' <=> Executable(p)
  BY <1>1 DEF Known, Stored, Sure, Executable
<1>5. Forward
  BY <1>1, <1>2, <1>4 DEF Forward
<1>6. \A u \in Tabs : TabGood(tabs[u])'
  <2>1. \A u \in Tabs : tabs[u].pc = "post" =>
          nonces'[tabs[u].op] # Unsigned /\ rows'[tabs[u].op] = Absent
          /\ tabs[u].op \notin executed'
    BY <1>1 DEF IInv, TabGood
  <2>2. QED BY <1>1, <1>3, <1>5, <2>1, TabsStay
<1>7. Sole'
  BY <1>1 DEF IInv, Sole, Authorizer
<1>8. ASSUME NEW p \in Operations PROVE OpInv(p)' /\ OnceInv(p)'
  <2>1. rows[p].hash # NoHash => rows[p].hash \in Payments
    BY <1>1 DEF RowType, Hashes, Payments, NoHash
  <2>2. OpInv(p)'
    BY <1>1, <1>2, <1>4, <2>1 DEF OpInv, Stored, Unresolved
  <2>3. NeverReverted(p)' => NeverReverted(p)
    BY <1>2 DEF NeverReverted, PaymentsOf
  <2>4. OnceInv(p)'
    BY <1>1, <1>2, <2>3 DEF OnceInv, InWallet
  <2>5. QED BY <2>2, <2>4
<1>9. SoleExecutable'
  BY <1>4 DEF IInv, SoleExecutable
<1>10. QED BY <1>3, <1>6, <1>7, <1>8, <1>9 DEF IInv

\* An execution takes the only signatures that were executable.
LEMMA ExecuteKeeps == ASSUME IInv, NEW o \in Operations, Execute(o) PROVE IInv'
<1>1. /\ Types /\ Nonce \in Nat /\ IsFiniteSet(executed)
      /\ \A p \in Operations : OpInv(p) /\ OnceInv(p)
      /\ UNCHANGED <<rows, publications, tabs, payments, nonces>>
      /\ executed' = executed \union {o} /\ Executable(o)
      /\ Unsigned = -1 /\ nonces \in [Operations -> Int]
  BY NonceType DEF IInv, Types, Execute, Unsigned
<1>2. PICK h \in Payments : payments[h].op = o
  BY DEF Execute
<1>3. o \notin executed
  BY <1>1 DEF OpInv, Executable
<1>4. Nonce' = Nonce + 1
  BY <1>1, <1>3, FS_AddElement DEF Nonce
<1>5. Types'
  BY <1>1 DEF Types
<1>6. \A p \in Operations : (Known(p) => Known(p)') /\ (Sure(p) => Sure(p)')
  BY <1>1 DEF Known, Stored, Sure, IInv, SoleExecutable
<1>7. Forward
  BY <1>1, <1>4, <1>6 DEF Forward
<1>8. \A u \in Tabs : TabGood(tabs[u])'
  <2>1. \A u \in Tabs : tabs[u].pc = "post" =>
          nonces'[tabs[u].op] # Unsigned /\ rows'[tabs[u].op] = Absent
          /\ tabs[u].op \notin executed'
    <3>1. Known(o)
      BY <1>1, <1>2 DEF OpInv
    <3>2. QED BY <1>1, <3>1 DEF IInv, TabGood, Known, Stored
  <2>2. QED BY <1>1, <1>5, <1>7, <2>1, TabsStay
<1>9. Sole'
  BY <1>1 DEF IInv, Sole, Authorizer
<1>10. ASSUME NEW p \in Operations PROVE OpInv(p)' /\ OnceInv(p)'
  <2>1. nonces[p] \in Int
    BY <1>1
  <2>2. OpInv(p)'
    <3>1. nonces'[p] >= Unsigned /\ nonces'[p] <= Nonce'
      BY <1>1, <1>4, <2>1 DEF OpInv
    <3>2. p \in executed' => /\ nonces'[p] >= 0 /\ nonces'[p] < Nonce'
                             /\ \E m \in Payments : payments'[m].op = p
      BY <1>1, <1>2, <1>4, <2>1 DEF OpInv, Executable
    <3>3. \A m \in Payments : payments'[m].op = p => Known(p)' /\ Sure(p)'
      BY <1>1, <1>6 DEF OpInv
    <3>4. QED BY <1>1, <3>1, <3>2, <3>3 DEF OpInv, Stored, Unresolved
  <2>3. OnceInv(p)'
    BY <1>1 DEF OnceInv, NeverReverted, PaymentsOf, InWallet
  <2>4. QED BY <2>2, <2>3
<1>11. \A p \in Operations : ~ Executable(p)'
  BY <1>1, <1>4 DEF Executable, OpInv
<1>12. SoleExecutable'
  BY <1>11 DEF SoleExecutable
<1>13. QED BY <1>5, <1>8, <1>9, <1>10, <1>12 DEF IInv

LEMMA StutterKeeps == IInv /\ UNCHANGED vars => IInv'
<1> SUFFICES ASSUME IInv, UNCHANGED vars PROVE IInv'
  OBVIOUS
<1> USE DEF vars
<1>1. Types' /\ Sole' /\ SoleExecutable'
  BY DEF IInv, Types, Sole, Authorizer, SoleExecutable, Executable, Nonce
<1>2. \A t \in Tabs : TabGood(tabs[t])'
  BY DEF IInv, TabGood, Nonce, Known, Stored, Sure, Executable
<1>3. ASSUME NEW o \in Operations PROVE OpInv(o)' /\ OnceInv(o)'
  <2>1. OpInv(o) /\ OnceInv(o)
    BY DEF IInv
  <2>2. OpInv(o)'
    BY <2>1 DEF OpInv, Stored, Unresolved, Nonce, Known, Sure, Executable
  <2>3. OnceInv(o)'
    BY <2>1 DEF OnceInv, NeverReverted, PaymentsOf, InWallet
  <2>4. QED BY <2>2, <2>3
<1>4. QED BY <1>1, <1>2, <1>3 DEF IInv

(********************************** Theorems **********************************)
LEMMA StepIInv == IInv /\ [Next]_vars => IInv'
<1> SUFFICES ASSUME IInv, [Next]_vars PROVE IInv'
  OBVIOUS
<1>1. ASSUME NEW t \in Tabs, NEW o \in Operations,
             ResumeQuote(t, o) \/ StartSigning(t, o) \/ StartPaying(t, o) \/ StartCheck(t, o)
      PROVE  IInv'
  BY <1>1, QuietAuthorizing, QuietPaying, QuietChecking
<1>2. ASSUME NEW t \in Tabs, Publish(t) \/ ReceiveQuote(t) PROVE IInv'
  BY <1>2, PublishKeeps, ReceiveQuoteKeeps
<1>3. ASSUME NEW t \in Tabs, GiveUpAuthorizing(t) \/ GiveUpPaying(t) \/ GiveUpChecking(t)
      PROVE  IInv'
  <2>1. PICK o \in Operations : TRUE
    BY <1>3, TabFacts DEF GiveUpAuthorizing, GiveUpPaying, GiveUpChecking, Authorizing,
                          TabGood, TabType, Maybe
  <2>2. QED BY <1>3, QuietAuthorizing, QuietPaying, QuietChecking
<1>4. ASSUME NEW t \in Tabs, Submit(t) \/ Decline(t) PROVE IInv'
  BY <1>4, SubmitKeeps, DeclineKeeps
<1>5. ASSUME NEW t \in Tabs,
             LoseWallet(t) \/ Close(t) \/ \E m \in Payments : Send(t, m)
      PROVE  IInv'
  BY <1>5, WalletKeeps
<1>6. ASSUME NEW t \in Tabs, Confirm(t) \/ CheckPayment(t) \/ CheckBundle(t) PROVE IInv'
  BY <1>6, ConfirmKeeps, CheckPaymentKeeps, CheckBundleKeeps
<1>7. ASSUME NEW o \in Operations, Dismiss(o) \/ Execute(o) PROVE IInv'
  BY <1>7, DismissKeeps, ExecuteKeeps
<1>8. ASSUME NEW m \in Payments, NEW outcome \in Outcomes, Mine(m, outcome) PROVE IInv'
  BY <1>8, MineKeeps
<1>9. CASE UNCHANGED vars
  BY <1>9, StutterKeeps
<1>10. QED BY <1>1, <1>2, <1>3, <1>4, <1>5, <1>6, <1>7, <1>8, <1>9 DEF Next

\* The inductive invariant holds in every state the tabs, the wallet, the chain and
\* Relayr can reach.
THEOREM Inductive == Spec => []IInv
BY InitIInv, StepIInv, PTL DEF Spec

\* The types, and that a published or stored operation was signed for a nonce that
\* an executed one has used up.
THEOREM Typing == Spec => []TypeOK
BY Inductive, IInvIsEnough, PTL

\* requireUnfunded, asked before the signatures and again before they go out,
\* leaves one set of signatures at most that the forwarder would still take.
THEOREM OneAuthorization == Spec => []AuthorizedOnce
BY Inductive, IInvIsEnough, PTL

\* The row written before the wallet is asked keeps every tab from paying again,
\* unless a payment reverted.
THEOREM OnePayment == Spec => []PaidOnce
BY Inductive, IInvIsEnough, PTL

\* Running the calls again before the wallet is asked leaves nothing paid for that
\* the forwarder would refuse.
THEOREM PaymentsExecutable == Spec => []PaidIsExecutable
BY Inductive, IInvIsEnough, PTL
==============================================================================
