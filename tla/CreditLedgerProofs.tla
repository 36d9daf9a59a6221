--------------------------- MODULE CreditLedgerProofs ---------------------------
(* For any number of requests, keys and readings: no budget and no concurrency    *)
(* limit is exceeded and a retention frees nothing; and while the worker's clock   *)
(* is not ahead, the provider's credit covers every open maximum, but for what it  *)
(* charged today to rows already closed.                                           *)
EXTENDS CreditLedger, FiniteSetTheorems, WellFoundedInduction, TLAPS

(******************************** Sums over sets *******************************)
\* The function that SumFunctionOnSet evaluates at S.
IsSum(sum, f, S) ==
  sum = [T \in SUBSET S |-> IF T = {} THEN 0
                            ELSE LET x == CHOOSE x \in T : TRUE IN f[x] + sum[T \ {x}]]

\* A family of subsets of a finite set has a member none of whose elements can be
\* taken out without leaving the family: the least counterexample of the proofs below.
LEMMA MinimalSubset ==
  ASSUME NEW S, IsFiniteSet(S), NEW F \in SUBSET (SUBSET S), F # {}
  PROVE  \E T \in F : \A x \in T : T \ {x} \notin F
PROOF
<1> DEFINE Sizes == {n \in Nat : \E T \in F : Cardinality(T) = n}
           Less == OpToRel(<, Nat)
<1>1. \A T \in F : IsFiniteSet(T) /\ Cardinality(T) \in Nat
  BY FS_Subset, FS_CardinalityType
<1>2. Sizes \subseteq Nat /\ Sizes # {}
  BY <1>1
<1>3. PICK n \in Sizes : \A m \in Sizes : ~(<<m, n>> \in Less)
  <2> HIDE DEF Sizes
  <2> QED BY <1>2, WFMin, NatLessThanWellFounded
<1>4. PICK T \in F : Cardinality(T) = n
  BY <1>3
<1>5. ASSUME NEW x \in T, T \ {x} \in F PROVE FALSE
  <2>1. Cardinality(T \ {x}) = n - 1 /\ n \in Nat
    BY <1>1, <1>3, <1>4, FS_RemoveElement
  <2>2. n - 1 \in Sizes /\ n - 1 < n
    BY <1>1, <1>5, <2>1
  <2> QED BY <1>3, <2>1, <2>2 DEF OpToRel
<1> QED BY <1>5, <1>4

\* Such a function exists: it is built for the subsets of at most n elements.
LEMMA SumExists ==
  ASSUME NEW S, IsFiniteSet(S), NEW f
  PROVE  \E sum : IsSum(sum, f, S)
PROOF
<1> DEFINE Up(n) == {T \in SUBSET S : Cardinality(T) <= n}
           At(g, T) == IF T = {} THEN 0
                       ELSE LET x == CHOOSE x \in T : TRUE IN f[x] + g[T \ {x}]
           Partial(g, n) == g = [T \in Up(n) |-> At(g, T)]
           Bad == {n \in Nat : ~ \E g : Partial(g, n)}
<1>1. \A T \in SUBSET S : /\ IsFiniteSet(T) /\ Cardinality(T) \in Nat
                          /\ Cardinality(T) <= Cardinality(S)
                          /\ Cardinality(T) = 0 <=> T = {}
  BY FS_Subset, FS_CardinalityType, FS_EmptySet
<1>2. \A T, g, h : (\A x \in T : g[T \ {x}] = h[T \ {x}]) => At(g, T) = At(h, T)
  <2> SUFFICES ASSUME NEW T, NEW g, NEW h, \A x \in T : g[T \ {x}] = h[T \ {x}]
               PROVE  At(g, T) = At(h, T)
    BY Zenon
  <2>1. CASE T = {}
    BY <2>1
  <2>2. CASE T # {}
    <3> DEFINE y == CHOOSE x \in T : TRUE
    <3>1. y \in T
      BY <2>2
    <3>2. g[T \ {y}] = h[T \ {y}]
      BY <3>1
    <3>3. At(g, T) = f[y] + g[T \ {y}] /\ At(h, T) = f[y] + h[T \ {y}]
      BY <2>2, Zenon
    <3> HIDE DEF y, At
    <3> QED BY <3>2, <3>3
  <2> QED BY <2>1, <2>2
<1>3. ASSUME Bad # {} PROVE FALSE
  <2>1. PICK n \in Bad : \A m \in Bad : ~(<<m, n>> \in OpToRel(<, Nat))
    <3>1. Bad \subseteq Nat
      OBVIOUS
    <3> HIDE DEF Bad
    <3> QED BY <1>3, <3>1, WFMin, NatLessThanWellFounded
  <2>2. n \in Nat /\ ~ \E g : Partial(g, n)
    OBVIOUS
  <2>3. CASE n = 0
    <3>1. \A T \in Up(0) : T = {} /\ \A g : At(g, T) = 0
      BY <1>1
    <3>2. Partial([T \in Up(n) |-> 0], n)
      <4> HIDE DEF At
      <4> QED BY <3>1, <2>3
    <3> QED BY <2>2, <3>2
  <2>4. CASE n # 0
    <3>1. n - 1 \in Nat /\ <<n - 1, n>> \in OpToRel(<, Nat)
      BY <2>2, <2>4 DEF OpToRel
    <3>2. PICK g : Partial(g, n - 1)
      BY <2>1, <3>1
    <3> DEFINE h == [T \in Up(n) |-> At(g, T)]
    <3>3. Up(n - 1) \subseteq Up(n)
      BY <1>1, <2>2
    <3>4. ASSUME NEW T \in Up(n), NEW x \in T PROVE T \ {x} \in Up(n - 1)
      BY <1>1, <2>2, FS_RemoveElement
    <3> HIDE DEF At, Up
    <3>5. \A T \in Up(n - 1) : h[T] = g[T]
      BY <3>2, <3>3
    <3>6. ASSUME NEW T \in Up(n) PROVE At(g, T) = At(h, T)
      <4> HIDE DEF h
      <4> QED BY <1>2, <3>4, <3>5
    <3>7. h = [T \in Up(n) |-> At(h, T)]
      BY <3>6
    <3> QED BY <2>2, <3>7
  <2> QED BY <2>3, <2>4
<1>4. PICK g : Partial(g, Cardinality(S))
  BY <1>1, <1>3, FS_CardinalityType
<1>5. Up(Cardinality(S)) = SUBSET S
  BY <1>1
<1> QED BY <1>4, <1>5 DEF IsSum

Chosen(T) == CHOOSE x \in T : TRUE

LEMMA ChosenIn == \A T : T # {} => Chosen(T) \in T
BY DEF Chosen

\* What a sum is at the empty set and at any other.
Sums(sum, f, S) ==
  /\ sum[{}] = 0
  /\ \A T \in SUBSET S : T # {} => sum[T] = f[Chosen(T)] + sum[T \ {Chosen(T)}]

LEMMA SumSteps ==
  ASSUME NEW S, NEW f, NEW sum, IsSum(sum, f, S)
  PROVE  Sums(sum, f, S)
PROOF
<1>1. sum[{}] = 0
  BY DEF IsSum
<1>2. ASSUME NEW T \in SUBSET S, T # {}
      PROVE  sum[T] = f[Chosen(T)] + sum[T \ {Chosen(T)}]
  <2>1. sum[T] = IF T = {} THEN 0 ELSE LET x == CHOOSE x \in T : TRUE IN f[x] + sum[T \ {x}]
    BY DEF IsSum
  <2> QED BY <1>2, <2>1 DEF Chosen
<1> QED BY <1>1, <1>2 DEF Sums

LEMMA SumIsSum ==
  ASSUME NEW S, IsFiniteSet(S), NEW f
  PROVE  \E sum : Sums(sum, f, S) /\ SumFunctionOnSet(f, S) = sum[S]
PROOF
<1>1. SumFunctionOnSet(f, S) = (CHOOSE sum : IsSum(sum, f, S))[S]
  BY DEF SumFunctionOnSet, FoldFunctionOnSet, MapThenFoldSet, IsSum
<1>2. IsSum(CHOOSE sum : IsSum(sum, f, S), f, S)
  BY SumExists
<1>3. Sums(CHOOSE sum : IsSum(sum, f, S), f, S)
  BY <1>2, SumSteps
<1> QED BY <1>1, <1>3

\* A sum of natural numbers is one.
LEMMA SumNat ==
  ASSUME NEW S, IsFiniteSet(S), NEW f, \A x \in S : f[x] \in Nat
  PROVE  SumFunctionOnSet(f, S) \in Nat
PROOF
<1>1. PICK sum : Sums(sum, f, S) /\ SumFunctionOnSet(f, S) = sum[S]
  BY SumIsSum
<1> DEFINE F == {T \in SUBSET S : sum[T] \notin Nat}
<1>2. SUFFICES ASSUME F # {} PROVE FALSE
  BY <1>1
<1>3. PICK T \in F : \A x \in T : T \ {x} \notin F
  <2>1. F \in SUBSET (SUBSET S)
    OBVIOUS
  <2> HIDE DEF F
  <2> QED BY <1>2, <2>1, MinimalSubset
<1>4. T # {} /\ Chosen(T) \in T /\ sum[T] = f[Chosen(T)] + sum[T \ {Chosen(T)}]
  <2>1. /\ sum[{}] = 0
        /\ \A U \in SUBSET S : U # {} => sum[U] = f[Chosen(U)] + sum[U \ {Chosen(U)}]
    BY <1>1 DEF Sums
  <2>2. T \in SUBSET S /\ T # {}
    <3>1. {} \notin F
      BY <2>1
    <3> QED BY <3>1
  <2> QED BY <2>1, <2>2, ChosenIn
<1>5. sum[T \ {Chosen(T)}] \in Nat /\ f[Chosen(T)] \in Nat
  BY <1>3, <1>4
<1> QED BY <1>4, <1>5

\* What two functions add up to is at most the sum of one that bounds them together.
LEMMA SumBound ==
  ASSUME NEW S, IsFiniteSet(S), NEW f, NEW g, NEW h,
         \A x \in S : f[x] \in Nat /\ g[x] \in Nat /\ h[x] \in Nat /\ f[x] + g[x] <= h[x]
  PROVE  SumFunctionOnSet(f, S) + SumFunctionOnSet(g, S) <= SumFunctionOnSet(h, S)
PROOF
<1>1. PICK a : Sums(a, f, S) /\ SumFunctionOnSet(f, S) = a[S]
  BY SumIsSum
<1>2. PICK b : Sums(b, g, S) /\ SumFunctionOnSet(g, S) = b[S]
  BY SumIsSum
<1>3. PICK c : Sums(c, h, S) /\ SumFunctionOnSet(h, S) = c[S]
  BY SumIsSum
<1> DEFINE F == {T \in SUBSET S : ~(a[T] \in Nat /\ b[T] \in Nat /\ c[T] \in Nat /\ a[T] + b[T] <= c[T])}
<1>4. SUFFICES ASSUME F # {} PROVE FALSE
  BY <1>1, <1>2, <1>3
<1>5. PICK T \in F : \A x \in T : T \ {x} \notin F
  <2>1. F \in SUBSET (SUBSET S)
    OBVIOUS
  <2> HIDE DEF F
  <2> QED BY <1>4, <2>1, MinimalSubset
<1>6. /\ a[{}] = 0
      /\ \A U \in SUBSET S : U # {} => a[U] = f[Chosen(U)] + a[U \ {Chosen(U)}]
  BY <1>1 DEF Sums
<1>7. /\ b[{}] = 0
      /\ \A U \in SUBSET S : U # {} => b[U] = g[Chosen(U)] + b[U \ {Chosen(U)}]
  BY <1>2 DEF Sums
<1>8. /\ c[{}] = 0
      /\ \A U \in SUBSET S : U # {} => c[U] = h[Chosen(U)] + c[U \ {Chosen(U)}]
  BY <1>3 DEF Sums
<1>9. T \in SUBSET S /\ T # {}
  <2>1. {} \notin F
    BY <1>6, <1>7, <1>8
  <2> QED BY <2>1
<1>10. PICK x \in T : /\ a[T] = f[x] + a[T \ {x}] /\ b[T] = g[x] + b[T \ {x}]
                      /\ c[T] = h[x] + c[T \ {x}]
  BY <1>6, <1>7, <1>8, <1>9, ChosenIn, Zenon
<1>11. PICK U \in SUBSET S : U = T \ {x} /\ U \notin F
  BY <1>5
<1> QED BY <1>10, <1>11

\* A sum is monotonic.
LEMMA SumMonotonic ==
  ASSUME NEW S, IsFiniteSet(S), NEW f, NEW g,
         \A x \in S : f[x] \in Nat /\ g[x] \in Nat /\ f[x] <= g[x]
  PROVE  SumFunctionOnSet(f, S) <= SumFunctionOnSet(g, S)
PROOF
<1> DEFINE zero == [x \in S |-> 0]
<1>1. \A x \in S : /\ f[x] \in Nat /\ zero[x] \in Nat /\ g[x] \in Nat
                   /\ f[x] + zero[x] <= g[x]
  OBVIOUS
<1>2. SumFunctionOnSet(zero, S) \in Nat /\ SumFunctionOnSet(f, S) \in Nat
      /\ SumFunctionOnSet(g, S) \in Nat
  <2> HIDE DEF zero
  <2> QED BY <1>1, SumNat
<1>3. SumFunctionOnSet(f, S) + SumFunctionOnSet(zero, S) <= SumFunctionOnSet(g, S)
  <2> HIDE DEF zero
  <2> QED BY <1>1, SumBound
<1> QED BY <1>2, <1>3

\* The sum moves by what one term moves by.
LEMMA SumPoint ==
  ASSUME NEW S, IsFiniteSet(S), NEW f, NEW g, NEW r \in S,
         \A x \in S : f[x] \in Nat /\ g[x] \in Nat,
         \A x \in S : x # r => f[x] = g[x]
  PROVE  SumFunctionOnSet(g, S) + f[r] = SumFunctionOnSet(f, S) + g[r]
PROOF
<1>1. PICK a : Sums(a, f, S) /\ SumFunctionOnSet(f, S) = a[S]
  BY SumIsSum
<1>2. PICK b : Sums(b, g, S) /\ SumFunctionOnSet(g, S) = b[S]
  BY SumIsSum
<1> DEFINE F == {T \in SUBSET S : ~ /\ a[T] \in Nat /\ b[T] \in Nat
                                    /\ r \in T => b[T] + f[r] = a[T] + g[r]
                                    /\ r \notin T => b[T] = a[T]}
<1>3. SUFFICES ASSUME F # {} PROVE FALSE
  BY <1>1, <1>2
<1>4. PICK T \in F : \A x \in T : T \ {x} \notin F
  <2>1. F \in SUBSET (SUBSET S)
    OBVIOUS
  <2> HIDE DEF F
  <2> QED BY <1>3, <2>1, MinimalSubset
<1>5. /\ a[{}] = 0
      /\ \A U \in SUBSET S : U # {} => a[U] = f[Chosen(U)] + a[U \ {Chosen(U)}]
  BY <1>1 DEF Sums
<1>6. /\ b[{}] = 0
      /\ \A U \in SUBSET S : U # {} => b[U] = g[Chosen(U)] + b[U \ {Chosen(U)}]
  BY <1>2 DEF Sums
<1>7. T \in SUBSET S /\ T # {}
  <2>1. {} \notin F
    BY <1>5, <1>6
  <2> QED BY <2>1
<1>8. PICK x \in T : a[T] = f[x] + a[T \ {x}] /\ b[T] = g[x] + b[T \ {x}]
  BY <1>5, <1>6, <1>7, ChosenIn, Zenon
<1>9. PICK U \in SUBSET S : U = T \ {x} /\ U \notin F
  <2>1. T \ {x} \in SUBSET S /\ T \ {x} \notin F
    <3> HIDE DEF F
    <3> QED BY <1>4, <1>7
  <2> HIDE DEF F
  <2> QED BY <2>1
<1>10. CASE x = r
  <2>1. r \notin U /\ r \in T
    BY <1>9, <1>10
  <2> QED BY <1>8, <1>9, <1>10, <2>1
<1>11. CASE x # r
  <2>1. (r \in U <=> r \in T) /\ f[x] = g[x]
    BY <1>9, <1>11
  <2> QED BY <1>8, <1>9, <2>1
<1> QED BY <1>10, <1>11

\* The sum of one amount over some of the elements.
LEMMA SumOfEqual ==
  ASSUME NEW S, IsFiniteSet(S), NEW A \in SUBSET S, NEW m \in Nat, NEW f,
         \A x \in S : f[x] = IF x \in A THEN m ELSE 0
  PROVE  SumFunctionOnSet(f, S) = m * Cardinality(A)
PROOF
<1>1. PICK a : Sums(a, f, S) /\ SumFunctionOnSet(f, S) = a[S]
  BY SumIsSum
<1> DEFINE F == {T \in SUBSET S : a[T] # m * Cardinality(A \cap T)}
<1>2. A \cap S = A
  OBVIOUS
<1>3. \A T : IsFiniteSet(A \cap T) /\ Cardinality(A \cap T) \in Nat
  <2>1. \A T : A \cap T \in SUBSET S
    OBVIOUS
  <2> QED BY <2>1, FS_Subset, FS_CardinalityType
<1>4. SUFFICES ASSUME F # {} PROVE FALSE
  BY <1>1, <1>2
<1>5. PICK T \in F : \A x \in T : T \ {x} \notin F
  <2>1. F \in SUBSET (SUBSET S)
    OBVIOUS
  <2> HIDE DEF F
  <2> QED BY <1>4, <2>1, MinimalSubset
<1>6. CASE T = {}
  <2>1. A \cap T = {} /\ a[T] = 0
    BY <1>1, <1>6 DEF Sums
  <2>2. Cardinality(A \cap T) = 0
    BY <2>1, FS_EmptySet
  <2> QED BY <2>1, <2>2
<1>7. CASE T # {}
  <2>1. PICK x \in T : a[T] = f[x] + a[T \ {x}]
    BY <1>1, <1>7, ChosenIn DEF Sums
  <2>2. a[T \ {x}] = m * Cardinality(A \cap (T \ {x}))
    BY <1>5
  <2>3. PICK c \in Nat : c = Cardinality(A \cap (T \ {x}))
    BY <1>3
  <2>4. CASE x \in A
    <3>1. A \cap T = (A \cap (T \ {x})) \cup {x} /\ x \notin A \cap (T \ {x})
      BY <2>4
    <3>2. Cardinality(A \cap T) = c + 1
      BY <1>3, <2>3, <3>1, FS_AddElement
    <3>3. m * (c + 1) = m + m * c
      OBVIOUS
    <3>4. a[T] = m * (c + 1)
      BY <2>1, <2>2, <2>3, <2>4, <3>3
    <3> QED BY <3>2, <3>4
  <2>5. CASE x \notin A
    <3>1. A \cap T = A \cap (T \ {x})
      BY <2>5
    <3>2. f[x] = 0 /\ m * c \in Nat
      BY <2>5
    <3>3. a[T] = m * c
      BY <2>1, <2>2, <2>3, <3>2
    <3> QED BY <2>3, <3>1, <3>3
  <2> QED BY <2>4, <2>5
<1> QED BY <1>6, <1>7

(*********************************** The days **********************************)
\* Days are natural numbers and follow the clock.
LEMMA DayType == \A t \in Nat : Day(t) \in Nat
BY CreditAssumption DEF CreditAssumption, Day

LEMMA DayMonotonic ==
  ASSUME NEW a \in Nat, NEW b \in Nat, a <= b
  PROVE  Day(a) <= Day(b)
PROOF
<1> DEFINE L == DayLength
           p == a \div L
           q == b \div L
<1>1. L \in Nat /\ L > 0
  BY CreditAssumption DEF CreditAssumption
<1>2. /\ p \in Nat /\ q \in Nat
      /\ a = L * p + (a % L) /\ b = L * q + (b % L)
      /\ a % L \in 0..(L - 1) /\ b % L \in 0..(L - 1)
  BY <1>1
<1>3. SUFFICES ASSUME q < p PROVE FALSE
  BY <1>2 DEF Day
<1>4. PICK d \in Nat : p = q + 1 + d
  <2>1. p - q - 1 \in Nat
    BY <1>2, <1>3
  <2> QED BY <2>1, <1>2
<1>5. L * p = L * q + L + L * d /\ L * d \in Nat /\ L * q \in Nat
  <2> HIDE DEF L, p, q
  <2> QED BY <1>1, <1>2, <1>4
<1> HIDE DEF L, p, q
<1> QED BY <1>1, <1>2, <1>5

(*************************** What a key and a day spent ***************************)
LedgerTypes == clock \in Times /\ RowTypes

\* What the columns of a row say together, and to the provider's charge and the clock.
Consistent(r) ==
  /\ state[r] = "none" => epoch[r] = Nothing /\ charge[r] = 0
  /\ state[r] = "released" => charge[r] = 0
  /\ state[r] = "settled" => charge[r] <= charged[r]
  /\ retained[r] # Nothing => state[r] = "settled" /\ retained[r] <= Today
  /\ epoch[r] # Nothing => epoch[r] <= Today
  /\ settledAt[r] <= clock

RowInv == \A r \in Requests : Consistent(r)

LedgerInv == LedgerTypes /\ RowInv /\ LimitsHold

\* The steps that close a row, and among them the operator's two retentions.
Keeps(r) == Retain(r) \/ RetainUnproven(r)
Closes(r) == Hold(r) \/ Release(r) \/ Keeps(r) \/ \E c \in 1..MaxAmount : Settle(r, c)
Charges(r, c) == ProviderCharges(r, c) \/ ProviderChargesLate(r, c)

\* A row that closes was open and had no retention row yet; its clock stops now.
LEMMA ClosingRow ==
  ASSUME LedgerTypes, RowInv, NEW r \in Requests, Closes(r)
  PROVE  /\ state[r] \in Outstanding /\ retained[r] = Nothing
         /\ state'[r] \in {"settled", "uncertain", "released"} /\ settledAt'[r] = clock
         /\ Keeps(r) => /\ state'[r] = "settled" /\ charged'[r] = MaxAmount
                        /\ retained'[r] = IF epoch[r] = Today THEN Nothing ELSE Today
         /\ ~Keeps(r) => retained' = retained
         /\ state'[r] = "released" => charge[r] = 0
         /\ state'[r] = "settled" => charge[r] <= charged'[r]
         /\ UNCHANGED <<clock, epoch, observation, reading, left, charge, belated>>
PROOF
<1>1. state[r] \in Outstanding /\ (retained[r] # Nothing => state[r] = "settled")
  BY DEF RowInv, Consistent, Closes, Keeps, Hold, Release, Retain, RetainUnproven, Settle, Outstanding
<1>2. charge[r] \in 0..MaxAmount /\ charge[r] <= MaxAmount
  BY CreditAssumption DEF CreditAssumption, LedgerTypes, RowTypes
<1>3. CASE Keeps(r)
  <2>1. KeepMaximum(r)
    BY <1>3 DEF Keeps, Retain, RetainUnproven
  <2>2. /\ state'[r] = "settled" /\ charged'[r] = MaxAmount /\ settledAt'[r] = clock
        /\ retained'[r] = IF epoch[r] = Today THEN Nothing ELSE Today
        /\ UNCHANGED <<clock, epoch, observation, reading, left, charge, belated>>
    BY <2>1 DEF KeepMaximum, Close, RetentionEpoch, LedgerTypes, RowTypes
  <2> QED BY <1>1, <1>2, <1>3, <2>2 DEF Outstanding
<1>4. CASE ~Keeps(r)
  <2> USE <1>4 DEF Closes
  <2>1. /\ state'[r] \in {"settled", "uncertain", "released"} /\ settledAt'[r] = clock
        /\ retained' = retained
        /\ UNCHANGED <<clock, epoch, observation, reading, left, charge, belated>>
    BY DEF Hold, Release, Settle, Close, LedgerTypes, RowTypes
  <2>2. state'[r] = "released" => charge[r] = 0
    BY DEF Hold, Release, Settle, Close, LedgerTypes, RowTypes
  <2>3. state'[r] = "settled" => charge[r] <= charged'[r]
    BY DEF Hold, Release, Settle, Close, LedgerTypes, RowTypes
  <2> QED BY <1>1, <1>4, <2>1, <2>2, <2>3 DEF Outstanding
<1> QED BY <1>3, <1>4

\* The other rows are as they were.
LEMMA OtherRows ==
  ASSUME LedgerTypes, NEW r \in Requests, Closes(r), NEW x \in Requests, x # r
  PROVE  /\ state'[x] = state[x] /\ charged'[x] = charged[x]
         /\ settledAt'[x] = settledAt[x] /\ retained'[x] = retained[x]
BY DEF Closes, Keeps, Hold, Release, Retain, RetainUnproven, KeepMaximum, Settle, Close,
       LedgerTypes, RowTypes

LEMMA TodayType == LedgerTypes => clock \in Nat /\ Today \in Nat /\ Today \in Days
PROOF
<1> SUFFICES ASSUME LedgerTypes PROVE clock \in Nat /\ Today \in Nat /\ Today \in Days
  OBVIOUS
<1>1. clock \in 0..(MaxTime + Skew) /\ clock \in Nat
  BY CreditAssumption DEF CreditAssumption, LedgerTypes, Times
<1> QED BY <1>1, DayType DEF Today, Days

LEMMA SpentByType ==
  LedgerTypes => \A r \in Requests : SpentBy(r, Today) \in Nat
BY CreditAssumption DEF CreditAssumption, LedgerTypes, RowTypes, SpentBy, Debit

LEMMA SpentOnType ==
  LedgerTypes => \A rows \in SUBSET Requests : SpentOn(Today, rows) \in Nat
PROOF
<1> SUFFICES ASSUME LedgerTypes, NEW rows \in SUBSET Requests
             PROVE  SpentOn(Today, rows) \in Nat
  OBVIOUS
<1>1. PICK f : f = [r \in Requests |-> SpentBy(r, Today)]
  OBVIOUS
<1>2. \A r \in rows : f[r] \in Nat
  BY <1>1, SpentByType
<1>3. IsFiniteSet(rows)
  BY FS_Subset, CreditAssumption DEF CreditAssumption
<1> QED BY <1>1, <1>2, <1>3, SumNat DEF SpentOn

\* What no row adds more to than before has not grown.
LEMMA SpentShrinks ==
  ASSUME LedgerTypes, LedgerTypes', NEW rows \in SUBSET Requests,
         \A r \in Requests : SpentBy(r, Today)' <= SpentBy(r, Today)
  PROVE  SpentOn(Today, rows)' <= SpentOn(Today, rows)
PROOF
<1>1. PICK f : f = [r \in Requests |-> SpentBy(r, Today)]
  OBVIOUS
<1>2. PICK g : g = [r \in Requests |-> SpentBy(r, Today)']
  OBVIOUS
<1>3. \A r \in rows : f[r] \in Nat /\ g[r] \in Nat /\ g[r] <= f[r]
  <2>1. (\A r \in Requests : SpentBy(r, Today) \in Nat)'
    BY SpentByType, PTL
  <2> QED BY <1>1, <1>2, <2>1, SpentByType
<1>4. IsFiniteSet(rows)
  BY FS_Subset, CreditAssumption DEF CreditAssumption
<1>5. SpentOn(Today, rows) = SumFunctionOnSet(f, rows)
  BY <1>1 DEF SpentOn
<1>6. SpentOn(Today, rows)' = SumFunctionOnSet(g, rows)
  BY <1>2 DEF SpentOn
<1> QED BY <1>3, <1>4, <1>5, <1>6, SumMonotonic

LEMMA SpentUnchanged ==
  ASSUME UNCHANGED <<clock, rowVars>>, NEW rows
  PROVE  SpentOn(Today, rows)' = SpentOn(Today, rows)
BY DEF rowVars, SpentOn, SpentBy, Counts, Debit, Today, Day

\* A reserved row adds its maximum, and to its own key alone.
LEMMA SpentByReserve ==
  ASSUME LedgerInv, NEW r \in Requests, Reserve(r)
  PROVE  /\ SpentBy(r, Today) = 0 /\ SpentBy(r, Today)' = MaxAmount
         /\ \A x \in Requests : x # r => SpentBy(x, Today)' = SpentBy(x, Today)
PROOF
<1>1. LedgerTypes /\ Today \in Nat /\ Nothing \notin Nat /\ MaxAmount \in Nat
  BY TodayType, CreditAssumption DEF CreditAssumption, LedgerInv
<1>2. Today' = Today
  BY DEF Reserve, Today, Day
<1>3. SpentBy(r, Today) = 0
  <2>1. state[r] = "none" /\ epoch[r] = Nothing /\ (retained[r] # Nothing => state[r] = "settled")
    BY DEF LedgerInv, RowInv, Consistent, Reserve
  <2> QED BY <1>1, <2>1 DEF SpentBy, Counts, Debit, Outstanding
<1>4. SpentBy(r, Today)' = MaxAmount
  <2>1. state'[r] = "reserved" /\ epoch'[r] = Today /\ retained'[r] = retained[r]
    BY <1>1 DEF Reserve, LedgerTypes, RowTypes
  <2>2. retained[r] # Today
    BY <1>1 DEF LedgerInv, RowInv, Consistent, Reserve
  <2> QED BY <1>1, <1>2, <2>1, <2>2 DEF SpentBy, Counts, Debit, Outstanding
<1>5. ASSUME NEW x \in Requests, x # r PROVE SpentBy(x, Today)' = SpentBy(x, Today)
  <2>1. /\ state'[x] = state[x] /\ epoch'[x] = epoch[x]
        /\ charged'[x] = charged[x] /\ retained'[x] = retained[x]
    BY <1>1, <1>5 DEF Reserve, LedgerTypes, RowTypes
  <2> QED BY <1>2, <2>1 DEF SpentBy, Counts, Debit
<1> QED BY <1>3, <1>4, <1>5

LEMMA SpentReserve ==
  ASSUME LedgerInv, NEW r \in Requests, Reserve(r), NEW rows \in SUBSET Requests
  PROVE  SpentOn(Today, rows)' = SpentOn(Today, rows) + IF r \in rows THEN MaxAmount ELSE 0
PROOF
<1>1. LedgerTypes /\ MaxAmount \in Nat
  BY CreditAssumption DEF CreditAssumption, LedgerInv
<1>2. PICK f : f = [x \in Requests |-> SpentBy(x, Today)]
  OBVIOUS
<1>3. PICK g : g = [x \in Requests |-> SpentBy(x, Today)']
  OBVIOUS
<1>4. SpentOn(Today, rows) = SumFunctionOnSet(f, rows)
  BY <1>2 DEF SpentOn
<1>5. SpentOn(Today, rows)' = SumFunctionOnSet(g, rows)
  BY <1>3 DEF SpentOn
<1>6. /\ \A x \in rows : f[x] \in Nat /\ g[x] \in Nat /\ (x # r => f[x] = g[x])
      /\ f[r] = 0 /\ g[r] = MaxAmount
  BY <1>1, <1>2, <1>3, SpentByReserve, SpentByType
<1>7. IsFiniteSet(rows)
  BY FS_Subset, CreditAssumption DEF CreditAssumption
<1>8. SumFunctionOnSet(f, rows) \in Nat /\ SumFunctionOnSet(g, rows) \in Nat
  BY <1>6, <1>7, SumNat
<1>9. CASE r \in rows
  <2>1. SumFunctionOnSet(g, rows) + f[r] = SumFunctionOnSet(f, rows) + g[r]
    BY <1>6, <1>7, <1>9, SumPoint
  <2> QED BY <1>1, <1>4, <1>5, <1>6, <1>8, <1>9, <2>1
<1>10. CASE r \notin rows
  <2>1. \A x \in rows : f[x] = g[x]
    BY <1>6, <1>10
  <2>2. /\ SumFunctionOnSet(g, rows) <= SumFunctionOnSet(f, rows)
        /\ SumFunctionOnSet(f, rows) <= SumFunctionOnSet(g, rows)
    BY <1>6, <1>7, <2>1, SumMonotonic
  <2> QED BY <1>4, <1>5, <1>8, <1>10, <2>2
<1> QED BY <1>9, <1>10

\* A row that closes adds no more than before, and one retained exactly as much.
LEMMA SpentClose ==
  ASSUME LedgerInv, LedgerTypes', NEW r \in Requests, Closes(r), NEW x \in Requests
  PROVE  /\ SpentBy(x, Today)' <= SpentBy(x, Today)
         /\ Keeps(r) => SpentBy(x, Today)' = SpentBy(x, Today)
PROOF
<1>1. LedgerTypes /\ RowInv /\ Today \in Nat /\ Nothing \notin Nat /\ MaxAmount \in Nat
  BY TodayType, CreditAssumption DEF CreditAssumption, LedgerInv
<1>2. Today' = Today /\ epoch' = epoch
  BY <1>1, ClosingRow DEF Today, Day
<1>3. SpentBy(x, Today) \in Nat
  BY <1>1, SpentByType
<1>4. CASE x # r
  <2>1. state'[x] = state[x] /\ charged'[x] = charged[x] /\ retained'[x] = retained[x]
    BY <1>1, <1>4, OtherRows
  <2>2. SpentBy(x, Today)' = SpentBy(x, Today)
    BY <1>2, <2>1 DEF SpentBy, Counts, Debit
  <2> QED BY <1>3, <2>2
<1>5. CASE x = r
  <2>1. state[r] \in Outstanding /\ retained[r] = Nothing
    BY <1>1, ClosingRow
  <2>2. SpentBy(r, Today) = MaxAmount
    BY <1>1, <2>1 DEF SpentBy, Counts, Debit
  <2>3. CASE Keeps(r)
    <3>1. /\ state'[r] = "settled" /\ charged'[r] = MaxAmount
          /\ retained'[r] = IF epoch[r] = Today THEN Nothing ELSE Today
      BY <1>1, <2>3, ClosingRow
    <3>2. SpentBy(r, Today)' = MaxAmount
      BY <1>1, <1>2, <3>1 DEF SpentBy, Counts, Debit, Outstanding
    <3> QED BY <1>1, <1>5, <2>2, <3>2
  <2>4. CASE ~Keeps(r)
    <3>1. retained'[r] = Nothing
      BY <1>1, <2>1, <2>4, ClosingRow
    <3>2. charged'[r] \in 0..MaxAmount
      BY DEF LedgerTypes, RowTypes
    <3>3. Debit(r)' \in 0..MaxAmount
      BY <1>1, <3>2 DEF Debit
    <3>4. SpentBy(r, Today)' \in 0..MaxAmount
      BY <1>1, <1>2, <3>1, <3>3 DEF SpentBy
    <3> QED BY <1>1, <1>5, <2>2, <2>4, <3>4
  <2> QED BY <2>3, <2>4
<1> QED BY <1>4, <1>5

\* Midnight: an open row takes of the new day what it took of the old, a closed one nothing.
LEMMA SpentMidnight ==
  ASSUME LedgerInv, LedgerTypes', Tick, Today' # Today, NEW x \in Requests
  PROVE  SpentBy(x, Today)' = IF state[x] \in Outstanding THEN SpentBy(x, Today) ELSE 0
PROOF
<1>1. LedgerTypes /\ Today \in Nat /\ Nothing \notin Nat /\ MaxAmount \in Nat /\ clock \in Nat
  BY TodayType, CreditAssumption DEF CreditAssumption, LedgerInv
<1>2. Today' \in Nat /\ Today <= Today'
  <2>1. Today' = Day(clock + 1) /\ Today = Day(clock)
    BY DEF Tick, Today, Day
  <2> QED BY <1>1, <2>1, DayType, DayMonotonic
<1>3. UNCHANGED <<state, epoch, charged, retained>>
  BY DEF Tick, rowVars
<1>4. Consistent(x)
  BY DEF LedgerInv, RowInv
<1>5. Debit(x) \in Nat
  BY <1>1 DEF LedgerTypes, RowTypes, Debit
<1>6. epoch[x] \in Nat \union {Nothing} /\ retained[x] \in Nat \union {Nothing}
  <2>1. Days \subseteq Nat
    BY DayType, CreditAssumption DEF CreditAssumption, Days
  <2> QED BY <1>1, <2>1 DEF LedgerTypes, RowTypes
<1>7. epoch[x] # Today' /\ retained[x] # Today'
  BY <1>1, <1>2, <1>4, <1>6 DEF Consistent
<1>8. SpentBy(x, Today)' = IF state[x] \in Outstanding THEN Debit(x) ELSE 0
  BY <1>3, <1>5, <1>7 DEF SpentBy, Counts, Debit
<1>9. CASE state[x] \in Outstanding
  <2>1. retained[x] = Nothing
    BY <1>4, <1>9 DEF Consistent, Outstanding
  <2>2. SpentBy(x, Today) = Debit(x)
    BY <1>1, <1>5, <1>9, <2>1 DEF SpentBy, Counts
  <2> QED BY <1>8, <1>9, <2>2
<1> QED BY <1>8, <1>9

LEMMA SpentTick ==
  ASSUME LedgerInv, LedgerTypes', Tick, NEW x \in Requests
  PROVE  SpentBy(x, Today)' <= SpentBy(x, Today)
PROOF
<1>1. SpentBy(x, Today) \in Nat
  BY SpentByType DEF LedgerInv
<1>2. CASE Today' = Today
  <2>1. SpentBy(x, Today)' = SpentBy(x, Today)
    BY <1>2 DEF Tick, rowVars, SpentBy, Counts, Debit
  <2> QED BY <1>1, <2>1
<1>3. CASE Today' # Today
  BY <1>1, <1>3, SpentMidnight
<1> QED BY <1>2, <1>3

(************************* The limits, for any clock skew *************************)
\* Every step is a tick, a reservation, a row that closes, a charge, or leaves the
\* rows, the charges and the clock alone.
LEMMA LedgerCases ==
  ASSUME [Next]_vars
  PROVE  \/ Tick
         \/ \E r \in Requests : Reserve(r) \/ Closes(r)
         \/ \E r \in Requests, c \in 1..MaxAmount : Charges(r, c)
         \/ UNCHANGED <<clock, rowVars, charge>>
BY DEF Next, vars, Closes, Keeps, Charges, StartReading, ReadBalance, Observe, MarkCapacityUnavailable

LEMMA LedgerTypesStep ==
  ASSUME LedgerTypes, [Next]_vars
  PROVE  LedgerTypes'
PROOF
<1> USE DEF LedgerTypes, RowTypes
<1>1. /\ MaxAmount \in Nat /\ MaxTime \in Nat /\ 0 \in 0..MaxAmount /\ MaxAmount \in 0..MaxAmount
      /\ \A c \in 1..MaxAmount : c \in 0..MaxAmount
  BY CreditAssumption DEF CreditAssumption
<1>2. CASE Tick
  BY <1>1, <1>2 DEF Tick, rowVars, Times
<1>3. ASSUME NEW r \in Requests, Reserve(r) PROVE LedgerTypes'
  <2>1. Today \in Days
    BY TodayType
  <2> QED BY <1>3, <2>1 DEF Reserve
<1>4. ASSUME NEW r \in Requests, Closes(r) PROVE LedgerTypes'
  <2>1. RetentionEpoch(r) \in Days \union {Nothing}
    BY TodayType DEF RetentionEpoch
  <2>2. CASE Keeps(r)
    BY <1>1, <2>1, <2>2 DEF Keeps, Retain, RetainUnproven, KeepMaximum, Close
  <2>3. CASE ~Keeps(r)
    BY <1>1, <1>4, <2>3 DEF Closes, Close, Hold, Release, Settle
  <2> QED BY <2>2, <2>3
<1>5. ASSUME NEW r \in Requests, NEW c \in 1..MaxAmount, Charges(r, c)
      PROVE  LedgerTypes'
  BY <1>1, <1>5 DEF Charges, ProviderCharges, ProviderChargesLate, Meter, rowVars
<1>6. CASE UNCHANGED <<clock, rowVars, charge>>
  BY <1>6 DEF rowVars
<1> QED BY <1>2, <1>3, <1>4, <1>5, <1>6, LedgerCases

LEMMA RowInvStep ==
  ASSUME LedgerTypes, LedgerTypes', RowInv, [Next]_vars
  PROVE  RowInv'
PROOF
<1>1. /\ Today \in Nat /\ Nothing \notin Nat /\ MaxAmount \in Nat /\ clock \in Nat
      /\ Days \subseteq Nat
  BY TodayType, DayType, CreditAssumption DEF CreditAssumption, Days
<1> SUFFICES ASSUME NEW x \in Requests PROVE Consistent(x)'
  BY DEF RowInv
<1>2. Consistent(x)
  BY DEF RowInv
<1>3. /\ epoch[x] \in Nat \union {Nothing} /\ retained[x] \in Nat \union {Nothing}
      /\ settledAt[x] \in Nat /\ charge[x] \in 0..MaxAmount
  <2>1. \A t \in Times : t \in Nat
    BY CreditAssumption DEF Times, CreditAssumption
  <2> QED BY <1>1, <2>1 DEF LedgerTypes, RowTypes
<1>4. CASE Tick
  <2>1. Today' \in Nat /\ Today <= Today'
    <3>1. Today' = Day(clock + 1) /\ Today = Day(clock)
      BY <1>4 DEF Tick, Today, Day
    <3> QED BY <1>1, <3>1, DayType, DayMonotonic
  <2>2. clock' = clock + 1 /\ UNCHANGED <<state, charged, epoch, settledAt, retained, charge>>
    BY <1>4 DEF Tick, rowVars
  <2> QED BY <1>1, <1>2, <1>3, <2>1, <2>2 DEF Consistent
<1>5. ASSUME NEW r \in Requests, Reserve(r)
      PROVE  Consistent(x)'
  <2>1. Today' = Today /\ UNCHANGED <<clock, charged, settledAt, retained, charge>>
    BY <1>5 DEF Reserve, Today, Day
  <2>2. CASE x = r
    <3>1. state[x] = "none" /\ state'[x] = "reserved" /\ epoch'[x] = Today
      BY <1>5, <2>2 DEF Reserve, LedgerTypes, RowTypes
    <3> QED BY <1>1, <1>2, <2>1, <3>1 DEF Consistent
  <2>3. CASE x # r
    <3>1. state'[x] = state[x] /\ epoch'[x] = epoch[x]
      BY <1>5, <2>3 DEF Reserve, LedgerTypes, RowTypes
    <3> QED BY <1>2, <2>1, <3>1 DEF Consistent
  <2> QED BY <2>2, <2>3
<1>6. ASSUME NEW r \in Requests, Closes(r)
      PROVE  Consistent(x)'
  <2>1. Today' = Today /\ UNCHANGED <<clock, epoch, charge>>
    BY <1>6, ClosingRow DEF Today, Day
  <2>2. CASE x = r
    <3>1. state[x] \in Outstanding /\ retained[x] = Nothing
      BY <1>6, <2>2, ClosingRow
    <3>2. settledAt'[x] = clock /\ state'[x] \in {"settled", "uncertain", "released"}
      BY <1>6, <2>2, ClosingRow
    <3>3. \/ retained'[x] = Nothing
          \/ retained'[x] = Today /\ state'[x] = "settled"
      BY <1>6, <2>2, ClosingRow
    <3>4. state'[x] = "released" => charge[x] = 0
      BY <1>6, <2>2, ClosingRow
    <3>5. state'[x] = "settled" => charge[x] <= charged'[x]
      BY <1>6, <2>2, ClosingRow
    <3> QED BY <1>1, <1>2, <2>1, <3>1, <3>2, <3>3, <3>4, <3>5 DEF Consistent, Outstanding
  <2>3. CASE x # r
    <3>1. /\ state'[x] = state[x] /\ charged'[x] = charged[x]
          /\ retained'[x] = retained[x] /\ settledAt'[x] = settledAt[x]
      BY <1>6, <2>3, OtherRows
    <3> QED BY <1>2, <2>1, <3>1 DEF Consistent
  <2> QED BY <2>2, <2>3
<1>7. ASSUME NEW r \in Requests, NEW c \in 1..MaxAmount, Charges(r, c)
      PROVE  Consistent(x)'
  <2>1. Today' = Today /\ UNCHANGED <<clock, state, charged, epoch, settledAt, retained>>
    BY <1>7 DEF Charges, ProviderCharges, ProviderChargesLate, Meter, rowVars, Today, Day
  <2>2. \/ charge'[x] = charge[x] \/ state[x] \in Outstanding
        \/ state[x] = "settled" /\ charge'[x] <= charged[x]
    BY <1>7 DEF Charges, ProviderCharges, ProviderChargesLate, Meter, LedgerTypes, RowTypes
  <2> QED BY <1>2, <2>1, <2>2 DEF Outstanding, Consistent
<1>8. CASE UNCHANGED <<clock, rowVars, charge>>
  BY <1>2, <1>8 DEF rowVars, Today, Day, Consistent
<1> QED BY <1>4, <1>5, <1>6, <1>7, <1>8, LedgerCases

LEMMA LimitsStep ==
  ASSUME LedgerInv, LedgerTypes', [Next]_vars
  PROVE  LimitsHold'
PROOF
<1>1. /\ LedgerTypes /\ MaxAmount \in Nat /\ MaxConcurrency \in Nat /\ DailyCredit \in Nat
      /\ \A k \in Keys : KeyLimit[k] \in Nat
      /\ \A k : RowsOf(k) \in SUBSET Requests
      /\ Requests \in SUBSET Requests
  BY CreditAssumption DEF CreditAssumption, LedgerInv, RowsOf
<1>2. PICK A : A = {r \in Requests : state[r] = "reserved"}
  OBVIOUS
<1>3. PICK B : B = {r \in Requests : state'[r] = "reserved"}
  OBVIOUS
<1>4. Concurrent = Cardinality(A) /\ Concurrent' = Cardinality(B)
  BY <1>2, <1>3 DEF Concurrent
<1>5. IsFiniteSet(A) /\ IsFiniteSet(B) /\ Cardinality(A) \in Nat /\ Cardinality(B) \in Nat
  <2>1. A \in SUBSET Requests /\ B \in SUBSET Requests
    BY <1>2, <1>3
  <2> QED BY <2>1, FS_Subset, FS_CardinalityType, CreditAssumption DEF CreditAssumption
<1>6. /\ \A k \in Keys : SpentOn(Today, RowsOf(k)) <= KeyLimit[k]
      /\ SpentOn(Today, Requests) <= DailyCredit
      /\ Cardinality(A) <= MaxConcurrency
  BY <1>4 DEF LedgerInv, LimitsHold
<1>7. \A rows \in SUBSET Requests : SpentOn(Today, rows) \in Nat
  BY <1>1, SpentOnType
<1>8. \A rows \in SUBSET Requests : (SpentOn(Today, rows) \in Nat)'
  <2>1. (\A rows \in SUBSET Requests : SpentOn(Today, rows) \in Nat)'
    BY SpentOnType, PTL
  <2> QED BY <2>1
<1>9. ASSUME B \subseteq A,
             \A rows \in SUBSET Requests : SpentOn(Today, rows)' <= SpentOn(Today, rows)
      PROVE  LimitsHold'
  <2>1. Cardinality(B) <= Cardinality(A)
    BY <1>5, <1>9, FS_Subset
  <2>2. Cardinality(B) <= MaxConcurrency
    BY <1>1, <1>5, <1>6, <2>1
  <2>3. \A k \in Keys : SpentOn(Today, RowsOf(k))' <= KeyLimit[k]
    BY <1>1, <1>6, <1>7, <1>8, <1>9
  <2>4. SpentOn(Today, Requests)' <= DailyCredit
    BY <1>1, <1>6, <1>7, <1>8, <1>9
  <2> QED BY <1>4, <2>2, <2>3, <2>4 DEF LimitsHold, RowsOf
<1>10. ASSUME NEW r \in Requests, Reserve(r) PROVE LimitsHold'
  <2>1. \A rows \in SUBSET Requests :
          SpentOn(Today, rows)' = SpentOn(Today, rows) + IF r \in rows THEN MaxAmount ELSE 0
    BY <1>10, SpentReserve
  <2>2. /\ Concurrent < MaxConcurrency
        /\ SpentOn(Today, Requests) + MaxAmount <= DailyCredit
        /\ SpentOn(Today, RowsOf(KeyOf[r])) + MaxAmount <= KeyLimit[KeyOf[r]]
    BY <1>10 DEF Reserve, SlotFree, WithinBudgets
  <2>3. B = A \cup {r} /\ r \notin A
    BY <1>1, <1>2, <1>3, <1>10 DEF Reserve, LedgerTypes, RowTypes
  <2>4. Cardinality(B) <= MaxConcurrency
    BY <1>1, <1>4, <1>5, <2>2, <2>3, FS_AddElement
  <2>5. SpentOn(Today, Requests)' <= DailyCredit
    BY <2>1, <2>2
  <2>6. ASSUME NEW k \in Keys PROVE SpentOn(Today, RowsOf(k))' <= KeyLimit[k]
    <3>1. CASE k = KeyOf[r]
      <4>1. r \in RowsOf(k)
        BY <3>1 DEF RowsOf
      <4> QED BY <1>1, <2>1, <2>2, <3>1, <4>1
    <3>2. CASE k # KeyOf[r]
      <4>1. r \notin RowsOf(k)
        BY <3>2 DEF RowsOf
      <4>2. SpentOn(Today, RowsOf(k)) \in Nat /\ SpentOn(Today, RowsOf(k)) <= KeyLimit[k]
        BY <1>1, <1>6, <1>7
      <4> QED BY <1>1, <2>1, <4>1, <4>2
    <3> QED BY <3>1, <3>2
  <2> QED BY <1>4, <2>4, <2>5, <2>6 DEF LimitsHold, RowsOf
<1>11. ASSUME NEW r \in Requests, Closes(r) PROVE LimitsHold'
  <2>1. \A x \in Requests : SpentBy(x, Today)' <= SpentBy(x, Today)
    BY <1>11, SpentClose
  <2>2. \A rows \in SUBSET Requests : SpentOn(Today, rows)' <= SpentOn(Today, rows)
    BY <1>1, <2>1, SpentShrinks
  <2>3. \A x \in Requests : state'[x] = "reserved" => state[x] = "reserved"
    BY <1>1, <1>11, ClosingRow, OtherRows DEF LedgerInv
  <2>4. B \subseteq A
    BY <1>2, <1>3, <2>3
  <2> QED BY <1>9, <2>2, <2>4
<1>12. CASE Tick
  <2>1. \A x \in Requests : SpentBy(x, Today)' <= SpentBy(x, Today)
    BY <1>12, SpentTick
  <2>2. \A rows \in SUBSET Requests : SpentOn(Today, rows)' <= SpentOn(Today, rows)
    BY <1>1, <2>1, SpentShrinks
  <2>3. B \subseteq A
    BY <1>2, <1>3, <1>12 DEF Tick, rowVars
  <2> QED BY <1>9, <2>2, <2>3
<1>13. CASE UNCHANGED <<clock, rowVars>>
  <2>1. \A rows \in SUBSET Requests : SpentOn(Today, rows)' = SpentOn(Today, rows)
    BY <1>13, SpentUnchanged
  <2>2. \A rows \in SUBSET Requests : SpentOn(Today, rows)' <= SpentOn(Today, rows)
    BY <1>7, <2>1
  <2>3. B \subseteq A
    BY <1>2, <1>3, <1>13 DEF rowVars
  <2> QED BY <1>9, <2>2, <2>3
<1>14. \A r \in Requests, c \in 1..MaxAmount : Charges(r, c) => UNCHANGED <<clock, rowVars>>
  BY DEF Charges, ProviderCharges, ProviderChargesLate, Meter
<1> QED BY <1>10, <1>11, <1>12, <1>13, <1>14, LedgerCases

LEMMA LedgerInit == Init => LedgerInv
PROOF
<1> SUFFICES ASSUME Init PROVE LedgerInv
  OBVIOUS
<1>1. MaxAmount \in Nat /\ MaxTime \in Nat /\ DailyCredit \in Nat /\ MaxConcurrency \in Nat
      /\ \A k \in Keys : KeyLimit[k] \in Nat
  BY CreditAssumption DEF CreditAssumption
<1>2. LedgerTypes
  BY <1>1 DEF Init, LedgerTypes, RowTypes, Times
<1>3. RowInv
  BY <1>1 DEF Init, RowInv, Consistent
<1>4. ASSUME NEW rows \in SUBSET Requests PROVE SpentOn(Today, rows) = 0
  <2>1. Today \in Nat /\ Nothing \notin Nat
    BY <1>2, TodayType, CreditAssumption DEF CreditAssumption
  <2>2. PICK f : f = [r \in Requests |-> SpentBy(r, Today)]
    OBVIOUS
  <2>3. \A r \in rows : f[r] = IF r \in {} THEN 0 ELSE 0
    BY <2>1, <2>2 DEF Init, SpentBy, Counts, Debit, Outstanding
  <2>4. SumFunctionOnSet(f, rows) = 0 * Cardinality({})
    <3>1. IsFiniteSet(rows) /\ {} \in SUBSET rows /\ 0 \in Nat
      BY FS_Subset, CreditAssumption DEF CreditAssumption
    <3> QED BY <2>3, <3>1, SumOfEqual
  <2> QED BY <2>2, <2>4, FS_EmptySet DEF SpentOn
<1>5. Concurrent = 0
  <2>1. {r \in Requests : state[r] = "reserved"} = {}
    BY DEF Init
  <2> QED BY <2>1, FS_EmptySet DEF Concurrent
<1>6. \A k : RowsOf(k) \in SUBSET Requests
  BY DEF RowsOf
<1> QED BY <1>1, <1>2, <1>3, <1>4, <1>5, <1>6 DEF LedgerInv, LimitsHold

LEMMA LedgerStep == LedgerInv /\ [Next]_vars => LedgerInv'
PROOF
<1> SUFFICES ASSUME LedgerInv, [Next]_vars PROVE LedgerInv'
  OBVIOUS
<1>1. LedgerTypes /\ RowInv
  BY DEF LedgerInv
<1>2. LedgerTypes'
  BY <1>1, LedgerTypesStep
<1>3. RowInv'
  BY <1>1, <1>2, RowInvStep
<1>4. LimitsHold'
  BY <1>2, LimitsStep
<1> QED BY <1>2, <1>3, <1>4 DEF LedgerInv

THEOREM LedgerIsInvariant == Spec => []LedgerInv
BY LedgerInit, LedgerStep, PTL DEF Spec

\* UTC rollover erases no liability: whatever the skew of the clocks, no key and no
\* day ever spends more than its limit, open rows of any day included, and no more
\* handlers run than the project allows.
THEOREM BudgetsHold == Spec => []LimitsHold
BY LedgerIsInvariant, PTL DEF LedgerInv

\* An operator's retention of a row of any day leaves what its key spent today as it was.
THEOREM RetentionIsNeutral == Spec => RetentionFreesNothing
PROOF
<1>1. ASSUME LedgerInv, LedgerInv', [Next]_vars
      PROVE  [\A r \in Requests : state[r] = "uncertain" /\ state'[r] # "uncertain" =>
                SpentOn(Today, RowsOf(KeyOf[r]))' >= SpentOn(Today, RowsOf(KeyOf[r]))]_vars
  <2> SUFFICES ASSUME NEW r \in Requests, state[r] = "uncertain", state'[r] # "uncertain"
               PROVE  SpentOn(Today, RowsOf(KeyOf[r]))' >= SpentOn(Today, RowsOf(KeyOf[r]))
    OBVIOUS
  <2>1. LedgerTypes /\ LedgerTypes'
    BY <1>1 DEF LedgerInv
  <2>2. Keeps(r)
    <3>1. ~Tick /\ ~UNCHANGED <<clock, rowVars, charge>>
      BY DEF Tick, rowVars
    <3>2. \A q \in Requests, c \in 1..MaxAmount : ~Charges(q, c)
      BY DEF Charges, ProviderCharges, ProviderChargesLate, Meter, rowVars
    <3>3. \A q \in Requests : ~Reserve(q) /\ (Closes(q) => q = r)
      BY <2>1, OtherRows DEF Reserve, LedgerTypes, RowTypes
    <3>4. Closes(r)
      BY <1>1, <3>1, <3>2, <3>3, LedgerCases
    <3> QED BY <3>4 DEF Closes, Hold, Release, Settle
  <2>3. \A x \in Requests : SpentBy(x, Today)' = SpentBy(x, Today)
    BY <1>1, <2>1, <2>2, SpentClose DEF Closes
  <2>4. PICK rows \in SUBSET Requests : rows = RowsOf(KeyOf[r])
    BY DEF RowsOf
  <2>5. [x \in Requests |-> SpentBy(x, Today)'] = [x \in Requests |-> SpentBy(x, Today)]
    BY <2>3
  <2>6. SpentOn(Today, rows)' = SpentOn(Today, rows)
    BY <2>5 DEF SpentOn
  <2>7. SpentOn(Today, rows) \in Nat
    BY <2>1, SpentOnType
  <2> QED BY <2>4, <2>6, <2>7 DEF RowsOf
<1> QED BY <1>1, LedgerIsInvariant, PTL DEF Spec, RetentionFreesNothing

(******************************* The daily budget ******************************)
\* The phases follow the rows' states.
LEMMA PhaseIs ==
  ASSUME LedgerTypes, NEW r \in Requests
  PROVE  /\ PhaseOf(r) = "new" <=> state[r] = "none"
         /\ PhaseOf(r) = "running" <=> state[r] = "reserved"
         /\ PhaseOf(r) = "held" <=> state[r] = "uncertain"
         /\ PhaseOf(r) = "closed" <=> state[r] \in {"settled", "released"}
BY DEF LedgerTypes, RowTypes, PhaseOf

LEMMA BudgetInit == Init => Promise!Init
BY CreditAssumption DEF CreditAssumption, Init, Promise!Init, PhaseOf, SpentBy, Counts, Debit,
   Outstanding, Today, Day

LEMMA BudgetStep ==
  ASSUME LedgerInv, LedgerTypes', [Next]_vars
  PROVE  [Promise!Next]_(Promise!vars)
PROOF
<1>1. /\ LedgerTypes /\ Today \in Nat /\ MaxAmount \in Nat /\ Requests \in SUBSET Requests
  BY TodayType, CreditAssumption DEF CreditAssumption, LedgerInv
<1>2. PICK phase : phase = [r \in Requests |-> PhaseOf(r)]
  OBVIOUS
<1>3. PICK phasep : phasep = [r \in Requests |-> PhaseOf(r)']
  OBVIOUS
<1>4. PICK takes : takes = [r \in Requests |-> SpentBy(r, Today)]
  OBVIOUS
<1>5. PICK takesp : takesp = [r \in Requests |-> SpentBy(r, Today)']
  OBVIOUS
<1>6. ASSUME takesp = takes, phasep = phase PROVE UNCHANGED Promise!vars
  BY <1>2, <1>3, <1>4, <1>5, <1>6 DEF Promise!vars
<1>7. CASE UNCHANGED <<clock, rowVars>>
  <2>1. \A r \in Requests : PhaseOf(r)' = PhaseOf(r) /\ SpentBy(r, Today)' = SpentBy(r, Today)
    BY <1>7 DEF rowVars, PhaseOf, SpentBy, Counts, Debit, Today, Day
  <2> QED BY <1>2, <1>3, <1>4, <1>5, <1>6, <2>1
<1>8. \A r \in Requests, c \in 1..MaxAmount : Charges(r, c) => UNCHANGED <<clock, rowVars>>
  BY DEF Charges, ProviderCharges, ProviderChargesLate, Meter
<1>9. CASE Tick
  <2>1. \A r \in Requests : PhaseOf(r)' = PhaseOf(r)
    BY <1>9 DEF Tick, rowVars, PhaseOf
  <2>2. CASE Today' = Today
    <3>1. \A r \in Requests : SpentBy(r, Today)' = SpentBy(r, Today)
      BY <1>9, <2>2 DEF Tick, rowVars, SpentBy, Counts, Debit
    <3> QED BY <1>2, <1>3, <1>4, <1>5, <1>6, <2>1, <3>1
  <2>3. CASE Today' # Today
    <3>1. \A r \in Requests : phase[r] \in Promise!Open <=> state[r] \in Outstanding
      BY <1>1, <1>2, PhaseIs DEF Promise!Open, Outstanding
    <3>2. \A r \in Requests :
            SpentBy(r, Today)' = IF state[r] \in Outstanding THEN SpentBy(r, Today) ELSE 0
      BY <1>9, <2>3, SpentMidnight
    <3>3. takesp = [r \in Requests |-> IF phase[r] \in Promise!Open THEN takes[r] ELSE 0]
      BY <1>4, <1>5, <3>1, <3>2
    <3>4. phasep = phase
      BY <1>2, <1>3, <2>1
    <3>5. Promise!Midnight
      BY <1>2, <1>3, <1>4, <1>5, <3>3, <3>4 DEF Promise!Midnight
    <3> QED BY <3>5 DEF Promise!Next
  <2> QED BY <2>2, <2>3
<1>10. ASSUME NEW r \in Requests, Reserve(r) PROVE Promise!Admit(r)
  <2>1. phase[r] = "new"
    BY <1>1, <1>2, <1>10, PhaseIs DEF Reserve
  <2>2. phasep = [phase EXCEPT ![r] = "running"]
    BY <1>1, <1>2, <1>3, <1>10 DEF Reserve, PhaseOf, LedgerTypes, RowTypes
  <2>3. takesp = [takes EXCEPT ![r] = MaxAmount]
    <3>1. SpentBy(r, Today)' = MaxAmount
          /\ \A x \in Requests : x # r => SpentBy(x, Today)' = SpentBy(x, Today)
      BY <1>10, SpentByReserve
    <3> QED BY <1>4, <1>5, <3>1
  <2>4. /\ SpentOn(Today, RowsOf(KeyOf[r])) + MaxAmount <= KeyLimit[KeyOf[r]]
        /\ SpentOn(Today, Requests) + MaxAmount <= DailyCredit
        /\ Concurrent < MaxConcurrency
    BY <1>10 DEF Reserve, SlotFree, WithinBudgets
  <2>5. RowsOf(KeyOf[r]) = Promise!SameKey(r)
    BY DEF RowsOf, Promise!SameKey
  <2>6. \A rows : SpentOn(Today, rows) = Promise!Taken(rows)
    <3>1. \A f, rows : SumFunctionOnSet(f, rows) = Promise!SumFunctionOnSet(f, rows)
      BY DEF SumFunctionOnSet, FoldFunctionOnSet, MapThenFoldSet,
             Promise!SumFunctionOnSet, Promise!FoldFunctionOnSet, Promise!MapThenFoldSet
    <3> QED BY <3>1 DEF SpentOn, Promise!Taken
  <2>7. Concurrent = Promise!Cardinality(Promise!Running)
    <3>1. {x \in Requests : state[x] = "reserved"} = Promise!Running
      BY <1>1, PhaseIs DEF Promise!Running
    <3>2. \A S : Cardinality(S) = Promise!Cardinality(S)
      BY DEF Cardinality, Promise!Cardinality
    <3> QED BY <3>1, <3>2 DEF Concurrent
  <2>8. /\ Promise!Taken(Promise!SameKey(r)) + MaxAmount <= KeyLimit[KeyOf[r]]
        /\ Promise!Taken(Requests) + MaxAmount <= DailyCredit
        /\ Promise!Cardinality(Promise!Running) < MaxConcurrency
    BY <2>4, <2>5, <2>6, <2>7
  <2> QED BY <1>2, <1>3, <1>4, <1>5, <2>1, <2>2, <2>3, <2>8 DEF Promise!Admit
<1>11. ASSUME NEW r \in Requests, Closes(r) PROVE Promise!Next
  <2>1. ASSUME NEW x \in Requests, x # r
        PROVE  PhaseOf(x)' = PhaseOf(x) /\ SpentBy(x, Today)' = SpentBy(x, Today)
    <3>1. /\ state'[x] = state[x] /\ charged'[x] = charged[x]
          /\ retained'[x] = retained[x] /\ epoch' = epoch /\ Today' = Today
      BY <1>1, <1>11, <2>1, ClosingRow, OtherRows DEF LedgerInv, Today, Day
    <3> QED BY <3>1 DEF PhaseOf, SpentBy, Counts, Debit
  <2>2. PICK a : a = SpentBy(r, Today)'
    OBVIOUS
  <2>3. takesp = [takes EXCEPT ![r] = a]
    BY <1>4, <1>5, <2>1, <2>2
  <2>4. phasep = [phase EXCEPT ![r] = phasep[r]] /\ phasep[r] = PhaseOf(r)'
    BY <1>2, <1>3, <2>1
  <2>5. CASE Hold(r)
    <3>1. state[r] = "reserved" /\ state'[r] = "uncertain"
      BY <1>1, <2>5 DEF Hold, Close, LedgerTypes, RowTypes
    <3>2. phase[r] = "running" /\ phasep[r] = "held"
      BY <1>2, <2>4, <3>1 DEF PhaseOf
    <3>3. takesp = takes
      <4>1. SpentBy(r, Today)' = SpentBy(r, Today)
        <5>1. UNCHANGED <<epoch, retained>> /\ Today' = Today
          BY <2>5 DEF Hold, Close, Today, Day
        <5> QED BY <3>1, <5>1 DEF SpentBy, Counts, Debit, Outstanding
      <4> QED BY <1>4, <1>5, <2>1, <4>1
    <3>4. Promise!Hold(r)
      BY <1>2, <1>3, <1>4, <1>5, <2>4, <3>2, <3>3 DEF Promise!Hold
    <3> QED BY <3>4 DEF Promise!Next
  <2>6. CASE Keeps(r)
    <3>1. state[r] \in Outstanding /\ state'[r] = "settled"
      BY <1>1, <1>11, <2>6, ClosingRow DEF LedgerInv
    <3>2. phase[r] \in Promise!Open /\ phasep[r] = "closed"
      BY <1>2, <2>4, <3>1 DEF PhaseOf, Outstanding, Promise!Open
    <3>3. takesp = takes
      <4>1. \A x \in Requests : SpentBy(x, Today)' = SpentBy(x, Today)
        BY <1>11, <2>6, SpentClose
      <4> QED BY <1>4, <1>5, <4>1
    <3>4. Promise!Keep(r)
      BY <1>2, <1>3, <1>4, <1>5, <2>4, <3>2, <3>3 DEF Promise!Keep
    <3> QED BY <3>4 DEF Promise!Next
  <2>7. CASE Release(r) \/ \E c \in 1..MaxAmount : Settle(r, c)
    <3>1. state[r] = "reserved" /\ state'[r] \in {"settled", "released"}
      BY <1>1, <2>7 DEF Release, Settle, Close, LedgerTypes, RowTypes
    <3>2. phase[r] = "running" /\ phasep[r] = "closed"
      BY <1>2, <2>4, <3>1 DEF PhaseOf
    <3>3. a \in 0..takes[r]
      <4>1. SpentBy(r, Today)' <= SpentBy(r, Today)
        BY <1>11, SpentClose
      <4>2. SpentBy(r, Today)' \in Nat
        <5>1. charged'[r] \in Nat /\ MaxAmount \in Nat
          BY <1>1 DEF LedgerTypes, RowTypes
        <5> QED BY <5>1 DEF SpentBy, Debit
      <4>3. SpentBy(r, Today) \in Nat
        BY <1>1, SpentByType
      <4>4. a \in Nat /\ a <= SpentBy(r, Today)
        BY <2>2, <4>1, <4>2
      <4> QED BY <1>4, <4>3, <4>4
    <3>4. Promise!Finish(r)
      BY <1>2, <1>3, <1>4, <1>5, <2>3, <2>4, <3>2, <3>3 DEF Promise!Finish
    <3> QED BY <3>4 DEF Promise!Next
  <2> QED BY <1>11, <2>5, <2>6, <2>7 DEF Closes
<1> QED BY <1>7, <1>8, <1>9, <1>10, <1>11, LedgerCases DEF Promise!Next

\* The rows, epochs and retentions implement the daily budget.
THEOREM BudgetImplemented == Spec => BudgetSpec
BY BudgetInit, BudgetStep, LedgerIsInvariant, PTL DEF Spec, BudgetSpec, Promise!Spec, LedgerInv

(********************* The provider's credit, with no skew *********************)
\* The steps the credit is moved by.
LEMMA Metered ==
  ASSUME LedgerTypes, left \in Int, belated \in Int, NEW r \in Requests, NEW c \in 1..MaxAmount,
         Charges(r, c)
  PROVE  /\ charge[r] = 0 /\ charge' = [charge EXCEPT ![r] = c] /\ left' = left - c
         /\ UNCHANGED <<clock, rowVars, observation, reading>>
         /\ \/ state[r] \in Outstanding /\ belated' = belated /\ Covered' = Covered - c
            \/ state[r] = "settled" /\ belated' = belated + c /\ Covered' = Covered
PROOF
<1>1. c \in Int
  OBVIOUS
<1>2. CASE ProviderCharges(r, c)
  BY <1>1, <1>2 DEF ProviderCharges, Meter, Covered
<1>3. CASE ProviderChargesLate(r, c)
  BY <1>1, <1>3 DEF ProviderChargesLate, Meter, Covered
<1> QED BY <1>2, <1>3 DEF Charges

\* What the provider charged for r that a balance read from t on may not have known.
Late(r, t) == IF state[r] \in Outstanding \/ settledAt[r] >= t THEN charge[r] ELSE 0
LateCharges(t) == SumFunctionOnSet([r \in Requests |-> Late(r, t)], Requests)

\* A balance of today exceeds the covered credit by no more than the late charges.
Explained(t, balance) == Day(t) = Today => balance <= Covered + LateCharges(t)

ObservationInv ==
  observation # Nothing =>
    observation.at <= clock /\ Explained(observation.at, observation.remaining)

ReadingInv ==
  \A w \in Readers : reading[w] # Nothing =>
    /\ reading[w].at <= clock
    /\ reading[w].remaining # Nothing => Explained(reading[w].at, reading[w].remaining)

BalanceTypes ==
  /\ CapacityTypes /\ left \in Int /\ belated \in Nat
  /\ Covered \in Nat /\ Covered <= DailyCredit
CoverInv == BalanceTypes /\ ObservationInv /\ ReadingInv /\ Solvent

LEMMA LateType ==
  LedgerTypes => \A t \in Nat : /\ \A r \in Requests : Late(r, t) \in Nat
                                /\ LateCharges(t) \in Nat
PROOF
<1> SUFFICES ASSUME LedgerTypes, NEW t \in Nat
             PROVE  /\ \A r \in Requests : Late(r, t) \in Nat
                    /\ LateCharges(t) \in Nat
  OBVIOUS
<1>1. \A r \in Requests : Late(r, t) \in Nat
  BY CreditAssumption DEF CreditAssumption, LedgerTypes, RowTypes, Late
<1>2. PICK f : f = [r \in Requests |-> Late(r, t)]
  OBVIOUS
<1>3. \A r \in Requests : f[r] \in Nat
  BY <1>1, <1>2
<1>4. SumFunctionOnSet(f, Requests) \in Nat
  BY <1>3, SumNat, CreditAssumption DEF CreditAssumption
<1> QED BY <1>1, <1>2, <1>4 DEF LateCharges

LEMMA LateUnchanged ==
  ASSUME NEW t, \A r \in Requests : Late(r, t)' = Late(r, t)
  PROVE  LateCharges(t)' = LateCharges(t)
PROOF
<1>1. [r \in Requests |-> Late(r, t)'] = [r \in Requests |-> Late(r, t)]
  OBVIOUS
<1> QED BY <1>1 DEF LateCharges

\* Only a tick and a charge move what is left.
LEMMA CoveredUnchanged ==
  ASSUME LedgerTypes, RowInv, [Next]_vars
  PROVE  UNCHANGED <<clock, rowVars, charge>> => left' = left /\ belated' = belated
PROOF
<1>1. clock \in Nat /\ MaxAmount \in Nat
  BY TodayType, CreditAssumption DEF CreditAssumption
<1>2. \A r \in Requests, c \in 1..MaxAmount : Charges(r, c) => charge'[r] # charge[r]
  BY <1>1 DEF Charges, ProviderCharges, ProviderChargesLate, Meter, LedgerTypes, RowTypes
<1>3. \A r \in Requests : Reserve(r) \/ Closes(r) => left' = left /\ belated' = belated
  BY ClosingRow DEF Reserve
<1>4. ~Tick \/ clock' # clock
  BY <1>1 DEF Tick
<1> QED BY <1>2, <1>3, <1>4
     DEF Next, vars, Closes, Keeps, Charges, StartReading, ReadBalance, Observe,
         MarkCapacityUnavailable

\* A balance that was explained stays so, whatever is reserved, charged or closed.
LEMMA ExplainedStep ==
  ASSUME LedgerInv, LedgerTypes', left \in Int, belated \in Int, [Next]_vars,
         NEW t \in Nat, t <= clock, NEW b \in Nat, Explained(t, b)
  PROVE  Explained(t, b)'
PROOF
<1>1. /\ LedgerTypes /\ RowInv /\ Today \in Nat /\ MaxAmount \in Nat /\ clock \in Nat
      /\ Covered \in Int
  BY TodayType, CreditAssumption DEF CreditAssumption, LedgerInv, Covered
<1>2. PICK n \in Nat : n = LateCharges(t)
  BY <1>1, LateType
<1>3. ASSUME Today' = Today, Covered' = Covered, \A r \in Requests : Late(r, t)' = Late(r, t)
      PROVE  Explained(t, b)'
  <2>1. LateCharges(t)' = LateCharges(t)
    BY <1>3, LateUnchanged
  <2> QED BY <1>3, <2>1 DEF Explained, Day
<1>4. CASE Tick
  <2>1. \A r \in Requests : Late(r, t)' = Late(r, t)
    BY <1>4 DEF Tick, rowVars, Late
  <2>2. Today' = Day(clock + 1) /\ Today = Day(clock)
    BY <1>4 DEF Tick, Today, Day
  <2>3. CASE Today' = Today
    <3>1. Covered' = Covered
      BY <1>4, <2>2, <2>3 DEF Tick, Covered
    <3> QED BY <1>3, <2>1, <2>3, <3>1
  <2>4. CASE Today' # Today
    <3>1. Day(t) <= Day(clock) /\ Day(clock) <= Day(clock + 1)
      BY <1>1, DayMonotonic
    <3>2. Day(t) # Today'
      BY <1>1, <2>2, <2>4, <3>1, DayType
    <3> QED BY <3>2 DEF Explained, Day
  <2> QED BY <2>3, <2>4
<1>5. ASSUME NEW r \in Requests, Reserve(r) PROVE Explained(t, b)'
  <2>1. Today' = Today /\ Covered' = Covered
    BY <1>5 DEF Reserve, Covered, Today, Day
  <2>2. ASSUME NEW x \in Requests PROVE Late(x, t)' = Late(x, t)
    <3>1. CASE x = r
      <4>1. charge[r] = 0 /\ charge' = charge
        BY <1>5 DEF LedgerInv, RowInv, Consistent, Reserve
      <4> QED BY <3>1, <4>1 DEF Late
    <3>2. CASE x # r
      <4>1. state'[x] = state[x] /\ settledAt' = settledAt /\ charge' = charge
        BY <1>1, <1>5, <3>2 DEF Reserve, LedgerTypes, RowTypes
      <4> QED BY <4>1 DEF Late
    <3> QED BY <3>1, <3>2
  <2> QED BY <1>3, <2>1, <2>2
<1>6. ASSUME NEW r \in Requests, Closes(r) PROVE Explained(t, b)'
  <2>1. Today' = Today /\ Covered' = Covered /\ charge' = charge
    BY <1>1, <1>6, ClosingRow DEF Covered, Today, Day
  <2>2. ASSUME NEW x \in Requests PROVE Late(x, t)' = Late(x, t)
    <3>1. CASE x = r
      <4>1. state[r] \in Outstanding /\ settledAt'[r] = clock
        BY <1>1, <1>6, ClosingRow
      <4> QED BY <2>1, <3>1, <4>1, <1>1 DEF Late
    <3>2. CASE x # r
      <4>1. state'[x] = state[x] /\ settledAt'[x] = settledAt[x]
        BY <1>1, <1>6, <3>2, OtherRows
      <4> QED BY <2>1, <4>1 DEF Late
    <3> QED BY <3>1, <3>2
  <2> QED BY <1>3, <2>1, <2>2
<1>7. ASSUME NEW r \in Requests, NEW c \in 1..MaxAmount, Charges(r, c)
      PROVE  Explained(t, b)'
  <2>1. /\ charge[r] = 0 /\ charge' = [charge EXCEPT ![r] = c]
        /\ Today' = Today /\ UNCHANGED <<state, settledAt>>
    BY <1>1, <1>7, Metered DEF rowVars, Today, Day
  <2>2. PICK f : f = [x \in Requests |-> Late(x, t)]
    OBVIOUS
  <2>3. PICK g : g = [x \in Requests |-> Late(x, t)']
    OBVIOUS
  <2>4. f[r] = 0 /\ g[r] \in Nat /\ Covered - Covered' <= g[r]
    <3>1. charge'[r] = c /\ c \in Nat
      BY <1>1, <2>1 DEF LedgerTypes, RowTypes
    <3>2. \/ state[r] \in Outstanding /\ Covered' = Covered - c
          \/ Covered' = Covered
      BY <1>1, <1>7, Metered
    <3>3. f[r] = 0 /\ g[r] = IF state[r] \in Outstanding \/ settledAt[r] >= t THEN c ELSE 0
      BY <2>1, <2>2, <2>3, <3>1 DEF Late
    <3> QED BY <1>1, <3>1, <3>2, <3>3
  <2>5. \A x \in Requests : x # r => f[x] = g[x]
    <3>1. \A x \in Requests : x # r => charge'[x] = charge[x]
      BY <1>1, <2>1 DEF LedgerTypes, RowTypes
    <3> QED BY <2>1, <2>2, <2>3, <3>1 DEF Late
  <2>6. \A x \in Requests : f[x] \in Nat /\ g[x] \in Nat
    <3>1. \A x \in Requests : Late(x, t)' \in Nat
      BY <1>1 DEF LedgerTypes, RowTypes, Late
    <3> QED BY <1>1, <2>2, <2>3, <3>1, LateType
  <2>7. SumFunctionOnSet(g, Requests) + f[r] = SumFunctionOnSet(f, Requests) + g[r]
    BY <2>5, <2>6, SumPoint, CreditAssumption DEF CreditAssumption
  <2>8. LateCharges(t) = SumFunctionOnSet(f, Requests)
    BY <2>2 DEF LateCharges
  <2>9. LateCharges(t)' = SumFunctionOnSet(g, Requests)
    BY <2>3 DEF LateCharges
  <2>10. PICK m \in Nat : m = LateCharges(t)'
    BY <2>6, <2>9, SumNat, CreditAssumption DEF CreditAssumption
  <2>11. m = n + g[r]
    BY <1>2, <2>4, <2>7, <2>8, <2>9, <2>10
  <2>12. Day(t) = Today => b <= Covered + n
    BY <1>2 DEF Explained
  <2>13. Covered' \in Int
    <3>1. c \in Int
      OBVIOUS
    <3> QED BY <1>1, <1>7, <3>1, Metered
  <2>14. Day(t) = Today' => b <= Covered' + m
    BY <1>1, <2>1, <2>4, <2>11, <2>12, <2>13
  <2> QED BY <2>10, <2>14 DEF Explained, Day
<1>8. CASE UNCHANGED <<clock, rowVars, charge>> /\ Covered' = Covered
  <2>1. Today' = Today /\ \A r \in Requests : Late(r, t)' = Late(r, t)
    BY <1>8 DEF rowVars, Late, Today, Day
  <2> QED BY <1>3, <1>8, <2>1
<1>9. UNCHANGED <<clock, rowVars, charge>> => Covered' = Covered
  BY <1>1, CoveredUnchanged DEF Covered
<1> QED BY <1>4, <1>5, <1>6, <1>7, <1>8, <1>9, LedgerCases

\* The open requests the provider has not charged yet, which Solvent covers.
Due == {r \in Requests : state[r] \in Outstanding /\ charge[r] = 0}

LEMMA TimesMonotonic ==
  ASSUME NEW m \in Nat, NEW a \in Nat, NEW b \in Nat, a <= b
  PROVE  m * a \in Nat /\ m * b \in Nat /\ m * a <= m * b
PROOF
<1>1. PICK d \in Nat : b = a + d
  <2>1. b - a \in Nat /\ b = a + (b - a)
    OBVIOUS
  <2> QED BY <2>1
<1>2. m * b = m * a + m * d /\ m * a \in Nat /\ m * d \in Nat
  BY <1>1
<1> QED BY <1>2

LEMMA DueType ==
  ASSUME LedgerTypes
  PROVE  /\ Due \in SUBSET Requests /\ IsFiniteSet(Due) /\ Cardinality(Due) \in Nat
         /\ MaxAmount * Cardinality(Due) \in Nat
PROOF
<1>1. Due \in SUBSET Requests
  BY DEF Due
<1>2. IsFiniteSet(Due) /\ Cardinality(Due) \in Nat
  BY <1>1, FS_Subset, FS_CardinalityType, CreditAssumption DEF CreditAssumption
<1>3. MaxAmount \in Nat
  BY CreditAssumption DEF CreditAssumption
<1> QED BY <1>1, <1>2, <1>3, TimesMonotonic

\* Admission leaves room for the maximum it promises on top of all that is due: what
\* the balance does not know is in the snapshot debit, and so is all that is due.
LEMMA ReserveCovers ==
  ASSUME LedgerInv, BalanceTypes, ObservationInv, NEW r \in Requests, Reserve(r)
  PROVE  MaxAmount * Cardinality(Due) + MaxAmount <= Covered
PROOF
<1>1. /\ LedgerTypes /\ Today \in Nat /\ MaxAmount \in Nat /\ clock \in Nat /\ Covered \in Nat
      /\ Margin \in Nat /\ IsFiniteSet(Requests) /\ Nothing \notin Nat
  BY TodayType, CreditAssumption DEF CreditAssumption, LedgerInv, BalanceTypes
<1>2. observation \in Observations /\ Day(observation.at) = Today
  BY DEF Reserve, Usable, BalanceTypes, CapacityTypes
<1>3. observation # Nothing
  BY DEF Reserve, Usable
<1>4. PICK t \in Nat : t = observation.at
  <2>1. MaxTime + Skew \in Nat
    BY CreditAssumption DEF CreditAssumption
  <2> QED BY <1>2, <2>1 DEF Observations
<1>5. PICK b \in Nat : b = observation.remaining
  <2>1. DailyCredit \in Nat
    BY CreditAssumption DEF CreditAssumption
  <2> QED BY <1>2, <2>1 DEF Observations
<1>6. PICK f : f = [x \in Requests |-> Late(x, t)]
  OBVIOUS
<1>7. PICK g : g = [x \in Requests |-> IF x \in Due THEN MaxAmount ELSE 0]
  OBVIOUS
<1>8. PICK h : h = [x \in Requests |-> PendingDebit(x)]
  OBVIOUS
<1>9. ASSUME NEW x \in Requests
      PROVE  f[x] \in Nat /\ g[x] \in Nat /\ h[x] \in Nat /\ f[x] + g[x] <= h[x]
  <2>1. charge[x] \in 0..MaxAmount /\ charged[x] \in 0..MaxAmount
    BY <1>1 DEF LedgerTypes, RowTypes
  <2>2. Consistent(x)
    BY DEF LedgerInv, RowInv
  <2>3. f[x] = Late(x, t) /\ h[x] = PendingDebit(x) /\ g[x] = IF x \in Due THEN MaxAmount ELSE 0
    BY <1>6, <1>7, <1>8
  <2>4. PICK e \in Nat : e = IF retained[x] = Nothing THEN 0 ELSE MaxAmount
    BY <1>1
  <2>5. CASE state[x] \in Outstanding
    <3>1. f[x] = charge[x] /\ h[x] = MaxAmount + e
      BY <2>3, <2>4, <2>5 DEF Late, PendingDebit, Unreflected, Debit
    <3>2. g[x] = IF charge[x] = 0 THEN MaxAmount ELSE 0
      BY <2>3, <2>5 DEF Due
    <3> QED BY <1>1, <2>1, <3>1, <3>2
  <2>6. CASE state[x] \notin Outstanding /\ settledAt[x] >= t
    <3>1. f[x] = charge[x] /\ g[x] = 0 /\ h[x] = Debit(x) + e
      BY <1>4, <2>3, <2>4, <2>6 DEF Late, PendingDebit, Unreflected, Due
    <3>2. Debit(x) = IF state[x] = "settled" THEN charged[x] ELSE 0
      BY <2>6 DEF Debit
    <3>3. state[x] # "settled" => charge[x] = 0
      BY <1>1, <2>2, <2>6 DEF Consistent, Outstanding, LedgerTypes, RowTypes
    <3>4. state[x] = "settled" => charge[x] <= charged[x]
      BY <2>2 DEF Consistent
    <3> QED BY <1>1, <2>1, <3>1, <3>2, <3>3, <3>4
  <2>7. CASE state[x] \notin Outstanding /\ ~(settledAt[x] >= t)
    <3>1. f[x] = 0 /\ g[x] = 0 /\ h[x] = 0
      BY <1>4, <2>3, <2>7 DEF Late, PendingDebit, Unreflected, Due
    <3> QED BY <3>1
  <2> QED BY <2>5, <2>6, <2>7
<1>10. SumFunctionOnSet(f, Requests) + SumFunctionOnSet(g, Requests) <= SumFunctionOnSet(h, Requests)
  BY <1>1, <1>9, SumBound
<1>11. SumFunctionOnSet(g, Requests) = MaxAmount * Cardinality(Due)
  <2>1. \A x \in Requests : g[x] = IF x \in Due THEN MaxAmount ELSE 0
    BY <1>7
  <2> QED BY <1>1, <2>1, DueType, SumOfEqual
<1>12. PICK u \in Nat : u = MaxAmount * Cardinality(Due)
  BY <1>1, DueType
<1>13. PICK n \in Nat : n = LateCharges(t) /\ n = SumFunctionOnSet(f, Requests)
  BY <1>1, <1>6, LateType DEF LateCharges
<1>14. PICK p \in Nat : p = SnapshotDebit /\ p = SumFunctionOnSet(h, Requests)
  BY <1>1, <1>8, <1>9, SumNat DEF SnapshotDebit
<1>15. b <= Covered + n
  BY <1>2, <1>3, <1>4, <1>5, <1>13 DEF ObservationInv, Explained
<1>16. p + Margin + MaxAmount <= b
  BY <1>5, <1>14 DEF Reserve, WithinCapacity
<1>17. n + u <= p
  BY <1>10, <1>11, <1>12, <1>13, <1>14
<1>18. u + MaxAmount <= Covered
  BY <1>1, <1>15, <1>16, <1>17
<1> QED BY <1>12, <1>18

\* All that is due counts as spent today, so midnight's credit covers it.
LEMMA SpentCoversDue ==
  ASSUME LedgerTypes
  PROVE  MaxAmount * Cardinality(Due) <= SpentOn(Today, Requests)
PROOF
<1>1. MaxAmount \in Nat /\ IsFiniteSet(Requests) /\ Requests \in SUBSET Requests
  BY CreditAssumption DEF CreditAssumption
<1>2. PICK f : f = [x \in Requests |-> IF x \in Due THEN MaxAmount ELSE 0]
  OBVIOUS
<1>3. PICK g : g = [x \in Requests |-> SpentBy(x, Today)]
  OBVIOUS
<1>4. ASSUME NEW x \in Requests PROVE f[x] \in Nat /\ g[x] \in Nat /\ f[x] <= g[x]
  <2>1. g[x] \in Nat /\ g[x] = SpentBy(x, Today)
    BY <1>3, SpentByType
  <2>2. CASE x \in Due
    <3>1. SpentBy(x, Today) = MaxAmount + (IF retained[x] = Today THEN MaxAmount ELSE 0)
      BY <2>2 DEF Due, SpentBy, Counts, Debit
    <3> QED BY <1>1, <1>2, <2>1, <2>2, <3>1
  <2>3. CASE x \notin Due
    BY <1>2, <2>1, <2>3
  <2> QED BY <2>2, <2>3
<1>5. SumFunctionOnSet(f, Requests) <= SumFunctionOnSet(g, Requests)
  BY <1>1, <1>4, SumMonotonic
<1>6. SumFunctionOnSet(f, Requests) = MaxAmount * Cardinality(Due)
  <2>1. \A x \in Requests : f[x] = IF x \in Due THEN MaxAmount ELSE 0
    BY <1>2
  <2> QED BY <1>1, <2>1, DueType, SumOfEqual
<1> QED BY <1>3, <1>5, <1>6 DEF SpentOn

LEMMA SolventStep ==
  ASSUME LedgerInv, LedgerTypes', BalanceTypes, ObservationInv, Solvent, [Next]_vars
  PROVE  /\ Solvent' /\ left' \in Int /\ belated' \in Nat
         /\ Covered' \in Nat /\ Covered' <= DailyCredit
PROOF
<1>1. /\ LedgerTypes /\ RowInv /\ MaxAmount \in Nat /\ clock \in Nat
      /\ Covered \in Nat /\ Covered <= DailyCredit /\ left \in Int /\ belated \in Nat
      /\ DailyCredit \in Nat
  BY TodayType, CreditAssumption DEF CreditAssumption, LedgerInv, BalanceTypes
<1>2. PICK A : A = Due
  OBVIOUS
<1>3. PICK B : B = Due'
  OBVIOUS
<1>4. /\ A \in SUBSET Requests /\ IsFiniteSet(A) /\ Cardinality(A) \in Nat
      /\ MaxAmount * Cardinality(A) \in Nat
  BY <1>1, <1>2, DueType
<1>5. /\ B \in SUBSET Requests /\ IsFiniteSet(B) /\ Cardinality(B) \in Nat
      /\ MaxAmount * Cardinality(B) \in Nat
  <2>1. B \in SUBSET Requests
    BY <1>3 DEF Due
  <2>2. IsFiniteSet(B) /\ Cardinality(B) \in Nat
    BY <2>1, FS_Subset, FS_CardinalityType, CreditAssumption DEF CreditAssumption
  <2> QED BY <1>1, <2>1, <2>2, TimesMonotonic
<1>6. PICK u \in Nat : u = MaxAmount * Cardinality(A)
  BY <1>4
<1>7. PICK v \in Nat : v = MaxAmount * Cardinality(B)
  BY <1>5
<1>8. u <= Covered
  BY <1>2, <1>6 DEF Solvent, Due
<1>9. SUFFICES /\ v <= Covered' /\ Covered' <= DailyCredit
               /\ left' \in Int /\ belated' \in Nat
  <2>1. Solvent'
    BY <1>3, <1>7 DEF Solvent, Due
  <2>2. Covered' \in Int
    BY DEF Covered
  <2>3. Covered' \in Nat
    BY <1>7, <2>2
  <2> QED BY <2>1, <2>3
<1>10. B \subseteq A => v <= u
  <2>1. B \subseteq A => Cardinality(B) <= Cardinality(A)
    BY <1>4, FS_Subset
  <2> QED BY <1>1, <1>4, <1>5, <1>6, <1>7, <2>1, TimesMonotonic
<1>11. ASSUME NEW r \in Requests, Reserve(r)
       PROVE  v <= Covered' /\ left' = left /\ belated' = belated
  <2>1. Covered' = Covered /\ left' = left /\ belated' = belated
    BY <1>11 DEF Reserve, Covered
  <2>2. u + MaxAmount <= Covered
    BY <1>2, <1>6, <1>11, ReserveCovers
  <2>3. B \subseteq A \cup {r}
    BY <1>1, <1>2, <1>3, <1>11 DEF Due, Reserve, LedgerTypes, RowTypes
  <2>4. PICK k \in Nat : k = Cardinality(A)
    BY <1>4
  <2>5. Cardinality(A \cup {r}) \in {k, k + 1} /\ IsFiniteSet(A \cup {r})
    BY <1>4, <2>4, FS_AddElement
  <2>6. Cardinality(B) <= k + 1
    <3>1. Cardinality(B) <= Cardinality(A \cup {r})
      BY <2>3, <2>5, FS_Subset
    <3> QED BY <1>5, <2>5, <3>1
  <2>7. v <= MaxAmount * (k + 1)
    BY <1>1, <1>5, <1>7, <2>6, TimesMonotonic
  <2>8. MaxAmount * (k + 1) = u + MaxAmount
    BY <1>1, <1>6, <2>4
  <2> QED BY <1>1, <2>1, <2>2, <2>7, <2>8
<1>12. ASSUME NEW r \in Requests, Closes(r)
       PROVE  v <= Covered' /\ left' = left /\ belated' = belated
  <2>1. Covered' = Covered /\ left' = left /\ belated' = belated /\ charge' = charge
    BY <1>1, <1>12, ClosingRow DEF Covered
  <2>2. \A x \in Requests : state'[x] \in Outstanding => state[x] \in Outstanding
    BY <1>1, <1>12, ClosingRow, OtherRows
  <2>3. B \subseteq A
    BY <1>2, <1>3, <2>1, <2>2 DEF Due
  <2> QED BY <1>1, <1>8, <1>10, <2>1, <2>3
<1>13. ASSUME NEW r \in Requests, NEW c \in 1..MaxAmount, Charges(r, c),
              state[r] \in Outstanding
       PROVE  v <= Covered' /\ Covered' <= DailyCredit
  <2>1. Covered' = Covered - c /\ c \in Nat /\ c <= MaxAmount
    BY <1>1, <1>13, Metered DEF Outstanding
  <2>2. r \in A /\ B \subseteq A \ {r}
    <3>1. state' = state /\ charge[r] = 0 /\ charge' = [charge EXCEPT ![r] = c]
      BY <1>1, <1>13, Metered DEF rowVars
    <3>2. r \in A
      BY <1>2, <1>13, <3>1 DEF Due
    <3>3. ASSUME NEW x \in B PROVE x \in A \ {r}
      <4>1. x \in Requests /\ state[x] \in Outstanding /\ charge'[x] = 0
        BY <1>3, <3>1 DEF Due
      <4>2. x # r
        BY <1>1, <3>1, <4>1 DEF LedgerTypes, RowTypes
      <4>3. charge[x] = 0
        BY <1>1, <3>1, <4>1, <4>2 DEF LedgerTypes, RowTypes
      <4> QED BY <1>2, <4>1, <4>2, <4>3 DEF Due
    <3> QED BY <3>2, <3>3
  <2>3. PICK k \in Nat : k = Cardinality(A \ {r})
    BY <1>4, FS_RemoveElement, FS_CardinalityType
  <2>4. Cardinality(A) = k + 1 /\ IsFiniteSet(A \ {r})
    <3>1. /\ IsFiniteSet(A \ {r})
          /\ Cardinality(A \ {r}) = IF r \in A THEN Cardinality(A) - 1 ELSE Cardinality(A)
      BY <1>4, FS_RemoveElement
    <3> QED BY <1>4, <2>2, <2>3, <3>1
  <2>5. Cardinality(B) <= k
    BY <2>2, <2>3, <2>4, FS_Subset
  <2>6. v <= MaxAmount * k /\ MaxAmount * k \in Nat
    BY <1>1, <1>5, <1>7, <2>5, TimesMonotonic
  <2>7. u = MaxAmount * k + MaxAmount
    BY <1>1, <1>6, <2>4
  <2> QED BY <1>1, <1>8, <2>1, <2>6, <2>7
<1>14. ASSUME NEW r \in Requests, NEW c \in 1..MaxAmount, Charges(r, c),
              state[r] \notin Outstanding
       PROVE  v <= Covered' /\ Covered' <= DailyCredit
  <2>1. Covered' = Covered /\ state' = state /\ charge' = [charge EXCEPT ![r] = c]
    BY <1>1, <1>14, Metered DEF rowVars
  <2>2. B \subseteq A
    BY <1>1, <1>2, <1>3, <1>14, <2>1 DEF Due, LedgerTypes, RowTypes
  <2> QED BY <1>1, <1>8, <1>10, <2>1, <2>2
<1>15. \A r \in Requests, c \in 1..MaxAmount : Charges(r, c) => left' \in Int /\ belated' \in Nat
  <2> SUFFICES ASSUME NEW r \in Requests, NEW c \in 1..MaxAmount, Charges(r, c)
               PROVE  left' \in Int /\ belated' \in Nat
    OBVIOUS
  <2>1. c \in Nat
    OBVIOUS
  <2> QED BY <1>1, <2>1, Metered
<1>16. CASE Tick
  <2>1. A = B
    BY <1>2, <1>3, <1>16 DEF Tick, rowVars, Due
  <2>2. u <= DailyCredit
    <3>1. u <= SpentOn(Today, Requests)
      BY <1>1, <1>2, <1>6, SpentCoversDue
    <3>2. SpentOn(Today, Requests) <= DailyCredit /\ SpentOn(Today, Requests) \in Nat
      BY <1>1, SpentOnType DEF LedgerInv, LimitsHold
    <3> QED BY <1>1, <3>1, <3>2
  <2>3. \/ left' = left /\ belated' = belated
        \/ left' = DailyCredit /\ belated' = 0
    BY <1>16 DEF Tick
  <2>4. \/ Covered' = Covered
        \/ Covered' = DailyCredit
    BY <1>1, <2>3 DEF Covered
  <2> QED BY <1>1, <1>6, <1>7, <1>8, <2>1, <2>2, <2>3, <2>4
<1>17. CASE UNCHANGED <<clock, rowVars, charge>> /\ left' = left /\ belated' = belated
  <2>1. A = B
    BY <1>2, <1>3, <1>17 DEF rowVars, Due
  <2>2. Covered' = Covered
    BY <1>17 DEF Covered
  <2> QED BY <1>1, <1>6, <1>7, <1>8, <1>17, <2>1, <2>2
<1>18. UNCHANGED <<clock, rowVars, charge>> => left' = left /\ belated' = belated
  BY <1>1, CoveredUnchanged
<1>19. ASSUME left' = left, belated' = belated PROVE Covered' = Covered
  BY <1>19 DEF Covered
<1> QED BY <1>1, <1>11, <1>12, <1>13, <1>14, <1>15, <1>16, <1>17, <1>18, <1>19, LedgerCases

LEMMA CapacityTypesStep ==
  ASSUME LedgerTypes, BalanceTypes, [Next]_vars
  PROVE  CapacityTypes'
PROOF
<1>1. /\ clock \in 0..MaxTime /\ Skew \in Nat /\ MaxTime \in Nat /\ DailyCredit \in Nat
      /\ left \in Int /\ left <= DailyCredit /\ Nothing \notin Nat
  BY CreditAssumption DEF CreditAssumption, LedgerTypes, Times, BalanceTypes, Covered
<1>2. /\ observation \in Observations \union {Nothing}
      /\ reading \in [Readers -> [at : 0..(MaxTime + Skew), remaining : (0..DailyCredit) \union {Nothing}]
                                   \union {Nothing}]
  BY DEF BalanceTypes, CapacityTypes
<1>3. ASSUME NEW w \in Readers, StartReading(w) PROVE CapacityTypes'
  <2>1. clock + Skew \in 0..(MaxTime + Skew)
    BY <1>1
  <2> QED BY <1>2, <1>3, <2>1 DEF StartReading, CapacityTypes
<1>4. ASSUME NEW w \in Readers, ReadBalance(w) PROVE CapacityTypes'
  <2>1. reading[w] \in [at : 0..(MaxTime + Skew), remaining : (0..DailyCredit) \union {Nothing}]
    BY <1>2, <1>4 DEF ReadBalance
  <2>2. left >= 0 => [reading[w] EXCEPT !.remaining = left]
          \in [at : 0..(MaxTime + Skew), remaining : (0..DailyCredit) \union {Nothing}]
    <3>1. left >= 0 => left \in 0..DailyCredit
      BY <1>1
    <3> QED BY <2>1, <3>1
  <2>3. reading' \in [Readers -> [at : 0..(MaxTime + Skew),
                                  remaining : (0..DailyCredit) \union {Nothing}] \union {Nothing}]
    BY <1>2, <1>4, <2>2 DEF ReadBalance
  <2> QED BY <1>2, <1>4, <2>3 DEF ReadBalance, CapacityTypes
<1>5. ASSUME NEW w \in Readers, Observe(w) PROVE CapacityTypes'
  <2>1. /\ reading[w].at \in 0..(MaxTime + Skew)
        /\ reading[w].remaining \in 0..DailyCredit
    BY <1>2, <1>5 DEF Observe
  <2>2. [at |-> Stamp(w), remaining |-> reading[w].remaining] \in Observations
    BY <2>1 DEF Stamp, Observations
  <2> QED BY <1>2, <1>5, <2>2 DEF Observe, CapacityTypes
<1>6. ASSUME NEW w \in Readers, MarkCapacityUnavailable(w) PROVE CapacityTypes'
  BY <1>2, <1>6 DEF MarkCapacityUnavailable, CapacityTypes
<1>7. CASE UNCHANGED <<observation, reading>>
  BY <1>2, <1>7 DEF CapacityTypes
<1> QED BY <1>3, <1>4, <1>5, <1>6, <1>7
     DEF Next, vars, Tick, Reserve, Hold, Release, Retain, RetainUnproven, KeepMaximum,
         Settle, Close, ProviderCharges, ProviderChargesLate, Meter

\* A step leaves the observation and the readings explained: a reading that is not
\* ahead of the database's clock starts no later than the balance it is told.
LEMMA EvidenceStep ==
  ASSUME Skew = 0, LedgerInv, LedgerTypes', BalanceTypes, ObservationInv, ReadingInv, [Next]_vars
  PROVE  ObservationInv' /\ ReadingInv'
PROOF
<1>1. /\ LedgerTypes /\ clock \in Nat /\ clock' \in Nat /\ clock <= clock' /\ left \in Int
      /\ belated \in Nat /\ left <= Covered
      /\ MaxTime + Skew \in Nat /\ DailyCredit \in Nat /\ Nothing \notin Nat
  <2>1. LedgerTypes /\ clock \in Nat
    BY TodayType DEF LedgerInv
  <2>2. clock' = clock \/ clock' = clock + 1
    BY DEF Next, vars, Tick, Reserve, Hold, Release, Retain, RetainUnproven, KeepMaximum,
           Settle, Close, ProviderCharges, ProviderChargesLate, Meter,
           StartReading, ReadBalance, Observe, MarkCapacityUnavailable
  <2> QED BY <2>1, <2>2, CreditAssumption DEF CreditAssumption, BalanceTypes, Covered
<1>2. \A t \in Nat, b \in Nat : t <= clock /\ Explained(t, b) => Explained(t, b)' /\ t <= clock'
  BY <1>1, ExplainedStep
<1>3. observation # Nothing =>
        /\ observation.at \in Nat /\ observation.remaining \in Nat
        /\ observation.at <= clock /\ Explained(observation.at, observation.remaining)
  BY <1>1 DEF ObservationInv, BalanceTypes, CapacityTypes, Observations
<1>4. ASSUME NEW w \in Readers, reading[w] # Nothing
      PROVE  /\ reading[w].at \in Nat /\ reading[w].at <= clock
             /\ reading[w].remaining # Nothing =>
                  reading[w].remaining \in Nat /\ Explained(reading[w].at, reading[w].remaining)
  <2>1. reading[w] \in [at : 0..(MaxTime + Skew), remaining : (0..DailyCredit) \union {Nothing}]
    BY <1>4 DEF BalanceTypes, CapacityTypes
  <2> QED BY <1>1, <1>4, <2>1 DEF ReadingInv
<1>5. ASSUME NEW o, o = observation',
             o # Nothing => /\ o.at \in Nat /\ o.at <= clock
                            /\ o.remaining \in Nat /\ Explained(o.at, o.remaining)
      PROVE  ObservationInv'
  <2> SUFFICES ASSUME o # Nothing
               PROVE  o.at <= clock' /\ Explained(o.at, o.remaining)'
    BY <1>5 DEF ObservationInv, Explained, LateCharges, Late, Covered
  <2> QED BY <1>2, <1>5
<1>6. ASSUME NEW w \in Readers, NEW q, q = reading'[w],
             q # Nothing => /\ q.at \in Nat /\ q.at <= clock
                            /\ q.remaining # Nothing =>
                                 q.remaining \in Nat /\ Explained(q.at, q.remaining)
      PROVE  (reading[w] # Nothing =>
                /\ reading[w].at <= clock
                /\ reading[w].remaining # Nothing =>
                     Explained(reading[w].at, reading[w].remaining))'
  <2> SUFFICES ASSUME q # Nothing
               PROVE  /\ q.at <= clock'
                      /\ q.remaining # Nothing => Explained(q.at, q.remaining)'
    BY <1>6 DEF Explained, LateCharges, Late, Covered
  <2>1. q.at <= clock'
    BY <1>1, <1>6
  <2> QED BY <1>2, <1>6, <2>1
<1>7. ObservationInv'
  <2>1. CASE observation' = observation
    BY <1>3, <1>5, <2>1
  <2>2. CASE observation' = Nothing
    BY <1>5, <2>2
  <2>3. ASSUME NEW w \in Readers, Observe(w), observation' # observation
        PROVE  ObservationInv'
    <3>1. observation' = [at |-> reading[w].at, remaining |-> reading[w].remaining]
      BY <2>3 DEF Observe, Stamp
    <3>2. reading[w] # Nothing /\ reading[w].remaining # Nothing
      BY <2>3 DEF Observe
    <3>3. PICK o : o = observation'
      OBVIOUS
    <3>4. o.at = reading[w].at /\ o.remaining = reading[w].remaining
      BY <3>1, <3>3
    <3> QED BY <1>4, <1>5, <3>2, <3>3, <3>4
  <2>4. \/ observation' = observation \/ observation' = Nothing
        \/ \E w \in Readers : Observe(w)
    BY DEF Next, vars, Tick, Reserve, Hold, Release, Retain, RetainUnproven, KeepMaximum,
           Settle, Close, ProviderCharges, ProviderChargesLate, Meter,
           StartReading, ReadBalance, MarkCapacityUnavailable
  <2> QED BY <2>1, <2>2, <2>3, <2>4
<1>8. ReadingInv'
  <2> SUFFICES ASSUME NEW w \in Readers
               PROVE  (reading[w] # Nothing =>
                         /\ reading[w].at <= clock
                         /\ reading[w].remaining # Nothing =>
                              Explained(reading[w].at, reading[w].remaining))'
    BY DEF ReadingInv
  <2>1. PICK q : q = reading'[w]
    OBVIOUS
  <2>2. reading \in [Readers -> [at : 0..(MaxTime + Skew),
                                 remaining : (0..DailyCredit) \union {Nothing}] \union {Nothing}]
    BY DEF BalanceTypes, CapacityTypes
  <2>3. CASE q = reading[w]
    BY <1>4, <1>6, <2>1, <2>3
  <2>4. CASE q = Nothing
    BY <1>6, <2>1, <2>4
  <2>5. CASE StartReading(w)
    <3>1. q = [at |-> clock + Skew, remaining |-> Nothing]
      BY <2>1, <2>2, <2>5 DEF StartReading
    <3>2. q.at = clock /\ q.remaining = Nothing
      BY <1>1, <3>1
    <3> QED BY <1>1, <1>6, <2>1, <3>2
  <2>6. CASE ReadBalance(w) /\ q # Nothing
    <3>1. reading[w] # Nothing /\ left >= 0 /\ q = [reading[w] EXCEPT !.remaining = left]
      BY <2>1, <2>2, <2>6 DEF ReadBalance
    <3>2. reading[w] \in [at : 0..(MaxTime + Skew), remaining : (0..DailyCredit) \union {Nothing}]
      BY <2>2, <3>1
    <3>3. q.at = reading[w].at /\ q.remaining = left
      BY <3>1, <3>2
    <3>4. q.at \in Nat /\ q.at <= clock
      BY <1>4, <3>1, <3>3
    <3>5. LateCharges(q.at) \in Nat
      BY <1>1, <3>4, LateType
    <3>6. Covered \in Nat
      BY DEF BalanceTypes
    <3>7. Explained(q.at, q.remaining)
      <4>1. PICK n \in Nat : n = LateCharges(q.at)
        BY <3>5
      <4>2. left <= Covered + n
        BY <1>1, <3>6, <4>1
      <4> QED BY <3>3, <4>1, <4>2 DEF Explained
    <3>8. q.remaining \in Nat
      BY <1>1, <3>1, <3>3
    <3> QED BY <1>6, <2>1, <3>4, <3>7, <3>8
  <2>7. q = reading[w] \/ q = Nothing \/ StartReading(w) \/ ReadBalance(w)
    <3>1. \A v \in Readers : StartReading(v) \/ ReadBalance(v) =>
            v = w \/ reading'[w] = reading[w]
      BY <2>2 DEF StartReading, ReadBalance
    <3>2. \A v \in Readers : Observe(v) \/ MarkCapacityUnavailable(v) =>
            reading'[w] = Nothing \/ reading'[w] = reading[w]
      BY <2>2 DEF Observe, MarkCapacityUnavailable
    <3>3. \/ reading' = reading
          \/ \E v \in Readers : \/ StartReading(v) \/ ReadBalance(v)
                                \/ Observe(v) \/ MarkCapacityUnavailable(v)
      BY DEF Next, vars, Tick, Reserve, Hold, Release, Retain, RetainUnproven, KeepMaximum,
             Settle, Close, ProviderCharges, ProviderChargesLate, Meter
    <3> QED BY <2>1, <3>1, <3>2, <3>3
  <2> QED BY <2>3, <2>4, <2>5, <2>6, <2>7
<1> QED BY <1>7, <1>8

LEMMA CoverInit == Init => CoverInv
PROOF
<1> SUFFICES ASSUME Init PROVE CoverInv
  OBVIOUS
<1>1. DailyCredit \in Nat /\ MaxAmount \in Nat
  BY CreditAssumption DEF CreditAssumption
<1>2. BalanceTypes
  BY <1>1 DEF Init, BalanceTypes, CapacityTypes, Covered
<1>3. ObservationInv /\ ReadingInv
  BY DEF Init, ObservationInv, ReadingInv
<1>4. Solvent
  <2>1. {r \in Requests : state[r] \in Outstanding /\ charge[r] = 0} = {}
    BY DEF Init, Outstanding
  <2>2. MaxAmount * 0 = 0
    BY <1>1
  <2> QED BY <1>1, <2>1, <2>2, FS_EmptySet DEF Init, Solvent, Covered
<1> QED BY <1>2, <1>3, <1>4 DEF CoverInv

LEMMA CoverStep ==
  ASSUME Skew = 0
  PROVE  LedgerInv /\ LedgerInv' /\ CoverInv /\ [Next]_vars => CoverInv'
PROOF
<1> SUFFICES ASSUME LedgerInv, LedgerInv', CoverInv, [Next]_vars PROVE CoverInv'
  OBVIOUS
<1>1. LedgerTypes /\ LedgerTypes' /\ BalanceTypes /\ ObservationInv /\ ReadingInv /\ Solvent
  BY DEF LedgerInv, CoverInv
<1>2. /\ Solvent' /\ left' \in Int /\ belated' \in Nat
      /\ Covered' \in Nat /\ Covered' <= DailyCredit
  BY <1>1, SolventStep
<1>3. CapacityTypes'
  BY <1>1, CapacityTypesStep
<1>4. ObservationInv' /\ ReadingInv'
  BY <1>1, EvidenceStep
<1> QED BY <1>2, <1>3, <1>4 DEF CoverInv, BalanceTypes

\* While the worker's clock is not ahead of PostgreSQL's: whatever is settled during a
\* reading, charged late, retained or carried over midnight, the balance admission
\* goes by is explained, and the provider's credit, but for what it charged today to
\* rows already closed, covers every open maximum.
THEOREM CoverIsInvariant ==
  ASSUME Skew = 0
  PROVE  Spec => []CoverInv
BY CoverInit, CoverStep, LedgerIsInvariant, PTL DEF Spec

\* No overdraft but by today's belated charges.
THEOREM CreditIsSolvent ==
  ASSUME Skew = 0
  PROVE  Spec => []Solvent
BY CoverIsInvariant, PTL DEF CoverInv

\* Type correctness; in particular the provider's balance is overdrawn by no more than
\* today's belated charges.
THEOREM CreditTypes ==
  ASSUME Skew = 0
  PROVE  Spec => []TypeOK
PROOF
<1>1. LedgerInv /\ CoverInv => TypeOK
  <2>1. DailyCredit \in Nat
    BY CreditAssumption DEF CreditAssumption
  <2> QED BY <2>1 DEF LedgerInv, LedgerTypes, CoverInv, BalanceTypes, TypeOK
<1> QED BY <1>1, CoverIsInvariant, LedgerIsInvariant, PTL

==============================================================================
