---------------------------- MODULE MCCreditLedger ----------------------------
(* A small instance of CreditLedger: three requests of two keys, two days.    *)
EXTENDS CreditLedger, TLC

CONSTANTS r1, r2, r3, k1, k2

OwnerOf == r1 :> k1 @@ r2 :> k1 @@ r3 :> k2
LimitOf == k1 :> 3 @@ k2 :> 4
\* r1 and r2 are requests of one key.
Symmetry == Permutations({r1, r2})

\* A reading matters only while there is a request to admit.
ReadingsMatter ==
  (\E r \in Requests : state[r] = "none") \/ \A w \in Readers : reading[w] = Nothing
==============================================================================
