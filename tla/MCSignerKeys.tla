----------------------------- MODULE MCSignerKeys -----------------------------
(* Small instances of SignerKeys.                                             *)
EXTENDS SignerKeys, TLC

Symmetry ==
  Permutations(Projects) \union Permutations(Signers) \union Permutations(Calls)

\* Bound: from the first new encryption key on, one request at a time.
OneCallOnceRotating ==
  current > 1 => Cardinality({c \in Calls : calls[c].pc # "idle"}) <= 1

\* Bound: a vault goes on to its third generation alone, and before a new key.
ThirdAlone ==
  (\E p \in Projects : vault[p].generation = 3) =>
    current = 1 /\ Cardinality({p \in Projects : vault[p].generation # 0}) = 1

\* No registration is about to commit while the stored rows are checked: what the
\* check misses then, it does not miss by a moment.
QuietCheck ==
  rotating # None => \A c \in Calls : calls[c].pc # "register!"
==============================================================================
