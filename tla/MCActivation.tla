----------------------------- MODULE MCActivation -----------------------------
(* Small instances of Activation.                                             *)
EXTENDS Activation, FiniteSets, TLC

MCLife == <<"staked", "winding">>

Symmetry == Permutations(Attempts) \union Permutations(Canaries)

\* Bounds: two processes at a time besides the synchronization, and of these
\* only refresh attempts once the vault winds down.
Few ==
  LET canary == {c \in Canaries : canaries[c].pc # "idle"}
      attempt == {a \in Attempts : attempts[a].pc # "idle"}
  IN  /\ Cardinality(canary) + Cardinality(attempt) <= 2
      /\ Phase(vault) # "staked" => canary = {} /\ sync = None
==============================================================================
