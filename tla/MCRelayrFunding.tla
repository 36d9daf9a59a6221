---------------------------- MODULE MCRelayrFunding ----------------------------
(* Small instances of RelayrFunding.                                          *)
EXTENDS RelayrFunding, TLC

Symmetry == Permutations(Tabs) \union Permutations(Operations)
==============================================================================
