-------------------------- MODULE MCRequestLifecycle --------------------------
(* Small instances of RequestLifecycle.  Instances are interchangeable, and   *)
(* so are the requests of a run in which all of them, or none, are legacy.    *)
EXTENDS RequestLifecycle, TLC

Symmetry == Permutations(Instances) \union Permutations(Requests)
==============================================================================
