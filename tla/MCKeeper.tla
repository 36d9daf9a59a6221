-------------------------------- MODULE MCKeeper --------------------------------
(* Small instances of Keeper: two projects, workers interchangeable.          *)
EXTENDS Keeper, TLC

CONSTANTS p1, p2

OneJob == <<p1>>
TwoJobs == <<p1, p1>>
Apart == <<p1, p2>>
Symmetry == Permutations(Workers)
==============================================================================
