---------------------------- MODULE MCLifecycle ----------------------------
(* Small instances of Lifecycle for TLC.                                     *)
EXTENDS Lifecycle, TLC

CONSTANTS i1, i2, c1, c2

AllOps == Requests

AllFaults == Faults

Symmetry == Permutations({i1, i2}) \cup Permutations({c1, c2})
=============================================================================
