--------------------------- MODULE MCPasswordReset ---------------------------
(* Small instances of PasswordReset for TLC.                                 *)
EXTENDS PasswordReset, TLC

CONSTANTS t1, t2, t3, c1, c2

Symmetry == Permutations({t1, t2, t3}) \cup Permutations({c1, c2})
=============================================================================
