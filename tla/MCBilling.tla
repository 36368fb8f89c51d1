------------------------------ MODULE MCBilling ------------------------------
(* Small instances of Billing for TLC.                                       *)
EXTENDS Billing, TLC

CONSTANTS u1, u2, u3, i1, i2, c1, c2

Symmetry == Permutations({u1, u2, u3}) \cup Permutations({i1, i2})
              \cup Permutations({c1, c2})
=============================================================================
