---------------------------- MODULE MCWebhooks ----------------------------
(* Small instances of Webhooks for TLC.                                      *)
EXTENDS Webhooks, TLC

CONSTANTS w1, w2, d1, d2, d3, u1, u2, p1, p2, c1, c2

Symmetry == Permutations({w1, w2}) \cup Permutations({d1, d2, d3})
              \cup Permutations({u1, u2}) \cup Permutations({p1, p2})
              \cup Permutations({c1, c2})
=============================================================================
