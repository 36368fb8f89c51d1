------------------------------ MODULE MCSession ------------------------------
(* Small instances of Session for TLC.                                       *)
EXTENDS Session

CONSTANTS u1, u2, k1, k2, t1, t2, s1, s2
=============================================================================
