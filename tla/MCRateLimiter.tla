---------------------------- MODULE MCRateLimiter ----------------------------
(* Small instances of RateLimiter for TLC.                                   *)
EXTENDS RateLimiter

CONSTANTS k1, k2
=============================================================================
