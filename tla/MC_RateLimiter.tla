--------------------------- MODULE MC_RateLimiter ---------------------------
(***************************************************************************)
(* Model-checking instance of RateLimiter.                                 *)
(***************************************************************************)
EXTENDS RateLimiter, TLC

CONSTANTS u1, u2

MCSymmetry == Permutations({u1, u2})
============================================================================
