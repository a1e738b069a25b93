--------------------------- MODULE MCRateLimiter ---------------------------
(***************************************************************************)
(* Small instances of RateLimiter: windows of two seconds of two ticks     *)
(* each.                                                                   *)
(***************************************************************************)
EXTENDS RateLimiter, TLC

CONSTANTS r1, r2, r3, r4

Symmetry == Permutations(Requests)
=============================================================================
