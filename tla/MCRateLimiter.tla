---------------------------- MODULE MCRateLimiter ----------------------------
(***************************************************************************)
(* Small instances of RateLimiter.                                         *)
(***************************************************************************)
EXTENDS RateLimiter, TLC

\* The requests differ in nothing but their name and key.
Symmetry == Permutations(Req)

=============================================================================
