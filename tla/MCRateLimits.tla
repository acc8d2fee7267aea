---------------------------- MODULE MCRateLimits ----------------------------
(* Instances of RateLimits for TLC. *)
EXTENDS RateLimits, TLC

\* Threads are alike.
Alike == Permutations(Threads)
=============================================================================
