--------------------------- MODULE MCRateLimiter ---------------------------
(* Threads are interchangeable; addresses are not, one of them is watched. *)
EXTENDS RateLimiterHistory, TLC

Interchangeable == Permutations(Threads)
=============================================================================
