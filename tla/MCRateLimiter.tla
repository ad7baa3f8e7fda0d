--------------------------- MODULE MCRateLimiter ---------------------------
(* Threads and addresses are interchangeable.                              *)
EXTENDS RateLimiter, TLC

Interchangeable == Permutations(Threads) \cup Permutations(Ips)
============================================================================
