---------------------------- MODULE MCUserAccess ----------------------------
(* One bootstrap administrator, boss, and one other user, ann.             *)
EXTENDS UserAccess, TLC

CONSTANTS boss, ann

Interchangeable == Permutations(Threads)
============================================================================
