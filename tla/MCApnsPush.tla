----------------------------- MODULE MCApnsPush -----------------------------
(* Threads are interchangeable.                                            *)
EXTENDS ApnsPush, TLC

Interchangeable == Permutations(Threads)
============================================================================
