-------------------------- MODULE MCAppleEnrollment --------------------------
(* Threads are interchangeable.                                            *)
EXTENDS AppleEnrollment, TLC

Interchangeable == Permutations(Threads)
============================================================================
