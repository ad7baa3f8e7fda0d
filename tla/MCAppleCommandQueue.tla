------------------------ MODULE MCAppleCommandQueue ------------------------
(* Small fleets for TLC: c1 and c2 go to one device, c3 to the other.      *)
EXTENDS AppleCommandQueue, TLC

CONSTANTS d1, d2, c1, c2, c3

OneDevice == [c \in Commands |-> d1]
TwoDevices == [c \in Commands |-> IF c = c3 THEN d2 ELSE d1]

(* Threads are interchangeable, and so are the commands of one device.     *)
Interchangeable == Permutations(Workers) \cup Permutations(Commands)
============================================================================
