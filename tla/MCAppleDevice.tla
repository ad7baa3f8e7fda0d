--------------------------- MODULE MCAppleDevice ---------------------------
(* Two commands of one device.                                             *)
EXTENDS AppleDevice

CONSTANTS c1, c2

ToDevice == [c \in Commands |-> Device]
============================================================================
