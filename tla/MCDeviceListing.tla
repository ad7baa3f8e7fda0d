--------------------------- MODULE MCDeviceListing ---------------------------
(* Six possible devices, some of which enrol while a client lists them   *)
(* in pages of one to three; page sizes 0 and 4 are refused.               *)
EXTENDS DeviceListing

MCDevices == 1..6
MCSizes == 0..4
============================================================================
