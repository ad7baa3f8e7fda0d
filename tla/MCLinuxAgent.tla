---------------------------- MODULE MCLinuxAgent ----------------------------
(* The numbers of the small instances are in the configurations; threads   *)
(* are no symmetry set, because symmetry is unsound for liveness.          *)
EXTENDS LinuxAgent, TLC
============================================================================
