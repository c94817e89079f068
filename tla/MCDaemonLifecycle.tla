------------------------- MODULE MCDaemonLifecycle -------------------------
(* Instances of DaemonLifecycle for TLC. *)
EXTENDS DaemonLifecycle

CONSTANTS d1, d2, d3, c1, c2, g
=============================================================================
