--------------------------- MODULE MCDaemonIndex ---------------------------
(* Instances of DaemonIndex for TLC. *)
EXTENDS DaemonIndex, TLC

CONSTANTS h1, h2, v1, v2, k1, k2, u1, u2, u3

Symmetry == Permutations({h1, h2}) \cup Permutations({k1, k2})
              \cup Permutations(UUIDs \ Flaky)
=============================================================================
