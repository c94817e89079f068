--------------------------- MODULE MCVaultDaemon ---------------------------
(* Instances of VaultDaemon for TLC. *)
EXTENDS VaultDaemon, TLC

CONSTANTS p1, p2, A, B, k1, k2, d1

Symmetry == Permutations({p1, p2}) \cup Permutations({k1, k2})
=============================================================================
