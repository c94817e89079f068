------------------------------ MODULE MCVault ------------------------------
(* Instances of Vault for TLC. *)
EXTENDS Vault, TLC

CONSTANTS p1, p2, A, B, k1, k2, d1, d2

\* A founds the vault and B may be added.  Processes, names and payloads are
\* interchangeable; users (A is the founder) and files (glob order) are not.
Symmetry == Permutations({p1, p2}) \cup Permutations({k1, k2})
                \cup Permutations({d1, d2})
=============================================================================
