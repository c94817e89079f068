--------------------------- MODULE MCGuiFrontend ---------------------------
EXTENDS GuiFrontend, TLC

CONSTANTS db, padded    \* "db" and " db"

MCNames == {db, padded}
MCTrimmed == [n \in MCNames |-> db]

Symmetry == Permutations(Slots)
=============================================================================
