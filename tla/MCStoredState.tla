--------------------------- MODULE MCStoredState ----------------------------
(* Instances of StoredState for TLC. *)
EXTENDS StoredState

CONSTANTS d1, d2, m1

RamSymmetry == Permutations({d1, d2})

=============================================================================
