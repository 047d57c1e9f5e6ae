------------------------- MODULE MCStorageMigration -------------------------
(* Instances of StorageMigration for TLC. *)
EXTENDS StorageMigration, TLC

CONSTANTS p1, p2, f1, f2

MCTwoPlaces == {p1, p2}
MCOneFile   == {f1}
MCTwoFiles  == {f1, f2}

Symmetry == Permutations(Place) \cup Permutations(File)
=============================================================================
