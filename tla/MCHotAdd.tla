------------------------------ MODULE MCHotAdd ------------------------------
(* Small instances of HotAdd for TLC. *)
EXTENDS HotAdd, TLC

CONSTANTS m1, m2

MigrationSymmetry == Permutations(Migrations)
=============================================================================
