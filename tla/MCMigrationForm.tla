-------------------------- MODULE MCMigrationForm --------------------------
(* A small instance of MigrationForm for TLC. *)
EXTENDS MigrationForm, TLC
CONSTANTS s1, s2, p1, p2, vc1, vc2, pcd
TwoEach == [source |-> {s1, s2}, target |-> {p1, p2}]
Owner == (s1 :> vc1) @@ (s2 :> vc2) @@ (p1 :> pcd) @@ (p2 :> pcd)
=============================================================================
