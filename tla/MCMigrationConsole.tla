------------------------ MODULE MCMigrationConsole ------------------------
(* Small instances of MigrationConsole for TLC. *)
EXTENDS MigrationConsole, TLC
CONSTANTS v1, v2, v3, p1, p2, q1, q2
OneBatch == (p1 :> <<{v1, v2}>>) @@ (p2 :> <<{v3}>>)
TwoVMs == p1 :> <<{v1, v2}>>
TwoBatches == p1 :> <<{v1}, {v2}>>
Symmetry ==
  {f @@ g : f \in Permutations({v1, v2}), g \in Permutations({q1, q2})}
=============================================================================
