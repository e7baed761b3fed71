--------------------------- MODULE MCReplication ---------------------------
(* Small instances of Replication for TLC. *)
EXTENDS Replication

CONSTANTS b1, b2

Permuted == [d \in Disks |-> (d % NumDisks) + 1]
InOrder == [d \in Disks |-> d]
=============================================================================
