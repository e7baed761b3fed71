------------------------ MODULE MCChangedBlockCopy -------------------------
(* Small instances of ChangedBlockCopy for TLC. *)
EXTENDS ChangedBlockCopy

CONSTANTS w1, w2
=============================================================================
