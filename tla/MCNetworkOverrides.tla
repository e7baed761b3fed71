------------------------- MODULE MCNetworkOverrides -------------------------
(* Small instances of NetworkOverrides for TLC. *)
EXTENDS NetworkOverrides, TLC
CONSTANTS v1, v2
(* The first VM's second interface has no address, the second VM's first    *)
(* has two.                                                                 *)
Inventory == (v1 :> <<"d1", "none">>) @@ (v2 :> <<"two", "none">>)
=============================================================================
