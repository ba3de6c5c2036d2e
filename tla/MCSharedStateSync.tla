------------------------- MODULE MCSharedStateSync -------------------------
(***************************************************************************)
(* Small instances of SharedStateSync for TLC: a product and a table on    *)
(* two devices, of which the second has a better network.                  *)
(***************************************************************************)
EXTENDS SharedStateSync

CONSTANTS product, table, d1, d2

MCGuarded == {product} \cap Records

\* How much may happen on each device.
Lively == [d \in Devices |-> IF d = d1 THEN 2 ELSE 1]
Quiet == [d \in Devices |-> 1]
=============================================================================
