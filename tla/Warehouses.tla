------------------------------ MODULE Warehouses ------------------------------
(* The warehouses, which the modules on allocation and on the network's      *)
(* visibility share.                                                        *)
EXTENDS FiniteSets

CONSTANT Warehouse      \* the active warehouses

ASSUME WarehouseFinite == IsFiniteSet(Warehouse)
=============================================================================
