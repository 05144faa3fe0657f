------------------------------ MODULE Visibility ------------------------------
(* The network visibility of one SKU, which the cache keeps a copy of and    *)
(* the planners compute from.                                                *)
EXTENDS Warehouses, Totals

(* InventoryBalanceRepository.get_network_visibility, from what is available *)
(* over all rows of each warehouse: an oversold warehouse shows nothing.     *)
Visible(units) == [w \in Warehouse |-> Floor(units[w])]
=============================================================================
