-------------------------- MODULE MCLedgerSessions --------------------------
(* LedgerSessions on two warehouses: one stocked, the other stocked or bare. *)
EXTENDS LedgerSessions, TLC

CONSTANTS w1, w2

MCRank == w1 :> 1 @@ w2 :> 2
BothStocked == w1 :> 1 @@ w2 :> 1
OneBare == w1 :> 2 @@ w2 :> 0
MCStocks == {BothStocked, OneBare}
StocksLive == {w1 :> 1 @@ w2 :> 1}
StocksTwice == {OneBare}

Symmetry == Permutations(Request) \cup Permutations(Order) \cup Permutations(Reservation)
=============================================================================
