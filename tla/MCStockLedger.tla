---- MODULE MCStockLedger ----
EXTENDS StockLedger, TLC
CONSTANTS w1, w2
MCRank == w1 :> 1 @@ w2 :> 2
Symmetry == Permutations(Order) \cup Permutations(Reservation)
====
