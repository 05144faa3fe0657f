SPECIFICATION Spec
CONSTANTS
    w1 = w1
    w2 = w2
    Warehouse = {w1, w2}
    Order = {o1, o2}
    Reservation = {r1, r2}
    None = None
    Rank <- MCRank
    Request = {s1, s2}
    Worker = worker
    Stocks <- MCStocks
    MaxQty = 2
    MaxStock = 1
    MaxCalls = 3
SYMMETRY Symmetry
INVARIANTS DriftNeedsOverlap StockSurvives OversellNeedsOverlap
CHECK_DEADLOCK FALSE
