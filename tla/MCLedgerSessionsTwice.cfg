SPECIFICATION Spec
CONSTANTS
    w1 = w1
    w2 = w2
    None = None
    Rank <- MCRank
    Warehouse = {w1, w2}
    Order = {o1, o2}
    Reservation = {r1, r2}
    Request = {s1, s2}
    Worker = worker
    Stocks <- StocksTwice
    MaxQty = 2
    MaxStock = 1
    MaxCalls = 2
INVARIANTS NothingPromisedTwice
CHECK_DEADLOCK FALSE
