SPECIFICATION FairSpec
CONSTANTS
    w1 = w1
    w2 = w2
    Warehouse = {w1, w2}
    Order = {o1}
    Reservation = {r1, r2, r3, r4}
    None = None
    Rank <- MCRank
    Request = {s1, s2}
    Worker = s1
    Stocks <- StocksLive
    MaxQty = 2
    MaxStock = 0
    MaxCalls = 2
PROPERTIES EveryCallEnds
CHECK_DEADLOCK FALSE
