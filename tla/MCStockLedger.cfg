SPECIFICATION FairSpec
CONSTANTS
    w1 = w1
    w2 = w2
    Warehouse = {w1, w2}
    Order = {o1, o2}
    Reservation = {r1, r2}
    None = None
    Rank <- MCRank
    Ttl = 1
    MaxExtension = 1
    MaxLeft = 1
    MaxQty = 2
    MaxBroken = 1
    MaxStock = 2
INVARIANTS TypeOK CountersAreBacked
PROPERTIES NoOverselling SettledOnce KeepsTheBook HoldsEnd
