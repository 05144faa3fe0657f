SPECIFICATION FloorSpec
CONSTANTS
    w1 = w1
    w2 = w2
    l1 = l1
    l2 = l2
    Warehouse = {w1, w2}
    Location = {l1, l2}
    Transfer = {t1, t2}
    Pick = {k1, k2}
    SiteOf <- MCSiteOf
    NoRow = NoRow
    NoRecord = NoRecord
    ReviewThreshold = 1
    InitialRows <- MCInitialRows
    MaxMove = 2
    MaxCompletions = 2
    MaxLosses = 1
SYMMETRY Symmetry
INVARIANTS InTransitIsOpen StockIsConserved TransfersSpareHeldStock NegativeNeedsSharing CountSettlesBook
CHECK_DEADLOCK FALSE
