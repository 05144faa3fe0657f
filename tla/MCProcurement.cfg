SPECIFICATION ProcurementSpec
CONSTANTS
    k1 = k1
    k2 = k2
    k3 = k3
    c1 = c1
    c2 = c2
    s1 = s1
    s2 = s2
    Session = {s1, s2}
    Line <- MCLine
    Sku = {k1, k2, k3}
    SkuOf <- MCSkuOf
    Ordered <- MCOrdered
    None = None
    MaxQty = 1
    MaxCalls = 4
    Criterion = {c1, c2}
    Weight <- MCWeight
    Grade = {0, 100}
SYMMETRY MCSymmetry
INVARIANTS ReceiptsAddUp StatusKnowsLines SuspensionIsExplained PreferenceIsEarned
PROPERTIES OrdersGoToActive
CHECK_DEADLOCK FALSE
