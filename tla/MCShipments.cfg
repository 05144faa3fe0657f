SPECIFICATION Spec
CONSTANTS
    p1 = p1
    p2 = p2
    p3 = p3
    p4 = p4
    p5 = p5
    x = x
    y = y
    slow = slow
    fast = fast
    mid = mid
    None = None
    Shipment = {p1, p2, p3, p4, p5}
    Carrier = {slow, fast, mid}
    Session = {x, y}
    Running <- MCRunning
    Loaded = {p1, p2, p3, p4}
    Drafts = {p2}
    Pickup = {p1, p2, p3, p4}
    Weight <- MCWeight
    DefaultWeight = 4
    Region <- MCRegion
    MaxLoad <- MCMaxLoad
    Price <- MCPrice
    Score <- MCScore
    MaxGroupSize = 2
    MaxGroupWeight = 4
    Day <- MCDay
    DockCapacity = 1
    MaxCalls = 4
SYMMETRY SessionSymmetry
INVARIANTS HistoryTellsStatus SelectedRoutesAgree LoadsFit DocksCountShipments
CHECK_DEADLOCK FALSE
