SPECIFICATION PlanningSpec
CONSTANTS
    w1 = w1
    w2 = w2
    o1 = o1
    o2 = o2
    NoPreference = NoPreference
    Warehouse = {w1, w2}
    Order = {o1, o2}
    Rank <- MCRank
    Urgency <- MCUrgency
    Lines <- MCLines
    Strategies <- MCStrategies
    InitialStock <- MCStock
    MaxStock = 2
    MaxReservations = 3
    MaxShipments = 2
INVARIANTS DriftIsUncounted LinesMatchReservations StatusFitsLines StoppedHoldsNothing
CHECK_DEADLOCK FALSE
