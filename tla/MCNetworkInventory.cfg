SPECIFICATION FairCacheSpec
CONSTANTS
    w1 = w1
    w2 = w2
    w3 = w3
    Warehouse = {w1, w2, w3}
    Reader = {r1}
    Writer = {s1}
    Nothing = Nothing
    Levels <- MCLevels
    RowOrder <- MCRowOrder
    Policy <- MCPolicy
INVARIANTS StaleNeedsOverlap PlansSettle FillsFromFewest
PROPERTIES StaleViewsExpire
