SPECIFICATION Spec
CONSTANTS
    k1 = k1
    k2 = k2
    calm = calm
    busy = busy
    steady = steady
    s1 = s1
    s2 = s2
    Session = {s1, s2}
    Sku = {k1, k2}
    Demand = {calm, steady, busy}
    Safety <- MCSafety
    LeadTimeNeed <- MCLeadTimeNeed
    None = None
    InitialStock <- MCInitialStock
    InitialPolicies <- MCInitialPolicies
    InitialDemands <- MCInitialDemands
    MaxFlow <- MCMaxFlow
    MaxQty = 1
    MaxCalls = 3
    MaxShifts = 1
SYMMETRY MCSymmetry
INVARIANTS MixedPolicyNeedsRace OrdersCoverTarget OversupplyNeedsRepetition
CHECK_DEADLOCK FALSE
