SPECIFICATION Spec
CONSTANTS
    r1 = r1
    r2 = r2
    r3 = r3
    c1 = c1
    g1 = g1
    k1 = k1
    p1 = p1
    rep = rep
    corp = corp
    ghost = ghost
    Reps = {rep}
    Runs = {r1, r2, r3}
    RepOf <- BurstRepOf
    Ceiling <- BurstCeiling
    Estimate = 1
    MaxCost = 2
    OrgReps = {}
    UnknownReps = {}
    OrgCeiling = 0
    PlatformCeiling = 9
    Critical = {}
    Probes = {}
    Switches = {}
INVARIANTS
    NoHoldOutlivesItsCall
    SpendWithinCeiling
    FreshSpendWithinCeiling
CHECK_DEADLOCK FALSE
