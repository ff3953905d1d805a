SPECIFICATION Spec
CONSTANTS
    r1 = r1
    r2 = r2
    r3 = r3
    c1 = c1
    g1 = g1
    k1 = k1
    p1 = p1
    rep = rep
    corp = corp
    ghost = ghost
    Reps = {rep, corp, ghost}
    Runs = {r1, p1, k1, c1, g1}
    RepOf <- MixedRepOf
    Ceiling <- MixedCeiling
    Estimate = 1
    MaxCost = 2
    OrgReps = {corp}
    UnknownReps = {ghost}
    OrgCeiling = 1
    PlatformCeiling = 2
    Critical = {k1}
    Probes = {p1}
    Switches = {"PLATFORM"}
INVARIANTS
    HoldsMatchRuns
    HoldsWithinCeiling
    OvershootExplained
