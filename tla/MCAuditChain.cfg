SPECIFICATION Spec
CONSTANTS
    Events = {e1, e2}
    Channels = {"EMAIL", "SMS", "null"}
    Checkpointers = {k1, k2}
    Verifiers = {v1}
    MaxTime = 1
    e1 = e1
    e2 = e2
    k1 = k1
    k2 = k2
    v1 = v1
SYMMETRY CallSymmetry
CHECK_DEADLOCK FALSE
INVARIANTS
    ChainLinked
    ChainReportExact
    CheckpointsStand
    AlarmOnlyOutOfOrder
PROPERTIES
    ImplementsLog
