SPECIFICATION Spec
CONSTANTS
    Events = {e1, e2}
    Channels = {"EMAIL", "SMS"}
    Checkpointers = {k1}
    Verifiers = {v1}
    MaxTime = 0
    e1 = e1
    e2 = e2
    k1 = k1
    v1 = v1
CHECK_DEADLOCK FALSE
INVARIANT UntouchedChainVerifies
