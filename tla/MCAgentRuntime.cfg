SPECIFICATION Spec
CONSTANTS
    Contacts = {c1, c2}
    Events = {e1, e2}
    Stops = {"manual", "dnc"}
    Cap = 1
    MaxRetries = 1
    MaxPasses = 2
    MaxToggles = 1
    c1 = c1
    c2 = c2
    e1 = e1
    e2 = e2
CHECK_DEADLOCK FALSE
INVARIANTS
    MarkedMeansRecorded
    StoppedStaysUntouched
    CapHonouredWhenDrained
PROPERTIES
    ProcessedIsFinal
    SentSettles
