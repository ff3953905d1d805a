SPECIFICATION Spec
CONSTANTS
    Contacts = {c1}
    Events = {e1}
    Stops = {"manual"}
    Cap = 1
    MaxRetries = 1
    MaxPasses = 1
    MaxToggles = 0
    c1 = c1
    e1 = e1
CHECK_DEADLOCK FALSE
INVARIANT OneDraftPerUnit
