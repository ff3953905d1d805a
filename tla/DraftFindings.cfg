SPECIFICATION Spec
CONSTANTS
    Requests = {c1, c2, c3}
    c1 = c1
    c2 = c2
    c3 = c3
    Original = Original
    Kinds = {"approve", "edit", "send"}
SYMMETRY RequestSymmetry
CHECK_DEADLOCK FALSE
INVARIANTS
    DispatchedTextApproved ReapprovedDraftClears
