SPECIFICATION Spec
CONSTANTS
    Requests = {c1, c2, c3, c4}
    c1 = c1
    c2 = c2
    c3 = c3
    c4 = c4
    Original = Original
    Kinds = {"enqueue", "edit", "sweep", "queueApprove"}
SYMMETRY RequestSymmetry
CHECK_DEADLOCK FALSE
INVARIANTS
    EscalatedNotSelfApproved
