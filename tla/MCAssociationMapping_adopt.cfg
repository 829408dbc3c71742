SPECIFICATION Spec
CONSTANTS
    A = {a1, a2}
    B = {b1, b2}
    Mapping <- DefaultMapping
    Type <- MCType
    Unset = Unset
    AdoptByNew = TRUE
    Nothing = Nothing
SYMMETRY MCSymmetry
INVARIANTS
    SingleEnded
CHECK_DEADLOCK FALSE
