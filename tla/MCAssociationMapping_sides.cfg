SPECIFICATION Spec
CONSTANTS
    A = {a1, a2}
    B = {b1, b2}
    Mapping <- CheckedMapping
    Type <- MCType
    Unset = Unset
    AdoptByNew = FALSE
    Nothing = Nothing
SYMMETRY MCSymmetry
INVARIANTS
    TypeOK
    ConnectedIsRead
    DisconnectedIsGone
    SidesAgree
    SingleEnded
PROPERTIES
    OthersKept
CHECK_DEADLOCK FALSE
