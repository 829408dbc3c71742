SPECIFICATION Spec
CONSTANTS
    NoRow = NoRow
    Session = {s1}
    Node = {v}
    Fresh = {}
    NativeId = {}
    Versioned = {v}
    Tag = {t1, t2}
    Mode = {"active"}
    MaxDepth = 2
    MaxVersion = 2
    PreBound = FALSE
    Reuse = FALSE
SYMMETRY Symmetry
INVARIANTS
    RolledBackNeverCommitted
CHECK_DEADLOCK FALSE
