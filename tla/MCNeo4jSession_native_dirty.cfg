SPECIFICATION Spec
CONSTANTS
    NoRow = NoRow
    Session = {s1}
    Node = {f}
    Fresh = {f}
    NativeId = {f}
    Versioned = {f}
    Tag = {t1, t2}
    Mode = {"active"}
    MaxDepth = 1
    MaxVersion = 2
    PreBound = TRUE
    Reuse = FALSE
SYMMETRY Symmetry
PROPERTIES
    NothingLeftDirty
CHECK_DEADLOCK FALSE
