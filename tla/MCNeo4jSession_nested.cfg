SPECIFICATION Spec
CONSTANTS
    NoRow = NoRow
    Session = {s1, s2}
    Node = {f}
    Fresh = {f}
    NativeId = {f}
    Versioned = {f}
    Tag = {t1, t2}
    Mode = {"active", "readonly"}
    MaxDepth = 2
    MaxVersion = 2
    PreBound = TRUE
    Reuse = FALSE
SYMMETRY Symmetry
INVARIANTS
    NoOrphanTransaction
PROPERTIES
    ContentChangeBumpsVersion
CHECK_DEADLOCK FALSE
