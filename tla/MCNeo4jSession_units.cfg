SPECIFICATION Spec
CONSTANTS
    NoRow = NoRow
    Session = {s1, s2}
    Node = {v, f}
    Fresh = {f}
    NativeId = {}
    Versioned = {v}
    Tag = {t1, t2}
    Mode = {"active"}
    MaxDepth = 1
    MaxVersion = 2
    PreBound = TRUE
    Reuse = FALSE
SYMMETRY Symmetry
INVARIANTS
    TypeOK
    RolledBackNeverCommitted
    OpenUnitInvisible
    NoOrphanTransaction
PROPERTIES
    NoLostUpdate
    NothingLeftDirty
    ImplementsVersionedGraph
CHECK_DEADLOCK FALSE
