SPECIFICATION Spec
CONSTANTS
    Session = {s1, s2}
    Parent = {p1, p2}
    Child = {c1, c2}
    Kinds = {"unidirectional", "bidirectional"}
    MaxCalls = 3
    NoParent = NoParent
    Unread = Unread
SYMMETRY MCSymmetry
CONSTRAINT OverlapBound
INVARIANTS
    TypeOK
PROPERTIES
    OnlyRemovedDisappear
    OneParentUnlessRaced
    CollectionsWritten
    ToOneWritten
CHECK_DEADLOCK FALSE
