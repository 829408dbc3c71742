SPECIFICATION Spec
CONSTANTS
    Session = {s1}
    Parent = {p1, p2}
    Child = {c1}
    Kinds = {"unidirectional", "bidirectional"}
    MaxCalls = 2
    NoParent = NoParent
    Unread = Unread
SYMMETRY MCSymmetry
PROPERTIES
    EveryChangeWritten
CHECK_DEADLOCK FALSE
