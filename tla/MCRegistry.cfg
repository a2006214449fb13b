SPECIFICATION Spec
CONSTANTS
    Capacity = 3
    Element = {e1, e2, e3, e4}
    Token = {t1, t2, t3, t4, t5}
    Prompt = {p1, p2}
    Action = {a1, a2}
    None = None
SYMMETRY MCSymmetry
CHECK_DEADLOCK FALSE
INVARIANTS
    IndexesAgree
PROPERTIES
    IsLeastRecentlyUsed
