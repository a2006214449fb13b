SPECIFICATION Spec
CONSTANTS
    Id = {i1, i2}
    Old = Old
    Theirs = Theirs
    Title = {t1, t2}
    Bad = Bad
    Null = Null
    Contested = {"title"}
    MaxVersion = 2
    TypeAhead = TRUE
    MaxQueue = 2
SYMMETRY MCSymmetry
CHECK_DEADLOCK FALSE
INVARIANTS
    OneOutstanding
