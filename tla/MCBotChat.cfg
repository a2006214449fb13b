SPECIFICATION Spec
CONSTANTS
    Id = {i1, i2}
    Needle = {word}
    Null = Null
    Message = {m1, m2}
    Goroutine = {g1, g2}
    User = {owner, stranger}
    Configured = {owner}
    MaxPage = 1
    MaxUpdates = 5
SYMMETRY MCSymmetry
CHECK_DEADLOCK FALSE
INVARIANTS
    BackIsTrue
    TapsHitTheirTask
    NoDisclosure
