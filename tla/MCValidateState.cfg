SPECIFICATION FairSpec
CONSTANTS
    b = b
    bad = bad
    todo = todo
    done = done
    unknown = unknown
    Id = {i1, i2, i3}
    Body = {b}
    BadBody = bad
    Status = {todo, done}
    Terminal = {done}
    BadStatus = unknown
    Open = todo
    Time = {1}
    Null = Null
    Inputs <- MCInputs
CHECK_DEADLOCK FALSE
INVARIANTS
    AcceptsForests
    ErrorIsReal
PROPERTIES
    Returns
