SPECIFICATION Spec
CONSTANTS
    b = b
    bad = bad
    todo = todo
    done = done
    unknown = unknown
    Id = {i1, i2, i3}
    Body = {b}
    BadBody = bad
    Status = {todo, done}
    Terminal = {done}
    BadStatus = unknown
    Open = todo
    Time = {1}
    Null = Null
    Handler = {h1, h2}
    CurrentFmt = 1
    InitialFiles <- MCFiles
    AddRequests <- AllAdds
    UpdateBatches <- AllBatches
    MaxStateVersion = 4
SYMMETRY MCSymmetry
CHECK_DEADLOCK FALSE
INVARIANTS
    TypeOK
    NoDivergence
    OneWriter
    ServedForest
    IndexIsInverse
    RestartSafe
    AckedIsDurable
    OnlyUpdateBreaksForest
    AddsWhereAsked
PROPERTIES
    KeepsPromise
