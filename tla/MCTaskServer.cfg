SPECIFICATION ServerSpec
CONSTANTS
    b = b
    bad = bad
    todo = todo
    done = done
    unknown = unknown
    Id = {i1, i2}
    Body = {b}
    BadBody = bad
    Status = {todo, done}
    Terminal = {done}
    BadStatus = unknown
    Open = todo
    Time = {1}
    Null = Null
    Handler = {h1, h2}
    CurrentFmt = 1
    InitialFiles = {}
    AddRequests <- MCAdds
    UpdateBatches <- MCBatches
    MaxStateVersion = 2
    Credential = {secret}
    Absent = Absent
    Rates <- MCRates
    DefaultRate = 1
CHECK_DEADLOCK FALSE
INVARIANTS
    ServerTypeOK
    OnlyTheOwner
    EtagNamesOneState
    CompletionStamped
PROPERTIES
    LockReleased
    LockedOutByOwnTraffic
