SPECIFICATION Spec
CONSTANTS
    Update = {u1, u2, u3}
    TextField = {tags}
    PickField = {status}
    Value = {x, y}
    Status = status
    Finished = x
    Tags = tags
    NoTags = x
    Child = {c}
    MaxVersion = 2
    None = None
SYMMETRY MCSymmetry
CHECK_DEADLOCK FALSE
INVARIANTS
    TypeOK
    AppliedOnce
    Honest
PROPERTIES
    OwnFieldOnly
    NoClobber
