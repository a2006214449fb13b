SPECIFICATION FairSpec
CONSTANTS
    Update = {u1, u2}
    TextField = {tags}
    PickField = {status}
    Value = {x, y}
    Status = status
    Finished = x
    Tags = tags
    NoTags = x
    Child = {c}
    MaxVersion = 2
    None = None
CHECK_DEADLOCK FALSE
PROPERTIES
    Finishes
