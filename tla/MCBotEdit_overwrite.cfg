SPECIFICATION Spec
CONSTANTS
    Update = {u1, u2, u3}
    TextField = {tags}
    PickField = {status}
    Value = {x, y}
    Status = status
    Finished = x
    Tags = tags
    NoTags = x
    Child = {}
    MaxVersion = 3
    None = None
SYMMETRY MCSymmetry
CONSTRAINT Answered
CHECK_DEADLOCK FALSE
PROPERTIES
    OverwritesWhatWasShown
