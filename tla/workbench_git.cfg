CONSTANTS
    None = None
    Views = {v1, v2}
    ProjectOf <- OneProject
    Symbols = {f, g}
    Activations = {c1, c2}
    MaxHistory = 2
SPECIFICATION Spec
SYMMETRY Interchangeable
CHECK_DEADLOCK FALSE
INVARIANT GitDescribesCodeShown
