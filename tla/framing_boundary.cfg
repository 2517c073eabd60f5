CONSTANTS
    None = None
    Writers = {w1}
    MaxPayload = 1
SPECIFICATION Spec
INVARIANT CleanEndOnlyAtBoundary
