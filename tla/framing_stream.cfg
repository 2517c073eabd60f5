CONSTANTS
    None = None
    Writers = {w1, w2}
    MaxPayload = 2
SPECIFICATION FairSpec
INVARIANT FramesIntact
INVARIANT DamageIsReported
PROPERTY WrittenFramesArrive
