SPECIFICATION Spec
CONSTANTS
    h1 = h1
    Handlers = {h1, h2}
    Keys = {k1, k2}
    NoKey = NoKey
    Ahead <- TwoClocks
    SnapshotEvery = 3
    MaxVersion = 2
    MaxTime = 1
INVARIANT ChainVerifies
CHECK_DEADLOCK FALSE
