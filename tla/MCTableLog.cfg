SPECIFICATION Spec
CONSTANTS
    h1 = h1
    Handlers = {h1, h2}
    Keys = {k1, k2, k3}
    NoKey = NoKey
    Ahead <- OneClock
    SnapshotEvery = 2
    MaxVersion = 3
    MaxTime = 2
SYMMETRY Symmetry
INVARIANTS
    ChainVerifies
PROPERTY Linearizable
CHECK_DEADLOCK FALSE
