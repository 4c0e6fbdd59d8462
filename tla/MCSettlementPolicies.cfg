SPECIFICATION Spec
CONSTANTS
    v1 = v1
    v2 = v2
    v3 = v3
    t1 = t1
    Validators = {v1, v2, v3}
    Policies <- AllKinds
    Txs = {}
    Timestamp <- MCTimestamp
    Cutoffs = {0, 1, 2}
    None = None
    MaxFeed = 1
CONSTRAINT Telling
ACTION_CONSTRAINT SavedOnce
INVARIANT WatermarkIsHighestBlocked
