SPECIFICATION Spec
CONSTANTS
    v1 = v1
    v2 = v2
    v3 = v3
    t1 = t1
    Validators = {v1, v2, v3}
    Policies <- TwoOfThree
    Txs = {t1}
    Timestamp <- MCTimestamp
    Cutoffs = {0, 1}
    None = None
    MaxFeed = 2
CONSTRAINT Telling
ACTION_CONSTRAINT NothingSaved
SYMMETRY Symmetry
INVARIANT SynchronizedFeedsExpose
