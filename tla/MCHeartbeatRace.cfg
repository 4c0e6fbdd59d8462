SPECIFICATION Spec
CONSTANTS
    t1 = t1
    None = None
    HeartbeatTasks = {h1}
    Txs <- MCTxs
    Timestamp <- MCTimestamp
    Clock <- MCClock
    CutoffLag = 1
    MaxFutureSkew = 1
    InitialAcceptedAbove = 0
    MaxFeed = 2
CONSTRAINT FeedBound
INVARIANT NoAttestationAfterCoveringHeartbeat
