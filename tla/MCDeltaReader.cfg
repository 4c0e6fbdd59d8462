SPECIFICATION ReaderSpec
CONSTANTS
    t1 = t1
    t2 = t2
    t3 = t3
    Txs = {t1, t2}
    InputStates = {"pending_validation", "admissible"}
    Key <- MCKey
    Attestations = {}
    AttestedTx <- MCAttestedTx
    Validators = {v1}
    FeedSequences = {1, 2}
    Cutoffs = {1, 2}
    Heads <- MCHeads
    Checkpoints <- MCCheckpoints
    Reopenings = {r1}
    MaximumRetainedDeltas = 2
    None = None
    MaxSequence = 4
    MaxIncarnation = 1
CONSTRAINT Bounded
INVARIANTS ReaderCanRebuild HeadBehindOrder
PROPERTY HeartbeatsAdvance
