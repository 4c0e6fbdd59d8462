SPECIFICATION Spec
CONSTANTS
    t1 = t1
    t2 = t2
    t3 = t3
    a1 = a1
    a2 = a2
    Txs = {t1, t2}
    InputStates = {"waiting_for_payload", "pending_validation", "admissible", "unauthorized"}
    Key <- MCKey
    Attestations = {a1, a2}
    AttestedTx <- MCAttestedTx
    Validators = {}
    FeedSequences = {}
    Cutoffs = {}
    Heads = {}
    Checkpoints = {}
    Reopenings = {}
    MaximumRetainedDeltas = 2
    None = None
    MaxSequence = 5
    MaxIncarnation = 1
CONSTRAINT Bounded
INVARIANTS TypeOK OrderIsSorted OrderIsExactlyAdmitted ProofsAreStored OwnSnapshotsVerify
PROPERTY AdmissionIsFinal
