--------------------------- MODULE MCDeltaReader ---------------------------
EXTENDS DeltaReader

CONSTANTS t1, t2, t3, MaxSequence, MaxIncarnation

Keys ==
    t1 :> [authorTimestampMs |-> 2, authorId |-> 1, authorFeedSequence |-> 1, txId |-> 2]
    @@ t2 :> [authorTimestampMs |-> 1, authorId |-> 2, authorFeedSequence |-> 4, txId |-> 1]
    @@ t3 :> [authorTimestampMs |-> 2, authorId |-> 1, authorFeedSequence |-> 1, txId |-> 3]

MCKey == [t \in Txs |-> Keys[t]]

MCAttestedTx == << >>

MCHeads == [revision : 1 .. 2, orderLength : 0 .. 2]

MCCheckpoints == [prefixLength : 1 .. 2, pinned : {FALSE}]

Bounded == store.sequence <= MaxSequence /\ incarnation <= MaxIncarnation
=============================================================================
