--------------------------- MODULE MCControlStore ---------------------------
EXTENDS ControlStore, TLC

CONSTANTS t1, t2, t3, a1, a2, MaxSequence, MaxIncarnation

Keys ==
    t1 :> [authorTimestampMs |-> 2, authorId |-> 1, authorFeedSequence |-> 1, txId |-> 2]
    @@ t2 :> [authorTimestampMs |-> 1, authorId |-> 2, authorFeedSequence |-> 4, txId |-> 1]
    @@ t3 :> [authorTimestampMs |-> 2, authorId |-> 1, authorFeedSequence |-> 1, txId |-> 3]

MCKey == [t \in Txs |-> Keys[t]]

MCAttestedTx == [a \in Attestations |-> IF a = a1 THEN t1 ELSE t2]

MCHeads == [revision : 1 .. 2, orderLength : 0 .. 2]

MCCheckpoints == [prefixLength : 1 .. 2, pinned : BOOLEAN]

Bounded == store.sequence <= MaxSequence /\ incarnation <= MaxIncarnation
=============================================================================
