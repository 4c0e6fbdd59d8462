--------------------------- MODULE MCInsertOrder ---------------------------
EXTENDS InsertOrder

CONSTANT MaxLength   \* longest order searched

MCIds == 1 .. 6

\* Every component of the key decides some pair.
MCKey == [id \in MCIds |->
    CASE id = 1 -> [authorTimestampMs |-> 1, authorId |-> 2, authorFeedSequence |-> 1, txId |-> 4]
      [] id = 2 -> [authorTimestampMs |-> 2, authorId |-> 1, authorFeedSequence |-> 3, txId |-> 2]
      [] id = 3 -> [authorTimestampMs |-> 2, authorId |-> 2, authorFeedSequence |-> 2, txId |-> 1]
      [] id = 4 -> [authorTimestampMs |-> 2, authorId |-> 2, authorFeedSequence |-> 2, txId |-> 3]
      [] id = 5 -> [authorTimestampMs |-> 2, authorId |-> 2, authorFeedSequence |-> 5, txId |-> 0]
      [] OTHER  -> [authorTimestampMs |-> 3, authorId |-> 0, authorFeedSequence |-> 1, txId |-> 5]]

Orders == UNION {[1 .. n -> MCIds] : n \in 0 .. MaxLength}

MCInit == \E order \in Orders, id \in MCIds : Entered(order, id)
MCSpec == MCInit /\ [][Next]_vars /\ WF_vars(Next)
=============================================================================
