---------------------------- MODULE DeltaReader ----------------------------
(***************************************************************************)
(* A reader in the same process that follows the admitted order through    *)
(* changesSince: it applies the order deltas to a copy, and starts over    *)
(* from a snapshot when its position has fallen below the delta floor.     *)
(***************************************************************************)
EXTENDS ControlStore, SequencesExt

VARIABLE reader     \* last sequence read, and the copy of the order

readerVars == <<vars, reader>>

ChangesSince(s, sequence) == SelectSeq(s.deltas, LAMBDA d : d.sequence > sequence)

\* An order delta is the splice it reports.
Apply(order, d) ==
    IF d.kind \in {"order_append", "order_insert"} THEN Spliced(order, d.index, d.txId) ELSE order

Caught(s) == [sequence |-> s.sequence, order |-> s.orderedTxIds]

\* mutant: a reader below the floor gets what deltas there are.
ReadUnrefused ==
    /\ reader' = [sequence |-> store.sequence,
                  order |-> FoldLeft(Apply, reader.order, ChangesSince(store, reader.sequence))]
    /\ UNCHANGED vars

\* changesSince throws CONTROL_STORE_DELTA_HISTORY_RESET below the floor.
Read ==
    /\ reader' = IF reader.sequence < store.deltaFloor
                 THEN Caught(store)
                 ELSE [sequence |-> store.sequence,
                       order |-> FoldLeft(Apply, reader.order, ChangesSince(store, reader.sequence))]
    /\ UNCHANGED vars

ReaderInit == Init /\ reader = Caught(store)

ReaderNext ==
    \/ Next /\ reader' = IF incarnation' = incarnation THEN reader ELSE Caught(store')
    \/ Read

ReaderSpec == ReaderInit /\ [][ReaderNext]_readerVars

\* However admissions, trims and reads interleave, a reader that is not
\* refused by changesSince can rebuild the order from its copy and the deltas.
ReaderCanRebuild ==
    reader.sequence >= store.deltaFloor =>
        FoldLeft(Apply, reader.order, ChangesSince(store, reader.sequence)) = store.orderedTxIds
=============================================================================
