---------------------------- MODULE ControlStore ----------------------------
(***************************************************************************)
(* packages/control-store: the index of candidates, attestations and       *)
(* heartbeats, the admitted order, the numbered log of changes, and the    *)
(* coalesced snapshot it is restored from.  Every operation is synchronous *)
(* and is an operator from the store to the set of stores it may leave;    *)
(* an operation that throws leaves the store as it was.  Validator cutoffs *)
(* are the subject of ValidatorCutoff.                                     *)
(***************************************************************************)
EXTENDS TransactionOrder

CONSTANTS
    Txs, Key,                   \* transaction ids and their order keys
    InputStates,                \* candidate states the callers ask for
    Attestations, AttestedTx,   \* attestation ids and the transaction each names
    Validators,                 \* (membership revision, validator) pairs
    FeedSequences, Cutoffs,     \* what a heartbeat may carry
    Heads,                      \* materialized heads: revision and order length
    Checkpoints,                \* checkpoints: prefix length and pinned
    Reopenings,                 \* ids of history reopenings
    MaximumRetainedDeltas,
    None

Terminal == {"invalid_protocol", "unauthorized", "quarantined"}

CandidateState == Terminal \cup {"waiting_for_payload", "pending_validation", "admissible"}

ASSUME ControlStoreAssumption ==
    /\ Key \in [Txs -> OrderKeys]
    /\ \A t, u \in Txs : t # u => Key[t].txId # Key[u].txId
    /\ InputStates \subseteq CandidateState
    /\ AttestedTx \in [Attestations -> Txs]
    /\ FeedSequences \subseteq Nat \ {0}
    /\ Cutoffs \subseteq Nat
    /\ Heads \subseteq [revision : Nat \ {0}, orderLength : Nat]
    /\ Checkpoints \subseteq [prefixLength : Nat, pinned : BOOLEAN]
    /\ MaximumRetainedDeltas \in Nat \ {0}
    /\ None \notin Txs

VARIABLES
    store,          \* the ControlStore object
    disk,           \* the snapshot file
    saveRequested,  \* requestSave() has armed its timer
    incarnation     \* number of times the store was constructed

vars == <<store, disk, saveRequested, incarnation>>

DeltaKind ==
    {"candidate_added", "candidate_state_changed", "attestation_added", "order_append", "order_insert",
     "heartbeat_advanced", "materialized_head_published", "checkpoint_stored", "history_reopened"}

Delta == [sequence : Nat, kind : DeltaKind, txId : Txs \cup {None}, index : Nat]

NoHeartbeat == [sequence |-> 0, cutoff |-> 0, contiguous |-> FALSE]

NoHead == [revision |-> 0, orderLength |-> 0]

Store ==
    [candidates : [Txs -> CandidateState \cup {"absent"}],
     proofs : [Txs -> SUBSET Attestations],
     attestations : SUBSET Attestations,
     orderedTxIds : Seq(Txs),
     sequence : Nat,
     deltaFloor : Nat,
     deltas : Seq(Delta),
     heartbeats : [Validators -> [sequence : Nat, cutoff : Nat, contiguous : BOOLEAN]],
     head : [revision : Nat, orderLength : Nat],
     checkpoints : SUBSET Checkpoints,
     reopenings : SUBSET Reopenings]

EmptyStore ==
    [candidates |-> [t \in Txs |-> "absent"],
     proofs |-> [t \in Txs |-> {}],
     attestations |-> {},
     orderedTxIds |-> << >>,
     sequence |-> 0,
     deltaFloor |-> 0,
     deltas |-> << >>,
     heartbeats |-> [v \in Validators |-> NoHeartbeat],
     head |-> NoHead,
     checkpoints |-> {},
     reopenings |-> {}]

TypeOK ==
    /\ store \in Store
    /\ disk \in Store
    /\ saveRequested \in BOOLEAN
    /\ incarnation \in Nat

---------------------------------------------------------------------------
(* The delta log.                                                          *)

Excess(s) == Len(s.deltas) - MaximumRetainedDeltas

\* mutant: the floor is left behind when deltas are dropped.
TrimWithoutFloor(s) ==
    IF Excess(s) <= 0
    THEN s
    ELSE [s EXCEPT !.deltas = [i \in 1 .. MaximumRetainedDeltas |-> @[i + Excess(s)]]]

TrimDeltas(s) ==
    IF Excess(s) <= 0
    THEN s
    ELSE [s EXCEPT !.deltas = [i \in 1 .. MaximumRetainedDeltas |-> @[i + Excess(s)]],
                   !.deltaFloor = s.deltas[Excess(s)].sequence]

AppendDelta(s, kind, tx, index) ==
    TrimDeltas([s EXCEPT
        !.sequence = @ + 1,
        !.deltas = Append(@, [sequence |-> s.sequence + 1, kind |-> kind, txId |-> tx, index |-> index])])

---------------------------------------------------------------------------
(* Candidates, attestations and the admitted order.                        *)

\* mutant: an admitted candidate is pushed at the end.
InsertOrderAtEnd(s, tx) ==
    {AppendDelta([s EXCEPT !.orderedTxIds = Append(@, tx)], "order_append", tx, Len(s.orderedTxIds))}

\* mutant: the delta reports the entry before the new one.
InsertReportsPrevious(s, tx) ==
    {AppendDelta([s EXCEPT !.orderedTxIds = Spliced(@, low, tx)], "order_insert", tx, low - 1) :
        low \in {l \in 0 .. Len(s.orderedTxIds) : SearchExit(s.orderedTxIds, Key, tx, l)}}

\* #insertOrder: InsertOrder shows that the search stops at a SearchExit.  A
\* duplicate throws before the splice.
InsertOrderedTx(s, tx) ==
    {IF low < Len(s.orderedTxIds) /\ s.orderedTxIds[low + 1] = tx
     THEN s
     ELSE AppendDelta([s EXCEPT !.orderedTxIds = Spliced(@, low, tx)],
                      IF low = Len(s.orderedTxIds) THEN "order_append" ELSE "order_insert", tx, low) :
        low \in {l \in 0 .. Len(s.orderedTxIds) : SearchExit(s.orderedTxIds, Key, tx, l)}}

\* #ingestCandidate, the only caller, passes no proof with a new candidate
\* (node.ts:466), so the proofs of a new one are empty.
PutCandidate(s, tx, state) ==
    IF s.candidates[tx] # "absent"
    THEN {s}
    ELSE LET added == AppendDelta([s EXCEPT !.candidates[tx] = state], "candidate_added", tx, 0)
         IN IF state = "admissible" THEN InsertOrderedTx(added, tx) ELSE {added}

PutAttestation(s, a) ==
    IF a \in s.attestations
    THEN {s}
    ELSE {AppendDelta([s EXCEPT !.attestations = @ \cup {a}], "attestation_added", AttestedTx[a], 0)}

\* mutant: an admitted candidate may be taken back.
TransitionTakesBack(previous, next) ==
    \/ previous = next
    \/ /\ previous \notin Terminal
       /\ previous = "waiting_for_payload" => next = "pending_validation" \/ next \in Terminal
       /\ next # "waiting_for_payload"

\* mutant: a rejected candidate may be taken up again.
TransitionRevives(previous, next) ==
    \/ previous = next
    \/ /\ previous # "admissible"
       /\ previous = "waiting_for_payload" => next = "pending_validation" \/ next \in Terminal
       /\ next # "waiting_for_payload"

\* validateStateTransition does not throw.
ValidStateTransition(previous, next) ==
    \/ previous = next
    \/ /\ previous # "admissible"
       /\ previous \notin Terminal
       /\ previous = "waiting_for_payload" => next = "pending_validation" \/ next \in Terminal
       /\ next # "waiting_for_payload"

\* mutant: a proof may name any stored attestation.
ProofUnchecked(s, tx, proof) == proof \subseteq s.attestations

\* Every proof id is a stored attestation of this transaction.
ValidProof(s, tx, proof) ==
    \A a \in proof : a \in s.attestations /\ AttestedTx[a] = tx

\* Proofs are sets: callers list the ids in the order of attestationsFor.  A
\* reason is only compared: reworded says it differs from the stored one.
SetCandidateState(s, tx, state, proof, reworded) ==
    IF \/ s.candidates[tx] = "absent"
       \/ ~ValidStateTransition(s.candidates[tx], state)
       \/ ~ValidProof(s, tx, proof)
       \/ s.candidates[tx] = state /\ s.proofs[tx] = proof /\ ~reworded
    THEN {s}
    ELSE LET changed == AppendDelta([s EXCEPT !.candidates[tx] = state, !.proofs[tx] = proof],
                                    "candidate_state_changed", tx, 0)
         IN IF s.candidates[tx] # "admissible" /\ state = "admissible"
            THEN InsertOrderedTx(changed, tx)
            ELSE {changed}

\* evaluateAdmission: refused for a terminal or payload-less candidate, a
\* no-op for an admitted one, else what the evaluator makes of it.
EvaluateAdmission(s, tx, state, proof, reworded) ==
    IF s.candidates[tx] # "pending_validation"
    THEN {s}
    ELSE SetCandidateState(s, tx, state, proof, reworded)

---------------------------------------------------------------------------
(* Heartbeats, head, checkpoints, reopenings.                              *)

\* mutant: the feed position of a heartbeat is not looked at.
RecordHeartbeatAnyOrder(s, v, hb) ==
    IF hb = s.heartbeats[v]
    THEN {s}
    ELSE {AppendDelta([s EXCEPT !.heartbeats[v] = hb], "heartbeat_advanced", None, 0)}

\* An older heartbeat is superseded; a lower cutoff or a different heartbeat
\* at the same feed position is a conflict.
RecordHeartbeat(s, v, hb) ==
    LET previous == s.heartbeats[v]
    IN IF \/ hb.sequence <= previous.sequence
          \/ hb.cutoff < previous.cutoff
       THEN {s}
       ELSE {AppendDelta([s EXCEPT !.heartbeats[v] = hb], "heartbeat_advanced", None, 0)}

\* mutant: the head is not compared with the order.
PublishHeadUnchecked(s, head) ==
    IF head.revision <= s.head.revision
    THEN {s}
    ELSE {AppendDelta([s EXCEPT !.head = head], "materialized_head_published", None, 0)}

PublishMaterializedHead(s, head) ==
    IF \/ head.revision <= s.head.revision
       \/ head.orderLength > Len(s.orderedTxIds)
    THEN {s}
    ELSE {AppendDelta([s EXCEPT !.head = head], "materialized_head_published", None, 0)}

PutCheckpoint(s, checkpoint) ==
    LET previous == {c \in s.checkpoints : c.prefixLength = checkpoint.prefixLength}
    IN IF \/ checkpoint.prefixLength > Len(s.orderedTxIds)
          \/ checkpoint \in previous
          \/ \E c \in previous : c.pinned /\ ~checkpoint.pinned
       THEN {s}
       ELSE {AppendDelta([s EXCEPT !.checkpoints = (@ \ previous) \cup {checkpoint}],
                         "checkpoint_stored", None, 0)}

RecordHistoryReopening(s, id) ==
    IF id \in s.reopenings
    THEN {s}
    ELSE {AppendDelta([s EXCEPT !.reopenings = @ \cup {id}], "history_reopened", None, 0)}

---------------------------------------------------------------------------
(* Snapshots.                                                              *)

\* #verifyRestoredOrder accepts s.
VerifyRestoredOrder(s) ==
    /\ s.deltas # << >> =>
         /\ s.deltas[Len(s.deltas)].sequence = s.sequence
         /\ s.deltas[1].sequence = s.deltaFloor + 1
    /\ s.deltas = << >> => s.deltaFloor = s.sequence
    /\ \A i \in 2 .. Len(s.deltas) : s.deltas[i].sequence > s.deltas[i - 1].sequence
    /\ \A i \in DOMAIN s.orderedTxIds : s.candidates[s.orderedTxIds[i]] = "admissible"
    /\ \A i, j \in DOMAIN s.orderedTxIds : s.orderedTxIds[i] = s.orderedTxIds[j] => i = j
    /\ \A i \in 2 .. Len(s.orderedTxIds) :
         Precedes(Key[s.orderedTxIds[i - 1]], Key[s.orderedTxIds[i]])

\* #restore, and #reset when the snapshot does not verify.
Restore(loaded) ==
    LET s == TrimDeltas(loaded) IN IF VerifyRestoredOrder(s) THEN s ELSE EmptyStore

---------------------------------------------------------------------------

Init ==
    /\ store = EmptyStore
    /\ disk = EmptyStore
    /\ saveRequested = FALSE
    /\ incarnation = 0

\* #persist follows every change, and only a change.
Operation(outcomes) ==
    /\ store' \in outcomes
    /\ saveRequested' = (saveRequested \/ store' # store)
    /\ UNCHANGED <<disk, incarnation>>

DoPutCandidate == \E tx \in Txs, state \in InputStates : Operation(PutCandidate(store, tx, state))

DoPutAttestation == \E a \in Attestations : Operation(PutAttestation(store, a))

DoSetCandidateState ==
    \E tx \in Txs, state \in InputStates, proof \in SUBSET Attestations, reworded \in BOOLEAN :
        Operation(SetCandidateState(store, tx, state, proof, reworded))

DoEvaluateAdmission ==
    \E tx \in Txs, state \in {"pending_validation", "admissible"},
       proof \in SUBSET Attestations, reworded \in BOOLEAN :
        Operation(EvaluateAdmission(store, tx, state, proof, reworded))

DoRecordHeartbeat ==
    \E v \in Validators, n \in FeedSequences, c \in Cutoffs, contiguous \in BOOLEAN :
        Operation(RecordHeartbeat(store, v, [sequence |-> n, cutoff |-> c, contiguous |-> contiguous]))

DoPublishMaterializedHead == \E head \in Heads : Operation(PublishMaterializedHead(store, head))

DoPutCheckpoint == \E checkpoint \in Checkpoints : Operation(PutCheckpoint(store, checkpoint))

DoRecordHistoryReopening == \E id \in Reopenings : Operation(RecordHistoryReopening(store, id))

\* The timer of requestSave, or flush() at a graceful stop.
Flush ==
    /\ saveRequested
    /\ disk' = store
    /\ saveRequested' = FALSE
    /\ UNCHANGED <<store, incarnation>>

\* A crash, and the constructor of the next process.  A snapshot that does
\* not parse is quarantined and the index is rebuilt from nothing.
Restart ==
    /\ \/ /\ store' = Restore(disk)
          /\ UNCHANGED disk
       \/ /\ store' = EmptyStore
          /\ disk' = EmptyStore
    /\ saveRequested' = FALSE
    /\ incarnation' = incarnation + 1

Next ==
    \/ DoPutCandidate
    \/ DoPutAttestation
    \/ DoSetCandidateState
    \/ DoEvaluateAdmission
    \/ DoRecordHeartbeat
    \/ DoPublishMaterializedHead
    \/ DoPutCheckpoint
    \/ DoRecordHistoryReopening
    \/ Flush
    \/ Restart

Spec == Init /\ [][Next]_vars

---------------------------------------------------------------------------
(* Properties *)

\* The order the materializer replays is strictly ascending in
\* compareTransactionOrder, whatever order the admissions came in.
OrderIsSorted == StrictlySorted(store.orderedTxIds, Key)

\* The order holds exactly the admitted candidates: #insertOrder runs for
\* every admission, by whichever operation, and never twice.
OrderIsExactlyAdmitted ==
    \A tx \in Txs : (\E i \in DOMAIN store.orderedTxIds : store.orderedTxIds[i] = tx)
                       <=> store.candidates[tx] = "admissible"

\* Every proof kept with a candidate names stored attestations of that very
\* transaction, also after a restore.
ProofsAreStored ==
    \A tx \in Txs : \A a \in store.proofs[tx] : a \in store.attestations /\ AttestedTx[a] = tx

\* #verifyRestoredOrder accepts every snapshot this store ever wrote: a
\* restart never throws the index away because of the store's own bookkeeping.
OwnSnapshotsVerify == VerifyRestoredOrder(TrimDeltas(disk))

\* A published head or a checkpoint never claims more transactions than the
\* order holds.
HeadBehindOrder ==
    /\ store.head.orderLength <= Len(store.orderedTxIds)
    /\ \A c \in store.checkpoints : c.prefixLength <= Len(store.orderedTxIds)

\* Within one process admission is final, and so is rejection.
AdmissionIsFinal ==
    [][incarnation' = incarnation =>
         \A tx \in Txs : store.candidates[tx] \in Terminal \cup {"admissible"} =>
             store'.candidates[tx] = store.candidates[tx]]_vars

\* Within one process a validator's heartbeat only moves forward on its feed,
\* and its cutoff never falls.
HeartbeatsAdvance ==
    [][incarnation' = incarnation =>
         \A v \in Validators :
             /\ store'.heartbeats[v].sequence >= store.heartbeats[v].sequence
             /\ store'.heartbeats[v].cutoff >= store.heartbeats[v].cutoff]_vars
=============================================================================
