# A TLA+ verification of Chronolog DB

Chronolog is a permissioned, decentralised SQL database. Authors sign
transactions onto append-only feeds. Validators attest them. Every replica
orders the admitted ones by `(authorTimestampMs, authorId, authorFeedSequence,
txId)` and executes them in that order. A late predecessor makes a replica
replay a suffix of its history. Validators' heartbeats announce acceptance
cutoffs, from which a replica computes a watermark below which history is settled.

The modules here model the part of that pipeline on which agreement between
replicas rests: the validator's cutoff promise, the transaction order, the
control store, watermarks and settlement, and the node's ingestion and retry.
TLC checks them on small instances; TLAPS proves the safety properties for
every value of the constants.

Paths below are relative to `src/`. `node.ts` is
`packages/node-core/src/node.ts`, and `control-store.ts` is
`packages/control-store/src/control-store.ts`.

## 1. Inventory

| Part | State | Operations | Hard behaviours | What must be true |
|---|---|---|---|---|
| Validator (`node.ts`, `control-store/persistence.ts`) | cutoff in memory, cutoff journal, control snapshot, own feed | `publishHeartbeat`, `#maybeAttest`, `persistValidatorCutoff`, `#recoverValidatorCutoff` | awaits between reading the cutoff and appending; overlapping heartbeats; crash between journal and append; clock rollback | an announced cutoff is never forgotten; nothing is attested at or below it |
| Transaction order (`packages/protocol/src/messages.ts`) | none | `compareTransactionOrder`, `#insertOrder` | ties at each part of the key; boundaries of the binary search | a strict total order; insertion keeps it |
| Control store (`control-store.ts`) | candidates, proofs, attestations, order, numbered deltas, heartbeats, head, checkpoints, snapshot file | `putCandidate`, `putAttestation`, `setCandidateState`, `evaluateAdmission`, `recordHeartbeat`, `publishMaterializedHead`, `putCheckpoint`, `recordHistoryReopening`, save, restore | coalesced saves lost in a crash; trimmed deltas; operations refused half way | the order is exactly the admitted set, sorted; every written file restores |
| Watermark and settlement (`control-store.ts`, `node.ts`) | one heartbeat per validator and revision | `watermark`, `settlementEvidence` | records ingested out of order or retried; gaps; replay after a crash; governance that arrives late | a proven transaction below the watermark is hidden only in known ways; settled history stays settled |
| Node ingestion (`node.ts`) | seen records, retry set, overflow mark, timers, candidate cores, pending reconciliation | `ingest`, `#consume`, `#drainHistory`, the retry pass, `#reconcileMaterializer`, `start` | transient and terminal errors; full retry set; overlapping passes; restart from an old snapshot | no record is forgotten; admission depends on records only; admitted transactions become visible |
| Materializer | checkpoints, state at each revision, published head | suffix replay, checkpointing, recovery | crash at every fault point; predecessor older than all checkpoints | state equals a replay from genesis |
| Feed fork registry | fork evidence per author | quarantine, re-evaluation | evidence that arrives after admission | every replica quarantines the same suffix |
| Governance, capabilities, policy, recovery | revision log, roles, epoch keys | publish, reduce, enrol, revoke, recover | concurrent revisions; a revision read before an await | one accepted log on every replica |
| Transport | feeds, subscriptions with bounded queues, storage claim | publish, subscribe, catch up, recover an author's tail | queue overflow; catch-up racing live records | a subscriber sees every record or is told that it did not |
| Blob replication | blobs, requests | offload, fetch, serve | failed and partial fetches | failures are retryable; bytes are verified |
| Snapshots | snapshot directories | create, restore | crash during restore | a restore is all or nothing |
| Worker runtime | published revision pointer | compare-and-swap publication | ambiguous outcomes | one winner per revision |
| Client streams and RPC | resources, revisions | open, resume, retry | reconnect in the middle of a revision | a client's revisions never go back |
| Concurrency helpers | queues, waiters | `Mutex`, `Subscription`, `RevisionBroadcaster`, `IdempotencyMap` | abort while waiting; close with waiters | nobody waits for ever |
| Daemon | data lock, processes | acquire, take over, start, stop | stale-lock takeover | one owner of a data directory |
| Encodings, cryptography, SQL compiler, kernels, tooling | none | pure functions | | |

**Interactions.** The transport delivers records to the node. The node stores
candidates and attestations in the control store, which admits them and keeps
the order. The node hands that order to the materializer and, on a validator,
publishes attestations and heartbeats back to the transport. Governance reads
the same transport through a subscription of its own, and the node asks it
which validators a membership revision has. Settlement reads the control
store's heartbeats and the transport's view of feed contiguity.

`PROJECT.json` lists each of these parts, with its sources, and the hazards of
the code at the lines where they bite.

## 2. Modules

| Module | Models | Extends |
|---|---|---|
| `ValidatorCutoff` | one validator's signing state | |
| `TransactionOrder` | `compareTransactionOrder`, sorted sequences, the splice | |
| `InsertOrder` | `#insertOrder`, one loop iteration per step | `TransactionOrder` |
| `ControlStore` | the store, its file, its restore | `TransactionOrder` |
| `DeltaReader` | a client of `changesSince`, composed with the store | `ControlStore` |
| `Watermark` | `ControlStore.watermark`, as operators | |
| `Settlement` | several validators and one replica | `Watermark` |
| `Node` | ingestion, retry, admission, reconciliation | |

`MC…` modules give the constants values for TLC; `…Proofs` modules hold the theorems.

Three abstractions join the modules. `ControlStore` takes the position of an
insertion from `SearchExit`, which `InsertOrder` shows to be what the search
ends with. `Settlement` takes a validator to be what `ValidatorCutoff` shows:
its cutoff never falls, and its attestation is captured and appended in two
steps. `Watermark` is compared with `Blocked`, a definition of the watermark that
mentions neither the sort nor the index arithmetic of the code.

### ValidatorCutoff

`acceptedAbove` is `#acceptedAboveMs`; `control` is the validator's part of the
control store in memory, `disk` its last snapshot, `journal` the crash-safe
cutoff file, `feed` the validator's own feed. `hb` and `attest` are the calls in
flight. Handlers are split exactly at their awaits:

- `HeartbeatBegin`, `HeartbeatAdvance`, `HeartbeatAppend`, `HeartbeatAbandon`:
  `publishHeartbeat`. It does not take the node's mutex, and its interval does
  not wait for the previous call, so several run at once.
- `AttestCheck`, `AttestDecline`, `AttestCapture`, `AttestAppend`,
  `AttestThrow`: the candidate path of `ingest` through `#maybeAttest`, under the mutex.
- `IngestOwn`, `IngestOwnUndecodable`: own records that come back.
- `StartAny`: both constructors and `start()`, from the last snapshot or from
  nothing, with any part of the own feed undecodable. `Crash`, `Flush`.

A clock reading is any member of `Clock`, in any order. A journal write that
throws may or may not have replaced the file. `decidedAt`, the feed length when
an attestation read the cutoff, is a history field; no guard reads it.

### TransactionOrder and InsertOrder

Byte strings are natural numbers, as `compareBytes` orders them totally.
`InsertOrder` runs the loop of `#insertOrder`, with `low`, `high` and `middle`
zero-based as in the code, and then the splice.

### ControlStore and DeltaReader

Each operation is an operator from a store to the set of stores it may leave;
one that throws leaves the store as it was. An action applies the operator and
requests a save when something changed. `Flush` is the coalesced save; `Restart`
is a crash followed by `#restore`, or by `#reset` when the file does not
parse or does not verify. `DeltaReader` adds a consumer that applies order
deltas to a copy and takes a snapshot when `changesSince` refuses it. The
production code has no such consumer yet; the module states what the interface
lets one rely on.

### Watermark and Settlement

`ThresholdWatermark` is `available[selectedIndex]` of the sorted cutoffs,
written without the sort; a missing or non-contiguous heartbeat counts as the
lowest. `AlternativesWatermark` is the lowest of the proofs' best cutoffs. Null
is the empty set. A policy is a parameter, so one run asks for several.

In `Settlement`, `AttestCapture`, `AttestAppend`, `AttestLost` and
`PublishHeartbeat` are the validators; as in the code, a heartbeat does not wait
for an attestation in flight. On the replica, `held` is what its transport has of
each feed and `seen` what `ingest` has dealt with:

- `Receive`: a record reaches the transport, possibly before an earlier one.
- `Ingest`: any held record that is not seen, in any order, so also one that
  was overtaken while it waited for a retry, and a validator's own heartbeat, which
  `publishHeartbeat` ingests itself. `IngestFails` is a failure after the
  attestation was stored; one before that leaves the record as it was.
- `IngestRefuses`: the membership revision is not known yet, a terminal error.
  `LearnRevision` is the governance subscription.
- `Store` asks the transport, not the node, whether the feed is contiguous
  (`IsFeedContiguous`), and gets an answer that may lag.
- `Save` and `Restart`: the snapshot, and a crash after which the whole
  history is ingested again.
- `Settle` is `settlementEvidence`: `closed` holds what was at or below the
  watermark without a reference.

`decidedAt` and `decided` are history fields: the feed's length at the capture,
and who had decided when the evidence was given. No guard reads them.

### Node

`log` is the transport's history, `unread` what the subscription still has to
deliver, `drain` the pass of `start()` over the history, `node` the fields of
`ChronologNode` and its store, `passes` the running retry passes, `saved` the
store's last snapshot, `materialized` the published set. `Ingest` has one disjunct
per outcome of `ingest`: already seen; an envelope that does not decode (retried
for ever, because that error is not terminal); another message type, which is
seen and, when it had failed before, keeps its place in the retry set
(`Skip`, `node.ts:266`); invalid, which is terminal; accepted; a transient error after any part of the work; a failed fetch of an
offloaded payload, which the code makes terminal. `RetryFire` to `RescanDone` is
the retry pass, split where it awaits. `Reconcile` is `#reconcileMaterializer`
with its caller's catch. `refused` is a history field, the records that ended in
a terminal error.

## 3. What the runs check

| Run | Config | Distinct states | Shows |
|---|---|---|---|
| `cutoff_durability` | `MCValidatorCutoff` | 226 k | no crash, failed write, clock rollback or lost snapshot makes a validator forget an announced cutoff or decide an attestation below it |
| `insert_search` | `MCInsertOrder` | 722 | the search of `#insertOrder` ends, at the one position that keeps the order ascending |
| `control_store` | `MCControlStore` | 80 k | the order stays sorted and exact, proofs stay stored, admission stays final and every written file restores |
| `delta_reader` | `MCDeltaReader` | 195 k | a reader can rebuild the order or is refused; heads and checkpoints stay behind the order; heartbeats only advance |
| `settlement` | `MCSettlement` | 249 k | with a 2-of-3 policy a proven transaction below the watermark is referenced, or waits for a retry, was refused, or was overtaken by a heartbeat, and nothing else hides it; closed history is never proven by later decisions alone |
| `watermark_policies` | `MCSettlementPolicies` | 20 k | for thresholds of one, two, all and more than all validators and two sets of alternative proofs, the watermark is the highest cutoff that blocks every proof |
| `node_retry` | `MCNode` | 459 k | no record is lost and waiting work always has a timer or a pass, with a retry set of one and two overlapping passes |
| `node_visibility` | `MCNodeVisible` | 456 k | admission depends on the stored records only; a stale view is always due; what is admissible becomes visible unless a record of it was refused or every place of the retry set is held for good |
| `attestation_heartbeat_race`, `heartbeat_overlap`, `settlement_governance_lag`, `blob_fetch_terminal` | see section 6 | | the code and its documentation disagree |

**Bounds.**

- `cutoff_durability`: one candidate with timestamp 2, clock readings 0, 2 and 3
  with a lag of 1, two overlapping heartbeats, two feed records. Cutoffs fall
  below, at and above the timestamp; two records are what any property compares.
- `insert_search`: six keys, of which each part of the key decides some pair,
  and every sorted order of up to five entries: all positions and both parities.
- `control_store`: two transactions whose order of admission can contradict
  their order, an attestation for each, a delta log of two, five changes, one restart.
  Insertions between two entries are left to `insert_search` and to the proof.
  `delta_reader`: the same with heads, checkpoints, reopenings and heartbeats
  instead of attestations, and four changes; two retained deltas make trimming start
  at the third change.
- `settlement`: three validators, threshold 2, one transaction with timestamp
  1, cutoffs 0 and 1, two records per feed: the attestation and the heartbeat that
  covers it, in either order, received and ingested in either order. Heartbeats that
  announce cutoff 0 are left out (`Telling`); such a heartbeat covers no
  transaction. Every crash loses the control file (`NothingSaved`), the case in
  which most has to be read again. `watermark_policies`: six policies, cutoffs 0 to 2,
  one heartbeat per feed, at most one snapshot (`SavedOnce`), no transaction: the
  watermark is a function of the heartbeats.
- `node_retry`: a candidate, two attestations, an invalid record, threshold 2,
  capacity 1, two passes, three failures: enough to fill the set, overflow it
  during a rescan and fail again. `node_visibility`: an offloaded candidate,
  an attestation, capacity 1, two failures, one restart from any earlier
  snapshot, and either an undecodable record or one of another message type
  (`OneHolds`): each of them can take the only retry slot and keep it.

Symmetry is used over heartbeat tasks, validators (threshold policy only) and
retry passes, in runs without liveness properties. Deadlock is checked except in
`insert_search`, where the call returns.

**Fairness.** `InsertReturns` assumes that a synchronous call runs to its end.
`EventuallyVisible` assumes weak fairness of the subscription loop, the history
drain, each armed timer and each step of a running pass: the event loop runs every
timer and every continuation that is due. Nothing is assumed of saves, of new
records or of restarts. Failures are finite in number, which is what "transient" means.
The property names its two exceptions: a record refused by a terminal error,
and a retry set whose every place is held for good (`Clogged`), by undecodable
records or by records of another message type that failed once. Without the
second one TLC finds a counterexample; a restart ends that state.

## 4. What is proved

TLAPS checks these for every value of the constants that satisfies the named
assumptions, with any number of transactions, validators, records and
concurrent calls.

- **`ValidatorCutoffProofs`** (assumes `ConstantsAssumption`):
  `TypeOK`, `AnnouncedCutoffIsDurable`, `CutoffCoversAnnounced`,
  `NoAttestationDecidedBelowCutoff`, `NoCutoffRegression` and
  `CutoffNeverRetreats`. None is inductive alone. A heartbeat is appended long after
  its cutoff was journalled, so `IInv` adds that what is being encoded is already
  persisted (`InFlightIsPersisted`), that the store is never ahead of the journal or of
  the running cutoff (`StoreBehindJournal`), that nothing is in flight while
  the process is down, and that the captured attestation respects the heartbeats
  present at its decision (`InFlightDecision`).
- **`TransactionOrderProofs`**: `compareTransactionOrder` is a strict total
  order on keys with distinct transaction ids, and a splice at a `SearchExit`
  keeps a sequence sorted.
- **`InsertOrderProofs`** (`KeyAssumption`): `SearchIsExact`, `InsertKeepsOrder`.
  The strengthening is the loop invariant: what precedes `low` precedes the
  candidate, and what is at or after `high` does not.
- **`ControlStoreProofs`** (`ControlStoreAssumption`): `TypeOK`, `OrderIsSorted`,
  `OrderIsExactlyAdmitted`, `ProofsAreStored`, `OwnSnapshotsVerify`,
  `HeadBehindOrder`, `AdmissionIsFinal`, `HeartbeatsAdvance`. `IInv` says all of it of
  the object and of the file, since a restart makes the file the object. That
  a file verifies needs one fact more: the retained deltas are numbered without
  a gap from the floor.
- **`SettlementProofs`** (`WatermarkAssumption` and `SettlementAssumption`, the
  types of the constants and the finiteness of `Validators`):
  `WatermarkIsHighestBlocked` for both kinds of policy, `ExposedBelowWatermark`,
  `ClosedHistoryStaysClosed`. The argument: a watermark blocks every proof, by
  counting the validators that are missing or lower (`WatermarkExact`). So every
  proof contains a validator with a stored contiguous heartbeat that covers the
  timestamp. For that validator `IInv` says: the stored heartbeat is a record of
  its feed, and the transport held everything before it (`Grounded`); a held record
  waits, was refused, or has left its reference (`Dealt`); and an attestation after
  the heartbeat was captured before it (`Decided`, `FlightDecided`), which makes it
  overtaken. What evidence closed stays closed because the validator's cutoff is not
  below its heartbeat (`CutoffHeld`), so it decides nothing new there (`ClosedBarred`).
  `Grounded` is said of the snapshot too, since a restart makes it the store.
- **`NodeProofs`** (`NodeAssumption`): `TypeOK`, `NothingForgotten`,
  `RetryStaysArmed`, `StaleViewIsPending`. Their conjunction is inductive. A pass that
  ends must leave either nothing or a timer, and a rescan that clears the overflow
  mark must itself cover the records the mark stood for; the two facts carry each other.

## 5. Only model-checked

- Liveness: `InsertReturns`, `EventuallyVisible`. The prover has no fairness and no `ENABLED`.
- `ReaderCanRebuild`: a fold over the deltas, which needs induction over data.
- `AdmissionIsAFunctionOfRecords`: in reach of the prover, not proved yet.

## 6. Where the code and its documents disagree

1. `attestation_heartbeat_race`. `#maybeAttest` reads the cutoff, then awaits
   encoding and publishing; `publishHeartbeat` does not take the mutex. A heartbeat
   can land in between, so an attestation follows a heartbeat that covers
   it. `docs/design.md:581` says that the validator "will never later attest" such
   a transaction. What does hold, and is proved, is
   `NoAttestationDecidedBelowCutoff`: the decision precedes the heartbeat. What it
   means for a replica is the exception `Overtaken` of `ExposedBelowWatermark`.
2. `heartbeat_overlap`. Two heartbeats in flight can be appended in the opposite
   order of their cutoffs. `docs/design.md:158` says that validators "never lower a
   published cutoff". The cutoff itself never falls (`CutoffNeverRetreats`, proved).
3. `settlement_governance_lag`. An attestation that is ingested before its
   membership revision is refused for good, while contiguity is asked of the
   transport; the feed's next heartbeat counts, and the watermark passes a
   transaction the replica has no reference to, with every record of every feed
   ingested. `docs/design.md:606` says that the synchronized feeds expose
   "at least one reference".
4. `blob_fetch_terminal`. `#decodeRecord` turns a failed fetch of an offloaded
   payload into a terminal error. `docs/blob-replication.md:30` says that
   "network or integrity failures are retryable ingest errors".

## 7. Not modelled

- Byte-level encodings, signatures, hashes and encryption: a record is valid,
  invalid or undecodable.
- Feed forks: `ingest`'s quarantine outcomes and the fork registry. A quarantined
  record that waits in the retry set (`node.ts:259`) is outside `Node`.
- `publish`, `observe`, `close` and `waitForIdle` of the node.
- Several membership revisions at once: a heartbeat counts only for its own
  revision, so `Settlement` has one. The history reopenings that
  `settlementEvidence` lists beside its answer.
- Proof ids passed with a new candidate: `putCandidate` accepts them unchecked, and its
  only caller passes none (`node.ts:466`). Reasons of a state are compared, not kept.
- The inside of reconciliation: one step in `Node`, which either publishes the
  admitted set or fails.
- Delivery order: `Node` takes records in any order, more than any transport gives.
- The SQL compiler, kernels, command line and presentation.

## 8. Plan

In order of weight:

1. `FeedForks`: fork evidence, quarantine and re-evaluation, with the fork
   outcomes of `ingest` added to `Node`. The question is whether two replicas that have
   the same records quarantine the same suffix. To prove: quarantine depends on
   the evidence only.
2. `Materializer`: checkpoints, suffix replay and publication with a crash at
   every fault point, refining an abstract specification in which the published
   state is the fold of the admitted order. To prove: a reused checkpoint is the
   prefix state.
3. `Governance`: the revision log and its reducer, validation policies, recovery, and
   the two subscriptions that race.
4. `Transport`: subscriptions with bounded queues, catch-up and live
   records, author-tail recovery, the storage claim.
5. `Publication`: compare-and-swap with ambiguous outcomes; `StreamResource`:
   client resources over reconnects; `Concurrency`: mutex, subscription and
   idempotency helpers.
6. `DataLock`, `Snapshots` and blob replication.
7. Proofs: `AdmissionIsAFunctionOfRecords`, the materializer's refinement, fork
   quarantine and the publication's single winner. Runs that ask related
   questions are merged as modules are added.
