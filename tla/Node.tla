-------------------------------- MODULE Node --------------------------------
(***************************************************************************)
(* ChronologNode: records that arrive in any order, some of them failing   *)
(* for a while, become stored candidates and attestations, admitted        *)
(* transactions and, through the materializer, visible state.  Failed      *)
(* records wait in a bounded retry set; when it is full the node goes back *)
(* to the transport's history.                                             *)
(*                                                                         *)
(* ingest runs under the node's mutex and is one step.  Between two of its *)
(* calls everything else may run, a second retry pass included.            *)
(***************************************************************************)
EXTENDS Naturals, FiniteSets

CONSTANTS
    Records, Txs,
    Kind, Tx,       \* of a record: candidate or attestation, and for which
    Invalid,        \* records that no replica accepts
    Undecodable,    \* records without a readable envelope
    Unhandled,      \* records of other message types, such as governance
    Offloaded,      \* records whose payload is in the blob store
    Threshold,      \* attestations, each of its own validator, that admit
    Capacity,       \* maximumRetryRecords
    Passes,         \* bound: retry passes that run at the same time
    MaxFaults,      \* bound: failures of stores, publishing, fetching
    MaxRestarts     \* bound

ASSUME NodeAssumption ==
    /\ IsFiniteSet(Records)
    /\ Kind \in [Records -> {"candidate", "attestation"}]
    /\ Tx \in [Records -> Txs]
    /\ Invalid \subseteq Records /\ Undecodable \subseteq Records /\ Offloaded \subseteq Records
    /\ Unhandled \subseteq Records \ (Invalid \cup Undecodable)
    /\ Threshold \in Nat \ {0} /\ Capacity \in Nat \ {0}
    /\ MaxFaults \in Nat /\ MaxRestarts \in Nat

VARIABLES
    log,            \* what the transport's history holds
    unread,         \* what the subscription has still to deliver
    drain,          \* start()'s pass over the history
    node,           \* the fields of the node and of its control store
    passes,         \* the running retry passes
    saved,          \* the control store's last snapshot
    materialized,   \* transactions in the materializer's published revision
    faults, restarts

vars == <<log, unread, drain, node, passes, saved, materialized, faults, restarts>>

Idle == [stage |-> "idle", todo |-> {}, current |-> {}]

\* current holds the record that a rescan has checked and not yet ingested.
Pass ==
    [stage : {"idle", "retry", "fetch", "rescan"}, todo : SUBSET Records,
     current : {{}} \cup {{r} : r \in Records}]

Store == [stored : SUBSET Records, admitted : SUBSET Txs]

NodeState ==
    [seen : SUBSET Records, refused : SUBSET Records, retry : SUBSET Records,
     overflow : BOOLEAN, retryTimer : BOOLEAN,
     stored : SUBSET Records, cores : SUBSET Txs, admitted : SUBSET Txs,
     pending : BOOLEAN, debounceTimer : BOOLEAN, materializeTimer : BOOLEAN]

TypeOK ==
    /\ log \subseteq Records /\ unread \subseteq log
    /\ drain \in [active : BOOLEAN, todo : SUBSET Records]
    /\ node \in NodeState
    /\ Cardinality(node.retry) <= Capacity
    /\ passes \in [Passes -> Pass]
    /\ saved \in Store
    /\ materialized \subseteq Txs
    /\ faults \in 0 .. MaxFaults /\ restarts \in 0 .. MaxRestarts

---------------------------------------------------------------------------
(* Parts of ingest *)

\* #scheduleIngestionRetry
ScheduleIngestionRetry(n) == [n EXCEPT !.retryTimer = @ \/ n.retry # {} \/ n.overflow]

AttestationsFor(n, tx) == {r \in n.stored : Kind[r] = "attestation" /\ Tx[r] = tx}

\* #evaluateAdmission, and the debounced materialization it schedules
EvaluateAdmission(n, tx) ==
    IF tx \notin n.admitted /\ Cardinality(AttestationsFor(n, tx)) >= Threshold
    THEN [n EXCEPT !.admitted = @ \cup {tx}, !.pending = TRUE, !.debounceTimer = TRUE]
    ELSE n

\* putCandidate and #candidateCores.set, or putAttestation
Put(n, r) ==
    [n EXCEPT !.stored = @ \cup {r},
              !.cores = IF Kind[r] = "candidate" THEN @ \cup {Tx[r]} ELSE @]

\* mutant: a record that was stored before a failure is not evaluated again.
HandleOnce(n, r) ==
    IF r \in n.stored THEN Put(n, r)
    ELSE LET m == Put(n, r) IN IF Tx[r] \in m.cores THEN EvaluateAdmission(m, Tx[r]) ELSE m

\* #ingestCandidate and #ingestAttestation: an attestation is evaluated only
\* when the candidate's core is in memory.
Handle(n, r) ==
    LET m == Put(n, r) IN IF Tx[r] \in m.cores THEN EvaluateAdmission(m, Tx[r]) ELSE m

\* The early return of ingest for other message types.
Skip(n, r) == [n EXCEPT !.seen = @ \cup {r}]

Settled(n, r) == [n EXCEPT !.seen = @ \cup {r}, !.retry = @ \ {r}]

\* The catch of ingest for a TerminalIngestError.
Refuse(n, r) == [Settled(n, r) EXCEPT !.refused = @ \cup {r}]

\* mutant: a record that finds the retry set full is let go.
RetryWithoutOverflow(n, r) ==
    ScheduleIngestionRetry(
        IF r \in n.retry \/ Cardinality(n.retry) < Capacity THEN [n EXCEPT !.retry = @ \cup {r}] ELSE n)

\* mutant: the retry set grows without a limit.
RetryUnbounded(n, r) == ScheduleIngestionRetry([n EXCEPT !.retry = @ \cup {r}])

\* The catch of ingest for an error that is not terminal.
Retry(n, r) ==
    ScheduleIngestionRetry(
        IF r \in n.retry \/ Cardinality(n.retry) < Capacity
        THEN [n EXCEPT !.retry = @ \cup {r}]
        ELSE [n EXCEPT !.overflow = TRUE])

\* How far ingest comes before an error: not to the store, past it, or past
\* the evaluation (a validator that cannot publish its attestation).
Reached(n, r) == {n, Put(n, r), Handle(n, r)}

Accepted == Records \ (Invalid \cup Undecodable \cup Unhandled)

\* ingest.  A record without a readable envelope fails outside #decodeRecord
\* and is retried for ever.  A record of another message type is seen and not
\* taken out of the retry set: one that failed before, in feedForks.observe,
\* keeps its place there.
Ingest(r) ==
    \/ /\ r \in node.seen
       /\ UNCHANGED <<node, faults>>
    \/ /\ r \in Undecodable \ node.seen
       /\ node' = Retry(node, r)
       /\ UNCHANGED faults
    \/ /\ r \in Unhandled \ node.seen
       /\ node' = Skip(node, r)
       /\ UNCHANGED faults
    \/ /\ r \in Unhandled \ node.seen
       /\ faults < MaxFaults
       /\ node' = Retry(node, r)
       /\ faults' = faults + 1
    \/ /\ r \in Invalid \ (Undecodable \cup node.seen)
       /\ node' = Refuse(node, r)
       /\ UNCHANGED faults
    \/ /\ r \in Accepted \ node.seen
       /\ node' = Settled(Handle(node, r), r)
       /\ UNCHANGED faults
    \/ /\ r \in Accepted \ node.seen
       /\ faults < MaxFaults
       /\ \E n \in Reached(node, r) : node' = Retry(n, r)
       /\ faults' = faults + 1
    \* #decodeRecord makes every failure to fetch an offloaded payload terminal.
    \/ /\ r \in (Offloaded \cap Accepted) \ node.seen
       /\ faults < MaxFaults
       /\ node' = Refuse(node, r)
       /\ faults' = faults + 1

---------------------------------------------------------------------------
(* Sources of records *)

Init ==
    /\ log = {} /\ unread = {}
    /\ drain = [active |-> TRUE, todo |-> {}]
    /\ node = [seen |-> {}, refused |-> {}, retry |-> {}, overflow |-> FALSE, retryTimer |-> FALSE,
               stored |-> {}, cores |-> {}, admitted |-> {},
               pending |-> FALSE, debounceTimer |-> FALSE, materializeTimer |-> FALSE]
    /\ passes = [p \in Passes |-> Idle]
    /\ saved = [stored |-> {}, admitted |-> {}]
    /\ materialized = {}
    /\ faults = 0 /\ restarts = 0

\* A record reaches the transport, by replication or by a local publish.
Append(r) ==
    /\ r \notin log
    /\ log' = log \cup {r}
    /\ unread' = unread \cup {r}
    /\ UNCHANGED <<drain, node, passes, saved, materialized, faults, restarts>>

\* #consume
Consume(r) ==
    /\ r \in unread
    /\ Ingest(r)
    /\ unread' = unread \ {r}
    /\ UNCHANGED <<log, drain, passes, saved, materialized, restarts>>

\* #drainHistory
Drain(r) ==
    /\ r \in drain.todo
    /\ Ingest(r)
    /\ drain' = [drain EXCEPT !.todo = @ \ {r}]
    /\ UNCHANGED <<log, unread, passes, saved, materialized, restarts>>

---------------------------------------------------------------------------
(* The retry pass *)

\* The timer of #scheduleIngestionRetry fires: a pass over a copy of the
\* retry set begins, whether or not an earlier one is still running.
RetryFire(p) ==
    /\ node.retryTimer
    /\ passes[p] = Idle
    /\ node' = [node EXCEPT !.retryTimer = FALSE]
    /\ passes' = [passes EXCEPT ![p] = [stage |-> "retry", todo |-> node.retry, current |-> {}]]
    /\ UNCHANGED <<log, unread, drain, saved, materialized, faults, restarts>>

RetryRecord(p, r) ==
    /\ passes[p].stage = "retry" /\ r \in passes[p].todo
    /\ Ingest(r)
    /\ passes' = [passes EXCEPT ![p].todo = @ \ {r}]
    /\ UNCHANGED <<log, unread, drain, saved, materialized, restarts>>

\* mutant: the pass ends without looking at what is left.
FinishUnscheduled(p, n) ==
    /\ node' = n
    /\ passes' = [passes EXCEPT ![p] = Idle]

\* finally: schedule again when something is left.
Finish(p, n) ==
    /\ node' = ScheduleIngestionRetry(n)
    /\ passes' = [passes EXCEPT ![p] = Idle]

\* The retried records are through: stop, or clear the overflow mark and ask
\* the transport for its history.
RetryRecordsDone(p) ==
    /\ passes[p].stage = "retry" /\ passes[p].todo = {}
    /\ IF node.overflow /\ Cardinality(node.retry) < Capacity
       THEN /\ node' = [node EXCEPT !.overflow = FALSE]
            /\ passes' = [passes EXCEPT ![p].stage = "fetch"]
       ELSE Finish(p, node)
    /\ UNCHANGED <<log, unread, drain, saved, materialized, faults, restarts>>

FetchHistory(p) ==
    /\ passes[p].stage = "fetch"
    /\ passes' = [passes EXCEPT ![p].stage = "rescan", ![p].todo = log]
    /\ UNCHANGED <<log, unread, drain, node, saved, materialized, faults, restarts>>

FetchHistoryFails(p) ==
    /\ passes[p].stage = "fetch"
    /\ faults < MaxFaults
    /\ Finish(p, [node EXCEPT !.overflow = TRUE])
    /\ faults' = faults + 1
    /\ UNCHANGED <<log, unread, drain, saved, materialized, restarts>>

\* mutant: a full retry set ends the rescan and leaves no mark.
RescanBreaksOff(p, r) ==
    /\ passes[p].stage = "rescan" /\ passes[p].current = {} /\ r \in passes[p].todo
    /\ \/ /\ r \in node.seen \cup node.retry
          /\ passes' = [passes EXCEPT ![p].todo = @ \ {r}]
          /\ UNCHANGED node
       \/ /\ r \notin node.seen \cup node.retry
          /\ Cardinality(node.retry) >= Capacity
          /\ Finish(p, node)
       \/ /\ r \notin node.seen \cup node.retry
          /\ Cardinality(node.retry) < Capacity
          /\ passes' = [passes EXCEPT ![p].todo = @ \ {r}, ![p].current = {r}]
          /\ UNCHANGED node
    /\ UNCHANGED <<log, unread, drain, saved, materialized, faults, restarts>>

\* The checks on one record of the history; ingest follows under the mutex.
RescanCheck(p, r) ==
    /\ passes[p].stage = "rescan" /\ passes[p].current = {} /\ r \in passes[p].todo
    /\ \/ /\ r \in node.seen \cup node.retry
          /\ passes' = [passes EXCEPT ![p].todo = @ \ {r}]
          /\ UNCHANGED node
       \/ /\ r \notin node.seen \cup node.retry
          /\ Cardinality(node.retry) >= Capacity
          /\ Finish(p, [node EXCEPT !.overflow = TRUE])
       \/ /\ r \notin node.seen \cup node.retry
          /\ Cardinality(node.retry) < Capacity
          /\ passes' = [passes EXCEPT ![p].todo = @ \ {r}, ![p].current = {r}]
          /\ UNCHANGED node
    /\ UNCHANGED <<log, unread, drain, saved, materialized, faults, restarts>>

RescanRecord(p) ==
    /\ passes[p].stage = "rescan"
    /\ \E r \in passes[p].current : Ingest(r)
    /\ passes' = [passes EXCEPT ![p].current = {}]
    /\ UNCHANGED <<log, unread, drain, saved, materialized, restarts>>

RescanDone(p) ==
    /\ passes[p].stage = "rescan" /\ passes[p].todo = {} /\ passes[p].current = {}
    /\ Finish(p, node)
    /\ UNCHANGED <<log, unread, drain, saved, materialized, faults, restarts>>

---------------------------------------------------------------------------
(* Materialization, saves and restarts *)

\* #reconcileMaterializer and its caller's catch.  It needs the core of every
\* admitted transaction, and the materializer refuses an order that lacks a
\* transaction it has published.
Reconcile(n) ==
    \/ /\ ~n.pending
       /\ node' = n
       /\ UNCHANGED <<materialized, faults>>
    \/ /\ n.pending /\ n.admitted \subseteq n.cores /\ materialized \subseteq n.admitted
       /\ node' = [n EXCEPT !.pending = FALSE, !.debounceTimer = FALSE, !.materializeTimer = FALSE]
       /\ materialized' = n.admitted
       /\ UNCHANGED faults
    \/ /\ n.pending /\ ~(n.admitted \subseteq n.cores /\ materialized \subseteq n.admitted)
       /\ node' = [n EXCEPT !.materializeTimer = TRUE]
       /\ UNCHANGED <<materialized, faults>>
    \/ /\ n.pending
       /\ faults < MaxFaults
       /\ node' = [n EXCEPT !.materializeTimer = TRUE]
       /\ faults' = faults + 1
       /\ UNCHANGED materialized

\* mutant: start() reconciles only what its own replay admitted.
StartedQuietly ==
    /\ drain.active /\ drain.todo = {}
    /\ drain' = [drain EXCEPT !.active = FALSE]
    /\ Reconcile(node)
    /\ UNCHANGED <<log, unread, passes, saved, restarts>>

\* The end of start(): reconcile whatever the replay did.
Started ==
    /\ drain.active /\ drain.todo = {}
    /\ drain' = [drain EXCEPT !.active = FALSE]
    /\ Reconcile([node EXCEPT !.pending = TRUE])
    /\ UNCHANGED <<log, unread, passes, saved, restarts>>

DebounceFire ==
    /\ node.debounceTimer
    /\ Reconcile([node EXCEPT !.debounceTimer = FALSE])
    /\ UNCHANGED <<log, unread, drain, passes, saved, restarts>>

MaterializeFire ==
    /\ node.materializeTimer
    /\ Reconcile([node EXCEPT !.materializeTimer = FALSE])
    /\ UNCHANGED <<log, unread, drain, passes, saved, restarts>>

\* A requested save of the control store reaches the disk.
Save ==
    /\ saved' = [stored |-> node.stored, admitted |-> node.admitted]
    /\ UNCHANGED <<log, unread, drain, node, passes, materialized, faults, restarts>>

\* The process ends anywhere and starts again from the last snapshot.
Restart ==
    /\ restarts < MaxRestarts
    /\ restarts' = restarts + 1
    /\ unread' = log
    /\ drain' = [active |-> TRUE, todo |-> log]
    /\ node' = [seen |-> {}, refused |-> {}, retry |-> {}, overflow |-> FALSE, retryTimer |-> FALSE,
                stored |-> saved.stored, cores |-> {}, admitted |-> saved.admitted,
                pending |-> FALSE, debounceTimer |-> FALSE, materializeTimer |-> FALSE]
    /\ passes' = [p \in Passes |-> Idle]
    /\ UNCHANGED <<log, saved, materialized, faults>>

PassStep(p) ==
    \/ \E r \in Records : RetryRecord(p, r)
    \/ RetryRecordsDone(p)
    \/ FetchHistory(p)
    \/ FetchHistoryFails(p)
    \/ \E r \in Records : RescanCheck(p, r)
    \/ RescanRecord(p)
    \/ RescanDone(p)

Next ==
    \/ \E r \in Records : Append(r)
    \/ \E r \in Records : Consume(r)
    \/ \E r \in Records : Drain(r)
    \/ \E p \in Passes : RetryFire(p)
    \/ \E p \in Passes : PassStep(p)
    \/ Started
    \/ DebounceFire
    \/ MaterializeFire
    \/ Save
    \/ Restart

Spec == Init /\ [][Next]_vars

\* The event loop runs every armed timer and every pending continuation.
Fairness ==
    /\ WF_vars(\E r \in Records : Consume(r))
    /\ WF_vars(\E r \in Records : Drain(r))
    /\ WF_vars(\E p \in Passes : RetryFire(p))
    /\ \A p \in Passes : WF_vars(PassStep(p))
    /\ WF_vars(Started)
    /\ WF_vars(DebounceFire)
    /\ WF_vars(MaterializeFire)

FairSpec == Spec /\ Fairness

---------------------------------------------------------------------------
(* Properties *)

\* What the records alone admit: the reference for admission.
Admissible(records) ==
    {tx \in Txs :
        /\ \E r \in records \cap Accepted : Kind[r] = "candidate" /\ Tx[r] = tx
        /\ Cardinality({r \in records \cap Accepted : Kind[r] = "attestation" /\ Tx[r] = tx}) >= Threshold}

\* The pass will still come to r: it is about to read the history, or r is in
\* the part of the history that is left.
Covers(pass, r) ==
    pass.stage = "fetch" \/ (pass.stage = "rescan" /\ r \in pass.todo \cup pass.current)

\* However failures, full retry sets and overlapping passes interleave, every
\* record of the transport is still to be delivered, dealt with, waiting for a
\* retry, or inside what a marked or running rescan of the history covers.
NothingForgotten ==
    \A r \in log :
        \/ r \in unread \cup node.seen \cup node.retry
        \/ node.overflow
        \/ \E p \in Passes : Covers(passes[p], r)

\* Work that waits for a retry always has a timer or a running pass that will
\* look at it: node.ts arms one timer and clears it before the pass runs.
RetryStaysArmed ==
    node.retry # {} \/ node.overflow => node.retryTimer \/ \E p \in Passes : passes[p] # Idle

\* The published state is the admitted set, or a reconciliation is due.
StaleViewIsPending ==
    materialized # node.admitted =>
        drain.active \/ (node.pending /\ (node.debounceTimer \/ node.materializeTimer))

\* Once every record is dealt with, what is admitted is what the stored
\* records admit: delivery order, partial failures and restarts leave no trace.
\* Only a record that was refused may be missing from it.
AdmissionIsAFunctionOfRecords ==
    log \ Undecodable \subseteq node.seen =>
        /\ Admissible(node.stored \ node.refused) \subseteq node.admitted
        /\ node.admitted \subseteq Admissible(node.stored)

\* A network failure is retryable: a terminal error ends only a record that no
\* replica accepts.
OnlyInvalidRefused == node.refused \subseteq Invalid

\* Every place of the retry set is held for good, until the next restart: by
\* undecodable records and by unhandled ones that failed once.
Clogged == Cardinality(node.retry \cap (Undecodable \cup node.seen)) >= Capacity

\* Every transaction that the transport's records admit becomes visible,
\* through failures, retries, restarts from an old snapshot and a materializer
\* that is ahead of it.  Only a refused record can prevent it, or a retry set
\* whose every place is held for good.
EventuallyVisible ==
    \A tx \in Txs : tx \in Admissible(log) ~> tx \in materialized \/ ~OnlyInvalidRefused \/ Clogged
=============================================================================
