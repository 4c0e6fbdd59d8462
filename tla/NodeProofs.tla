----------------------------- MODULE NodeProofs -----------------------------
(***************************************************************************)
(* Proofs about the node's ingestion, for any number of records, retry     *)
(* passes, failures and restarts: no record is forgotten, waiting work is  *)
(* always scheduled, and a stale view is always due for reconciliation.    *)
(* The conjunction with the type invariant is inductive.                   *)
(***************************************************************************)
EXTENDS Node, FiniteSetTheorems, TLAPS

IInv == TypeOK /\ NothingForgotten /\ RetryStaysArmed /\ StaleViewIsPending

\* A view that is behind is due: a reconciliation is pending with a timer.
Due(n) == n.pending /\ (n.debounceTimer \/ n.materializeTimer)

\* From n to m the store moves on and ingestion's own fields stay.
Advanced(n, m) ==
    /\ m \in NodeState
    /\ m.seen = n.seen /\ m.retry = n.retry
    /\ m.overflow = n.overflow /\ m.retryTimer = n.retryTimer
    /\ m.admitted = n.admitted \/ Due(m)
    /\ Due(n) => Due(m)

\* Storing a record and evaluating admission leave the retry state alone; an
\* admission schedules a reconciliation.
LEMMA HandleAdvances ==
    ASSUME NEW n \in NodeState, NEW r \in Records
    PROVE  Advanced(n, n) /\ Advanced(n, Put(n, r)) /\ Advanced(n, Handle(n, r))
  <1>1. Tx[r] \in Txs
    BY NodeAssumption
  <1>2. Put(n, r) \in NodeState /\ Advanced(n, Put(n, r))
    BY <1>1 DEF Put, NodeState, Advanced, Due
  <1>3. ASSUME NEW m \in NodeState
        PROVE  Advanced(m, EvaluateAdmission(m, Tx[r]))
    BY <1>1 DEF EvaluateAdmission, NodeState, Advanced, Due
  <1>4. Advanced(n, Handle(n, r))
    BY <1>2, <1>3 DEF Handle, Advanced
  <1> QED  BY <1>2, <1>4 DEF Advanced

\* What one call of ingest does to a record's place: it is dealt with, waits
\* for a retry, or leaves the overflow mark, and nothing else loses its place.
Placed(n, m, r) ==
    /\ m \in NodeState
    /\ Cardinality(m.retry) <= Capacity
    /\ n.seen \subseteq m.seen
    /\ n.retry \subseteq m.retry \cup m.seen
    /\ n.overflow => m.overflow
    /\ r \in m.seen \cup m.retry \/ m.overflow
    /\ n.retryTimer => m.retryTimer
    /\ m.retryTimer \/ (m.retry \subseteq n.retry /\ m.overflow = n.overflow)
    /\ m.admitted = n.admitted \/ Due(m)
    /\ Due(n) => Due(m)

\* Capacity bounds the retry set after a success or a terminal error.
LEMMA SettledPlaces ==
    ASSUME NEW n \in NodeState, Cardinality(n.retry) <= Capacity, NEW r \in Records,
           NEW m, Advanced(n, m)
    PROVE  Placed(n, Settled(m, r), r) /\ Placed(n, Refuse(m, r), r)
  <1>1. IsFiniteSet(n.retry)
    BY NodeAssumption, FS_Subset DEF NodeState
  <1>2. Cardinality(n.retry \ {r}) <= Cardinality(n.retry)
    BY <1>1, FS_Subset
  <1>3. Cardinality(n.retry \ {r}) \in Nat /\ Cardinality(n.retry) \in Nat /\ Capacity \in Nat
    BY <1>1, FS_Subset, FS_CardinalityType, NodeAssumption
  <1>4. Cardinality(n.retry \ {r}) <= Capacity
    BY <1>2, <1>3
  <1>5. m \in NodeState /\ m.retry = n.retry /\ m.seen = n.seen /\ m.overflow = n.overflow /\ m.retryTimer = n.retryTimer
    BY DEF Advanced
  <1>6. /\ Settled(m, r) \in NodeState
        /\ Settled(m, r).seen = m.seen \cup {r} /\ Settled(m, r).retry = m.retry \ {r}
        /\ Settled(m, r).overflow = m.overflow /\ Settled(m, r).retryTimer = m.retryTimer
        /\ Settled(m, r).admitted = m.admitted
        /\ Due(m) => Due(Settled(m, r))
    BY <1>5 DEF Settled, NodeState, Due
  <1>7. /\ Refuse(m, r) \in NodeState
        /\ Refuse(m, r).seen = m.seen \cup {r} /\ Refuse(m, r).retry = m.retry \ {r}
        /\ Refuse(m, r).overflow = m.overflow /\ Refuse(m, r).retryTimer = m.retryTimer
        /\ Refuse(m, r).admitted = m.admitted
        /\ Due(m) => Due(Refuse(m, r))
    BY <1>6 DEF Refuse, NodeState, Due
  <1>8. Placed(n, Settled(m, r), r)
    BY <1>4, <1>5, <1>6 DEF Placed, Advanced
  <1>9. Placed(n, Refuse(m, r), r)
    BY <1>4, <1>5, <1>7 DEF Placed, Advanced
  <1> QED  BY <1>8, <1>9

\* Capacity bounds the retry set after an error that is retried, and a record
\* that does not fit leaves the overflow mark.
LEMMA RetryPlaces ==
    ASSUME NEW n \in NodeState, Cardinality(n.retry) <= Capacity, NEW r \in Records,
           NEW m, Advanced(n, m)
    PROVE  Placed(n, Retry(m, r), r)
  <1>1. IsFiniteSet(n.retry)
    BY NodeAssumption, FS_Subset DEF NodeState
  <1>2. Cardinality(n.retry) \in Nat /\ Capacity \in Nat
    BY <1>1, FS_CardinalityType, NodeAssumption
  <1>3. m \in NodeState /\ m.retry = n.retry /\ m.seen = n.seen /\ m.overflow = n.overflow /\ m.retryTimer = n.retryTimer
    BY DEF Advanced
  <1>4. ASSUME NEW k \in NodeState, k.retry # {} \/ k.overflow
        PROVE  /\ ScheduleIngestionRetry(k) \in NodeState
               /\ ScheduleIngestionRetry(k).seen = k.seen /\ ScheduleIngestionRetry(k).retry = k.retry
               /\ ScheduleIngestionRetry(k).overflow = k.overflow /\ ScheduleIngestionRetry(k).retryTimer
               /\ ScheduleIngestionRetry(k).admitted = k.admitted
               /\ Due(k) => Due(ScheduleIngestionRetry(k))
    BY <1>4 DEF ScheduleIngestionRetry, NodeState, Due
  <1>5. CASE r \in m.retry \/ Cardinality(m.retry) < Capacity
    <2> DEFINE k == [m EXCEPT !.retry = @ \cup {r}]
    <2>1. /\ k \in NodeState /\ k.seen = m.seen /\ k.retry = m.retry \cup {r} /\ k.overflow = m.overflow
          /\ k.retryTimer = m.retryTimer /\ k.admitted = m.admitted /\ (Due(m) => Due(k))
      BY <1>3 DEF NodeState, Due
    <2>2. Cardinality(n.retry \cup {r}) <= Capacity
      <3>1. CASE r \in n.retry
        <4>1. n.retry \cup {r} = n.retry
          BY <3>1
        <4> QED  BY <4>1
      <3>2. CASE r \notin n.retry
        <4>1. Cardinality(n.retry \cup {r}) = Cardinality(n.retry) + 1
          BY <3>2, <1>1, FS_AddElement
        <4>2. Cardinality(n.retry) < Capacity
          BY <1>5, <1>3, <3>2
        <4> QED  BY <4>1, <4>2, <1>2
      <3> QED  BY <3>1, <3>2
    <2>3. Retry(m, r) = ScheduleIngestionRetry(k)
      BY <1>5 DEF Retry
    <2> HIDE DEF k
    <2>4. k.retry # {}
      BY <2>1
    <2> DEFINE z == Retry(m, r)
    <2>5. /\ z \in NodeState /\ z.seen = k.seen /\ z.retry = k.retry /\ z.overflow = k.overflow
          /\ z.retryTimer /\ z.admitted = k.admitted /\ (Due(k) => Due(z))
      BY <2>1, <2>3, <2>4, <1>4
    <2> HIDE DEF z
    <2>6. /\ z.seen = n.seen /\ z.retry = n.retry \cup {r} /\ z.overflow = n.overflow
          /\ Cardinality(z.retry) <= Capacity
      BY <1>3, <2>1, <2>2, <2>5
    <2>7. (z.admitted = n.admitted \/ Due(z)) /\ (Due(n) => Due(z))
      BY <2>1, <2>5 DEF Advanced
    <2>8. Placed(n, z, r)
      BY <2>5, <2>6, <2>7 DEF Placed
    <2> QED  BY <2>8 DEF z
  <1>6. CASE ~(r \in m.retry \/ Cardinality(m.retry) < Capacity)
    <2> DEFINE k == [m EXCEPT !.overflow = TRUE]
    <2>1. /\ k \in NodeState /\ k.seen = m.seen /\ k.retry = m.retry /\ k.overflow
          /\ k.retryTimer = m.retryTimer /\ k.admitted = m.admitted /\ (Due(m) => Due(k))
      BY <1>3 DEF NodeState, Due
    <2>2. Retry(m, r) = ScheduleIngestionRetry(k)
      BY <1>6 DEF Retry
    <2> HIDE DEF k
    <2> QED  BY <2>1, <2>2, <1>3, <1>4 DEF Placed, Advanced
  <1> QED  BY <1>5, <1>6

\* One call of ingest keeps a record's place, whichever way it ends.
LEMMA IngestPlaces ==
    ASSUME TypeOK, NEW r \in Records, Ingest(r)
    PROVE  Placed(node, node', r) /\ faults' \in 0 .. MaxFaults
  <1>1. node \in NodeState /\ Cardinality(node.retry) <= Capacity /\ faults \in 0 .. MaxFaults
    BY DEF TypeOK
  <1>2. Advanced(node, node) /\ Advanced(node, Put(node, r)) /\ Advanced(node, Handle(node, r))
    BY <1>1, HandleAdvances
  <1>3. MaxFaults \in Nat
    BY NodeAssumption
  <1>4. CASE UNCHANGED faults
    <2>1. r \in node.seen => Placed(node, node, r)
      BY <1>1 DEF Placed
    <2>2. Placed(node, Refuse(node, r), r) /\ Placed(node, Settled(Handle(node, r), r), r)
      BY <1>1, <1>2, SettledPlaces
    <2>3. Placed(node, Retry(node, r), r)
      BY <1>1, <1>2, RetryPlaces
    <2>4. Placed(node, Skip(node, r), r)
      <3> PICK m : m = Skip(node, r)
        OBVIOUS
      <3>1. /\ m \in NodeState /\ m.seen = node.seen \cup {r} /\ m.retry = node.retry
            /\ m.overflow = node.overflow /\ m.retryTimer = node.retryTimer
            /\ m.admitted = node.admitted /\ (Due(node) => Due(m))
        BY <1>1 DEF Skip, NodeState, Due
      <3> QED  BY <1>1, <3>1 DEF Placed
    <2>5. \/ r \in node.seen /\ node' = node
          \/ node' \in {Skip(node, r), Retry(node, r), Refuse(node, r), Settled(Handle(node, r), r)}
      BY <1>1, <1>4 DEF Ingest
    <2> QED  BY <1>1, <1>4, <2>1, <2>2, <2>3, <2>4, <2>5
  <1>5. CASE /\ faults < MaxFaults
             /\ \E n \in Reached(node, r) : node' = Retry(n, r)
             /\ faults' = faults + 1
    <2>1. PICK n \in Reached(node, r) : node' = Retry(n, r)
      BY <1>5
    <2>2. Advanced(node, n)
      BY <1>2 DEF Reached
    <2>3. Placed(node, node', r)
      BY <1>1, <2>1, <2>2, RetryPlaces
    <2> QED  BY <1>1, <1>3, <1>5, <2>3
  <1>6. CASE /\ faults < MaxFaults
             /\ node' = Refuse(node, r)
             /\ faults' = faults + 1
    <2>1. Placed(node, node', r)
      BY <1>1, <1>2, <1>6, SettledPlaces
    <2> QED  BY <1>1, <1>3, <1>6, <2>1
  <1>7. CASE /\ faults < MaxFaults
             /\ node' = Retry(node, r)
             /\ faults' = faults + 1
    <2>1. Placed(node, node', r)
      BY <1>1, <1>2, <1>7, RetryPlaces
    <2> QED  BY <1>1, <1>3, <1>7, <2>1
  <1> QED  BY <1>4, <1>5, <1>6, <1>7 DEF Ingest

---------------------------------------------------------------------------
(* Steps *)

\* A step that ingests one record, and leaves every pass covering all it
\* covered but that record, keeps the invariant.
LEMMA PlacedKeeps ==
    ASSUME IInv, NEW r \in Records, Placed(node, node', r),
           log' = log, materialized' = materialized, unread \subseteq unread' \cup {r},
           \A p \in Passes : \A s \in Records : Covers(passes[p], s) => s = r \/ Covers(passes'[p], s),
           \A p \in Passes : passes[p] # Idle => passes'[p] # Idle,
           drain.active => drain'.active
    PROVE  NothingForgotten' /\ RetryStaysArmed' /\ StaleViewIsPending'
  <1>1. NothingForgotten'
    <2> SUFFICES ASSUME NEW s \in log
                 PROVE  \/ s \in unread' \cup node'.seen \cup node'.retry
                        \/ node'.overflow
                        \/ \E p \in Passes : Covers(passes'[p], s)
      BY DEF NothingForgotten
    <2>1. s \in Records
      BY DEF IInv, TypeOK
    <2>2. \/ s \in unread \cup node.seen \cup node.retry
          \/ node.overflow
          \/ \E p \in Passes : Covers(passes[p], s)
      BY DEF IInv, NothingForgotten
    <2> QED  BY <2>1, <2>2 DEF Placed
  <1>2. RetryStaysArmed'
    BY DEF IInv, RetryStaysArmed, Placed
  <1>3. StaleViewIsPending'
    BY DEF IInv, StaleViewIsPending, Placed, Due
  <1> QED  BY <1>1, <1>2, <1>3

\* The subscription delivers a record.
LEMMA ConsumeKeeps ==
    ASSUME IInv, NEW r \in Records, Consume(r)
    PROVE  IInv'
  <1>1. TypeOK /\ Placed(node, node', r) /\ faults' \in 0 .. MaxFaults
    BY IngestPlaces DEF Consume, IInv
  <1>2. TypeOK'
    BY <1>1 DEF TypeOK, Consume, Placed
  <1>3. NothingForgotten' /\ RetryStaysArmed' /\ StaleViewIsPending'
    BY <1>1, PlacedKeeps DEF Consume
  <1> QED  BY <1>2, <1>3 DEF IInv

\* start() replays a record of the history.
LEMMA DrainKeeps ==
    ASSUME IInv, NEW r \in Records, Drain(r)
    PROVE  IInv'
  <1>1. TypeOK /\ Placed(node, node', r) /\ faults' \in 0 .. MaxFaults
    BY IngestPlaces DEF Drain, IInv
  <1>2. drain' \in [active : BOOLEAN, todo : SUBSET Records] /\ drain'.active = drain.active
    BY <1>1 DEF TypeOK, Drain
  <1>3. TypeOK'
    BY <1>1, <1>2 DEF TypeOK, Drain, Placed
  <1>4. NothingForgotten' /\ RetryStaysArmed' /\ StaleViewIsPending'
    BY <1>1, <1>2, PlacedKeeps DEF Drain
  <1> QED  BY <1>3, <1>4 DEF IInv

\* A retry pass retries a record.
LEMMA RetryRecordKeeps ==
    ASSUME IInv, NEW p \in Passes, NEW r \in Records, RetryRecord(p, r)
    PROVE  IInv'
  <1>1. TypeOK /\ Placed(node, node', r) /\ faults' \in 0 .. MaxFaults
    BY IngestPlaces DEF RetryRecord, IInv
  <1>2. /\ passes' \in [Passes -> Pass]
        /\ passes'[p].stage = "retry"
        /\ \A q \in Passes \ {p} : passes'[q] = passes[q]
    BY <1>1 DEF TypeOK, RetryRecord, Pass
  <1>3. TypeOK'
    BY <1>1, <1>2 DEF TypeOK, RetryRecord, Placed
  <1>4. /\ \A q \in Passes : \A s \in Records : Covers(passes[q], s) => s = r \/ Covers(passes'[q], s)
        /\ \A q \in Passes : passes[q] # Idle => passes'[q] # Idle
    BY <1>2 DEF RetryRecord, Covers, Idle
  <1>5. NothingForgotten' /\ RetryStaysArmed' /\ StaleViewIsPending'
    BY <1>1, <1>4, PlacedKeeps DEF RetryRecord
  <1> QED  BY <1>3, <1>5 DEF IInv

\* A rescan ingests the record it has checked.
LEMMA RescanRecordKeeps ==
    ASSUME IInv, NEW p \in Passes, RescanRecord(p)
    PROVE  IInv'
  <1>1. PICK r \in passes[p].current : Ingest(r)
    BY DEF RescanRecord
  <1>2. passes[p] \in Pass /\ r \in Records
    BY DEF IInv, TypeOK, Pass
  <1>3. TypeOK /\ Placed(node, node', r) /\ faults' \in 0 .. MaxFaults
    BY <1>1, <1>2, IngestPlaces DEF IInv
  <1>4. /\ passes' \in [Passes -> Pass]
        /\ passes'[p].stage = "rescan" /\ passes'[p].todo = passes[p].todo
        /\ \A q \in Passes \ {p} : passes'[q] = passes[q]
    BY <1>3 DEF TypeOK, RescanRecord, Pass
  <1>5. TypeOK'
    BY <1>3, <1>4 DEF TypeOK, RescanRecord, Placed
  <1>6. passes[p].current = {r}
    BY <1>1, <1>2 DEF Pass
  <1>7. /\ \A q \in Passes : \A s \in Records : Covers(passes[q], s) => s = r \/ Covers(passes'[q], s)
        /\ \A q \in Passes : passes[q] # Idle => passes'[q] # Idle
    BY <1>4, <1>6 DEF RescanRecord, Covers, Idle
  <1>8. NothingForgotten' /\ RetryStaysArmed' /\ StaleViewIsPending'
    BY <1>2, <1>3, <1>7, PlacedKeeps DEF RescanRecord
  <1> QED  BY <1>5, <1>8 DEF IInv

\* A pass that ends leaves a timer whenever work is left.
LEMMA FinishKeeps ==
    ASSUME IInv, NEW p \in Passes, NEW n \in NodeState, Finish(p, n),
           UNCHANGED <<log, unread, drain, saved, materialized, restarts>>, faults' \in 0 .. MaxFaults,
           n.seen = node.seen, n.retry = node.retry, n.admitted = node.admitted,
           Due(node) => Due(n),
           n.overflow \/ (n.overflow = node.overflow /\ \A s \in Records : ~Covers(passes[p], s))
    PROVE  IInv'
  <1>1. /\ node' \in NodeState
        /\ node'.seen = n.seen /\ node'.retry = n.retry /\ node'.overflow = n.overflow
        /\ node'.admitted = n.admitted
        /\ node'.retry # {} \/ node'.overflow => node'.retryTimer
        /\ Due(n) => Due(node')
    BY DEF Finish, ScheduleIngestionRetry, NodeState, Due
  <1>2. /\ passes' \in [Passes -> Pass]
        /\ \A q \in Passes \ {p} : passes'[q] = passes[q]
    BY DEF Finish, IInv, TypeOK, Pass, Idle
  <1>3. TypeOK'
    BY <1>1, <1>2 DEF IInv, TypeOK
  <1>4. NothingForgotten'
    <2> SUFFICES ASSUME NEW s \in log
                 PROVE  \/ s \in unread' \cup node'.seen \cup node'.retry
                        \/ node'.overflow
                        \/ \E q \in Passes : Covers(passes'[q], s)
      BY DEF NothingForgotten
    <2>1. s \in Records
      BY DEF IInv, TypeOK
    <2>2. \/ s \in unread \cup node.seen \cup node.retry
          \/ node.overflow
          \/ \E q \in Passes : Covers(passes[q], s)
      BY DEF IInv, NothingForgotten
    <2> QED  BY <1>1, <1>2, <2>1, <2>2
  <1>5. RetryStaysArmed'
    BY <1>1 DEF RetryStaysArmed
  <1>6. StaleViewIsPending'
    BY <1>1 DEF IInv, StaleViewIsPending, Due
  <1> QED  BY <1>3, <1>4, <1>5, <1>6 DEF IInv

\* A step that leaves the node as it is, and every pass covering what it
\* covered or what the node already holds, keeps the invariant.
LEMMA PassMoves ==
    ASSUME IInv, UNCHANGED <<log, unread, drain, node, saved, materialized, faults, restarts>>,
           NEW p \in Passes, NEW m \in Pass, m # Idle, passes' = [passes EXCEPT ![p] = m],
           \A s \in log : Covers(passes[p], s) => Covers(m, s) \/ s \in node.seen \cup node.retry
    PROVE  IInv'
  <1>1. passes' \in [Passes -> Pass] /\ passes'[p] = m /\ \A q \in Passes \ {p} : passes'[q] = passes[q]
    BY DEF IInv, TypeOK
  <1>2. TypeOK'
    BY <1>1 DEF IInv, TypeOK
  <1>3. NothingForgotten'
    BY <1>1 DEF IInv, NothingForgotten
  <1>4. RetryStaysArmed'
    BY <1>1 DEF IInv, RetryStaysArmed
  <1>5. StaleViewIsPending'
    BY DEF IInv, StaleViewIsPending
  <1> QED  BY <1>2, <1>3, <1>4, <1>5 DEF IInv

\* The retry timer fires and a pass begins.
LEMMA RetryFireKeeps ==
    ASSUME IInv, NEW p \in Passes, RetryFire(p)
    PROVE  IInv'
  <1>1. /\ node' \in NodeState
        /\ node'.seen = node.seen /\ node'.retry = node.retry /\ node'.overflow = node.overflow
        /\ node'.admitted = node.admitted /\ (Due(node) => Due(node'))
    BY DEF RetryFire, IInv, TypeOK, NodeState, Due
  <1>2. /\ passes' \in [Passes -> Pass]
        /\ passes'[p].stage = "retry"
        /\ \A q \in Passes \ {p} : passes'[q] = passes[q]
    BY DEF RetryFire, IInv, TypeOK, Pass, NodeState
  <1>3. TypeOK'
    BY <1>1, <1>2 DEF IInv, TypeOK, RetryFire
  <1>4. \A s \in Records : ~Covers(passes[p], s)
    BY DEF RetryFire, Covers, Idle
  <1>5. NothingForgotten'
    <2> SUFFICES ASSUME NEW s \in log
                 PROVE  \/ s \in unread' \cup node'.seen \cup node'.retry
                        \/ node'.overflow
                        \/ \E q \in Passes : Covers(passes'[q], s)
      BY DEF NothingForgotten, RetryFire
    <2>1. s \in Records
      BY DEF IInv, TypeOK
    <2>2. \/ s \in unread \cup node.seen \cup node.retry
          \/ node.overflow
          \/ \E q \in Passes : Covers(passes[q], s)
      BY DEF IInv, NothingForgotten
    <2> QED  BY <1>1, <1>2, <1>4, <2>1, <2>2 DEF RetryFire
  <1>6. RetryStaysArmed'
    BY <1>2 DEF RetryStaysArmed, Idle
  <1>7. StaleViewIsPending'
    BY <1>1 DEF IInv, StaleViewIsPending, Due, RetryFire
  <1> QED  BY <1>3, <1>5, <1>6, <1>7 DEF IInv

\* The retried records are through: the pass ends, or goes on to the history.
LEMMA RetryRecordsDoneKeeps ==
    ASSUME IInv, NEW p \in Passes, RetryRecordsDone(p)
    PROVE  IInv'
  <1>1. CASE node.overflow /\ Cardinality(node.retry) < Capacity
    <2>1. /\ node' \in NodeState
          /\ node'.seen = node.seen /\ node'.retry = node.retry
          /\ node'.admitted = node.admitted /\ (Due(node) => Due(node'))
      <3>1. node' = [node EXCEPT !.overflow = FALSE] /\ node \in NodeState
        BY <1>1 DEF RetryRecordsDone, IInv, TypeOK
      <3> QED  BY <3>1 DEF NodeState, Due
    <2>2. passes' \in [Passes -> Pass] /\ passes'[p].stage = "fetch"
      BY <1>1 DEF RetryRecordsDone, IInv, TypeOK, Pass
    <2>3. TypeOK'
      BY <2>1, <2>2 DEF IInv, TypeOK, RetryRecordsDone
    <2>4. NothingForgotten'
      BY <2>2 DEF NothingForgotten, Covers
    <2>5. RetryStaysArmed'
      BY <2>2 DEF RetryStaysArmed, Idle
    <2>6. StaleViewIsPending'
      BY <2>1 DEF IInv, StaleViewIsPending, Due, RetryRecordsDone
    <2> QED  BY <2>3, <2>4, <2>5, <2>6 DEF IInv
  <1>2. CASE ~(node.overflow /\ Cardinality(node.retry) < Capacity)
    <2>1. Finish(p, node) /\ node \in NodeState /\ faults \in 0 .. MaxFaults
      BY <1>2 DEF RetryRecordsDone, IInv, TypeOK
    <2>2. \A s \in Records : ~Covers(passes[p], s)
      BY DEF RetryRecordsDone, Covers
    <2> QED  BY <2>1, <2>2, FinishKeeps DEF RetryRecordsDone
  <1> QED  BY <1>1, <1>2

\* The history arrives: the rescan covers all of it.
LEMMA FetchHistoryKeeps ==
    ASSUME IInv, NEW p \in Passes, FetchHistory(p)
    PROVE  IInv'
  <1> DEFINE m == [passes[p] EXCEPT !.stage = "rescan", !.todo = log]
  <1>1. passes[p] \in Pass /\ log \subseteq Records
    BY DEF IInv, TypeOK
  <1>2. m \in Pass /\ m.stage = "rescan" /\ m.todo = log
    BY <1>1 DEF Pass
  <1>3. passes' = [passes EXCEPT ![p] = m]
    BY DEF FetchHistory, IInv, TypeOK
  <1> HIDE DEF m
  <1>4. m # Idle /\ \A s \in log : Covers(m, s)
    BY <1>2 DEF Idle, Covers
  <1> QED  BY <1>2, <1>3, <1>4, PassMoves DEF FetchHistory

\* The history cannot be read: the mark is set again.
LEMMA FetchHistoryFailsKeeps ==
    ASSUME IInv, NEW p \in Passes, FetchHistoryFails(p)
    PROVE  IInv'
  <1> DEFINE n == [node EXCEPT !.overflow = TRUE]
  <1>1. node \in NodeState /\ faults \in 0 .. MaxFaults /\ MaxFaults \in Nat
    BY NodeAssumption DEF IInv, TypeOK
  <1>2. /\ n \in NodeState /\ n.overflow
        /\ n.seen = node.seen /\ n.retry = node.retry /\ n.admitted = node.admitted /\ (Due(node) => Due(n))
    BY <1>1 DEF NodeState, Due
  <1>3. Finish(p, n) /\ faults' \in 0 .. MaxFaults
    BY <1>1 DEF FetchHistoryFails
  <1> HIDE DEF n
  <1> QED  BY <1>2, <1>3, FinishKeeps DEF FetchHistoryFails

\* The checks on one record of the history.
LEMMA RescanCheckKeeps ==
    ASSUME IInv, NEW p \in Passes, NEW r \in Records, RescanCheck(p, r)
    PROVE  IInv'
  <1>1. node \in NodeState /\ faults \in 0 .. MaxFaults /\ passes \in [Passes -> Pass] /\ passes[p] \in Pass
    BY DEF IInv, TypeOK
  <1>2. CASE /\ r \in node.seen \cup node.retry
             /\ passes' = [passes EXCEPT ![p].todo = @ \ {r}]
             /\ UNCHANGED node
    <2> DEFINE m == [passes[p] EXCEPT !.todo = @ \ {r}]
    <2>1. m \in Pass /\ m.stage = "rescan" /\ m.todo = passes[p].todo \ {r} /\ m.current = passes[p].current
      BY <1>1 DEF Pass, RescanCheck
    <2>2. passes' = [passes EXCEPT ![p] = m]
      BY <1>1, <1>2
    <2> HIDE DEF m
    <2>3. m # Idle /\ \A s \in log : Covers(passes[p], s) => Covers(m, s) \/ s \in node.seen \cup node.retry
      BY <1>2, <2>1 DEF Idle, Covers, RescanCheck
    <2> QED  BY <1>2, <2>1, <2>2, <2>3, PassMoves DEF RescanCheck
  <1>3. CASE Finish(p, [node EXCEPT !.overflow = TRUE])
    <2> DEFINE n == [node EXCEPT !.overflow = TRUE]
    <2>1. /\ n \in NodeState /\ n.overflow
          /\ n.seen = node.seen /\ n.retry = node.retry /\ n.admitted = node.admitted /\ (Due(node) => Due(n))
      BY <1>1 DEF NodeState, Due
    <2>2. Finish(p, n)
      BY <1>3
    <2> HIDE DEF n
    <2> QED  BY <1>1, <2>1, <2>2, FinishKeeps DEF RescanCheck
  <1>4. CASE /\ passes' = [passes EXCEPT ![p].todo = @ \ {r}, ![p].current = {r}]
             /\ UNCHANGED node
    <2> DEFINE m == [passes[p] EXCEPT !.todo = @ \ {r}, !.current = {r}]
    <2>1. m \in Pass /\ m.stage = "rescan" /\ m.todo = passes[p].todo \ {r} /\ m.current = {r}
      BY <1>1 DEF Pass, RescanCheck
    <2>2. passes' = [passes EXCEPT ![p] = m]
      BY <1>1, <1>4
    <2> HIDE DEF m
    <2>3. m # Idle /\ \A s \in log : Covers(passes[p], s) => Covers(m, s)
      BY <2>1 DEF Idle, Covers, RescanCheck
    <2> QED  BY <1>4, <2>1, <2>2, <2>3, PassMoves DEF RescanCheck
  <1> QED  BY <1>2, <1>3, <1>4 DEF RescanCheck

\* The end of the history.
LEMMA RescanDoneKeeps ==
    ASSUME IInv, NEW p \in Passes, RescanDone(p)
    PROVE  IInv'
  <1>1. Finish(p, node) /\ node \in NodeState /\ faults \in 0 .. MaxFaults
    BY DEF RescanDone, IInv, TypeOK
  <1>2. \A s \in Records : ~Covers(passes[p], s)
    BY DEF RescanDone, Covers
  <1> QED  BY <1>1, <1>2, FinishKeeps DEF RescanDone

\* The transport holds a further record, which the subscription delivers.
LEMMA AppendKeeps ==
    ASSUME IInv, NEW r \in Records, Append(r)
    PROVE  IInv'
  <1>1. TypeOK'
    BY DEF IInv, TypeOK, Append
  <1>2. NothingForgotten'
    BY DEF IInv, NothingForgotten, Append
  <1>3. RetryStaysArmed' /\ StaleViewIsPending'
    BY DEF IInv, RetryStaysArmed, StaleViewIsPending, Append
  <1> QED  BY <1>1, <1>2, <1>3 DEF IInv

\* A reconciliation publishes the admitted set, or stays due with a timer.
LEMMA ReconcileKeeps ==
    ASSUME IInv, NEW n \in NodeState, Reconcile(n),
           UNCHANGED <<log, unread, passes, saved, restarts>>,
           drain' \in [active : BOOLEAN, todo : SUBSET Records],
           n.seen = node.seen, n.retry = node.retry, n.overflow = node.overflow,
           n.retryTimer = node.retryTimer, n.admitted = node.admitted,
           materialized # node.admitted => drain'.active \/ n.pending
    PROVE  IInv'
  <1>1. /\ node' \in NodeState
        /\ node'.seen = n.seen /\ node'.retry = n.retry /\ node'.overflow = n.overflow
        /\ node'.retryTimer = n.retryTimer /\ node'.admitted = n.admitted
    <2>1. \/ node' = n
          \/ node' = [n EXCEPT !.pending = FALSE, !.debounceTimer = FALSE, !.materializeTimer = FALSE]
          \/ node' = [n EXCEPT !.materializeTimer = TRUE]
      BY DEF Reconcile
    <2>2. CASE node' = n
      BY <2>2
    <2>3. CASE node' = [n EXCEPT !.pending = FALSE, !.debounceTimer = FALSE, !.materializeTimer = FALSE]
      BY <2>3 DEF NodeState
    <2>4. CASE node' = [n EXCEPT !.materializeTimer = TRUE]
      BY <2>4 DEF NodeState
    <2> QED  BY <2>1, <2>2, <2>3, <2>4
  <1>2. materialized' \in SUBSET Txs
    BY DEF Reconcile, NodeState, IInv, TypeOK
  <1>3. faults' \in 0 .. MaxFaults
    BY NodeAssumption DEF Reconcile, IInv, TypeOK
  <1>4. TypeOK'
    BY <1>1, <1>2, <1>3 DEF IInv, TypeOK
  <1>5. NothingForgotten' /\ RetryStaysArmed'
    BY <1>1 DEF IInv, NothingForgotten, RetryStaysArmed
  <1>6. n.pending /\ materialized' # n.admitted => Due(node')
    BY DEF Reconcile, NodeState, Due
  <1>7. ~n.pending => materialized' = materialized
    BY DEF Reconcile
  <1>8. StaleViewIsPending'
    BY <1>1, <1>6, <1>7 DEF StaleViewIsPending, Due
  <1> QED  BY <1>4, <1>5, <1>8 DEF IInv

\* start() ends with a reconciliation.
LEMMA StartedKeeps ==
    ASSUME IInv, Started
    PROVE  IInv'
  <1> DEFINE n == [node EXCEPT !.pending = TRUE]
  <1>1. node \in NodeState /\ drain \in [active : BOOLEAN, todo : SUBSET Records]
    BY DEF IInv, TypeOK
  <1>2. /\ n \in NodeState /\ n.pending
        /\ n.seen = node.seen /\ n.retry = node.retry /\ n.overflow = node.overflow
        /\ n.retryTimer = node.retryTimer /\ n.admitted = node.admitted
    BY <1>1 DEF NodeState
  <1>3. Reconcile(n)
    BY DEF Started
  <1>4. drain' \in [active : BOOLEAN, todo : SUBSET Records]
    BY <1>1 DEF Started
  <1> HIDE DEF n
  <1> QED  BY <1>2, <1>3, <1>4, ReconcileKeeps DEF Started

\* The debounce timer fires.
LEMMA DebounceFireKeeps ==
    ASSUME IInv, DebounceFire
    PROVE  IInv'
  <1> DEFINE n == [node EXCEPT !.debounceTimer = FALSE]
  <1>1. node \in NodeState /\ drain \in [active : BOOLEAN, todo : SUBSET Records]
    BY DEF IInv, TypeOK
  <1>2. /\ n \in NodeState /\ n.pending = node.pending
        /\ n.seen = node.seen /\ n.retry = node.retry /\ n.overflow = node.overflow
        /\ n.retryTimer = node.retryTimer /\ n.admitted = node.admitted
    BY <1>1 DEF NodeState
  <1>3. Reconcile(n)
    BY DEF DebounceFire
  <1>4. materialized # node.admitted => drain.active \/ node.pending
    BY DEF IInv, StaleViewIsPending
  <1> HIDE DEF n
  <1> QED  BY <1>1, <1>2, <1>3, <1>4, ReconcileKeeps DEF DebounceFire

\* The materialization retry timer fires.
LEMMA MaterializeFireKeeps ==
    ASSUME IInv, MaterializeFire
    PROVE  IInv'
  <1> DEFINE n == [node EXCEPT !.materializeTimer = FALSE]
  <1>1. node \in NodeState /\ drain \in [active : BOOLEAN, todo : SUBSET Records]
    BY DEF IInv, TypeOK
  <1>2. /\ n \in NodeState /\ n.pending = node.pending
        /\ n.seen = node.seen /\ n.retry = node.retry /\ n.overflow = node.overflow
        /\ n.retryTimer = node.retryTimer /\ n.admitted = node.admitted
    BY <1>1 DEF NodeState
  <1>3. Reconcile(n)
    BY DEF MaterializeFire
  <1>4. materialized # node.admitted => drain.active \/ node.pending
    BY DEF IInv, StaleViewIsPending
  <1> HIDE DEF n
  <1> QED  BY <1>1, <1>2, <1>3, <1>4, ReconcileKeeps DEF MaterializeFire

\* A save changes the snapshot only.
LEMMA SaveKeeps ==
    ASSUME IInv, Save
    PROVE  IInv'
  <1>1. TypeOK'
    BY DEF IInv, TypeOK, Save, Store, NodeState
  <1>2. NothingForgotten' /\ RetryStaysArmed' /\ StaleViewIsPending'
    BY DEF IInv, NothingForgotten, RetryStaysArmed, StaleViewIsPending, Save
  <1> QED  BY <1>1, <1>2 DEF IInv

\* A restart begins with nothing waiting and the whole history to read.
LEMMA RestartKeeps ==
    ASSUME IInv, Restart
    PROVE  IInv'
  <1>1. Cardinality({}) <= Capacity
    BY FS_EmptySet, NodeAssumption
  <1>2. restarts' \in 0 .. MaxRestarts
    BY NodeAssumption DEF IInv, TypeOK, Restart
  <1>3. node' \in NodeState /\ node'.retry = {} /\ ~node'.overflow
    BY DEF IInv, TypeOK, Restart, NodeState, Store
  <1>4. passes' \in [Passes -> Pass]
    BY DEF Restart, Pass, Idle
  <1>5. TypeOK'
    BY <1>1, <1>2, <1>3, <1>4 DEF IInv, TypeOK, Restart
  <1>6. NothingForgotten' /\ RetryStaysArmed' /\ StaleViewIsPending'
    BY <1>3 DEF NothingForgotten, RetryStaysArmed, StaleViewIsPending, Restart
  <1> QED  BY <1>5, <1>6 DEF IInv

---------------------------------------------------------------------------
(* Theorems *)

\* A new node has nothing to read and nothing waiting.
LEMMA InitIInv == Init => IInv
  <1> SUFFICES ASSUME Init PROVE IInv
    OBVIOUS
  <1>1. Cardinality({}) <= Capacity
    BY FS_EmptySet, NodeAssumption
  <1>2. TypeOK
    BY <1>1, NodeAssumption DEF Init, TypeOK, NodeState, Pass, Idle, Store
  <1>3. NothingForgotten /\ RetryStaysArmed /\ StaleViewIsPending
    BY DEF Init, NothingForgotten, RetryStaysArmed, StaleViewIsPending
  <1> QED  BY <1>2, <1>3 DEF IInv

\* Every step of the node keeps the invariant.
LEMMA StepKeeps == IInv /\ [Next]_vars => IInv'
  <1> SUFFICES ASSUME IInv, [Next]_vars PROVE IInv'
    OBVIOUS
  <1>1. ASSUME NEW p \in Passes, PassStep(p) PROVE IInv'
    BY <1>1, RetryRecordKeeps, RetryRecordsDoneKeeps, FetchHistoryKeeps, FetchHistoryFailsKeeps,
       RescanCheckKeeps, RescanRecordKeeps, RescanDoneKeeps DEF PassStep
  <1>2. CASE UNCHANGED vars
    BY <1>2 DEF vars, IInv, TypeOK, NothingForgotten, RetryStaysArmed, StaleViewIsPending
  <1> QED
    BY <1>1, <1>2, AppendKeeps, ConsumeKeeps, DrainKeeps, RetryFireKeeps, StartedKeeps,
       DebounceFireKeeps, MaterializeFireKeeps, SaveKeeps, RestartKeeps DEF Next

\* The invariant holds in every reachable state.
THEOREM Invariance == Spec => []IInv
  BY InitIInv, StepKeeps, PTL DEF Spec

\* The fields of the node keep their types, and the retry set its capacity.
THEOREM TypeCorrect == Spec => []TypeOK
  <1>1. IInv => TypeOK
    BY DEF IInv
  <1> QED  BY <1>1, Invariance, PTL

\* No record of the transport is forgotten by ingest, the retry passes and the
\* rescans of #scheduleIngestionRetry, however many of them overlap.
THEOREM NeverForgotten == Spec => []NothingForgotten
  <1>1. IInv => NothingForgotten
    BY DEF IInv
  <1> QED  BY <1>1, Invariance, PTL

\* Whatever waits for a retry has a timer or a pass that will look at it.
THEOREM AlwaysArmed == Spec => []RetryStaysArmed
  <1>1. IInv => RetryStaysArmed
    BY DEF IInv
  <1> QED  BY <1>1, Invariance, PTL

\* Published state that is behind admission is due for #reconcileMaterializer.
THEOREM StaleViewIsDue == Spec => []StaleViewIsPending
  <1>1. IInv => StaleViewIsPending
    BY DEF IInv
  <1> QED  BY <1>1, Invariance, PTL
=============================================================================
