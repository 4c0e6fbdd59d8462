------------------------- MODULE ControlStoreProofs -------------------------
(***************************************************************************)
(* The admitted order is sorted and exact, and every snapshot verifies,    *)
(* for any number of transactions, attestations and retained deltas.       *)
(***************************************************************************)
EXTENDS ControlStore, TransactionOrderProofs

\* The retained deltas are numbered without a gap from the floor.
DeltasOK(s) ==
    /\ Len(s.deltas) <= MaximumRetainedDeltas
    /\ s.sequence = s.deltaFloor + Len(s.deltas)
    /\ \A i \in 1 .. Len(s.deltas) : s.deltas[i].sequence = s.deltaFloor + i

Exact(s) ==
    \A tx \in Txs : (\E i \in DOMAIN s.orderedTxIds : s.orderedTxIds[i] = tx)
                       <=> s.candidates[tx] = "admissible"

Proved(s) == \A tx \in Txs : ValidProof(s, tx, s.proofs[tx])

Covered(s) ==
    /\ s.head.orderLength <= Len(s.orderedTxIds)
    /\ \A c \in s.checkpoints : c.prefixLength <= Len(s.orderedTxIds)

StoreInv(s) ==
    /\ s \in Store
    /\ DeltasOK(s)
    /\ StrictlySorted(s.orderedTxIds, Key)
    /\ Exact(s)
    /\ Proved(s)
    /\ Covered(s)

\* The inductive invariant: the object and its snapshot are both sound.
IInv ==
    /\ StoreInv(store)
    /\ StoreInv(disk)
    /\ saveRequested \in BOOLEAN
    /\ incarnation \in Nat

---------------------------------------------------------------------------

\* The fields of a store, one by one.
LEMMA StoreFields ==
    ASSUME NEW s \in Store
    PROVE  /\ s.candidates \in [Txs -> CandidateState \cup {"absent"}]
           /\ s.proofs \in [Txs -> SUBSET Attestations]
           /\ s.attestations \in SUBSET Attestations
           /\ s.orderedTxIds \in Seq(Txs)
           /\ s.sequence \in Nat
           /\ s.deltaFloor \in Nat
           /\ s.deltas \in Seq(Delta)
           /\ s.heartbeats \in [Validators -> [sequence : Nat, cutoff : Nat, contiguous : BOOLEAN]]
           /\ s.head \in [revision : Nat, orderLength : Nat]
           /\ s.checkpoints \in SUBSET Checkpoints
           /\ s.reopenings \in SUBSET Reopenings
  BY DEF Store

\* r differs from s at most in the delta log.
SameIndex(r, s) ==
    /\ r.candidates = s.candidates
    /\ r.proofs = s.proofs
    /\ r.attestations = s.attestations
    /\ r.orderedTxIds = s.orderedTxIds
    /\ r.heartbeats = s.heartbeats
    /\ r.head = s.head
    /\ r.checkpoints = s.checkpoints
    /\ r.reopenings = s.reopenings

\* Growing or trimming the delta log leaves a store.
Grown(s, q, ds) == [s EXCEPT !.sequence = q, !.deltas = ds]

Trimmed(s, f, ds) == [s EXCEPT !.deltas = ds, !.deltaFloor = f]

LEMMA LogGrown ==
    ASSUME NEW s \in Store, NEW q \in Nat, NEW ds \in Seq(Delta)
    PROVE  /\ Grown(s, q, ds) \in Store
           /\ Grown(s, q, ds).sequence = q
           /\ Grown(s, q, ds).deltas = ds
           /\ Grown(s, q, ds).deltaFloor = s.deltaFloor
           /\ SameIndex(Grown(s, q, ds), s)
  <1>1. Grown(s, q, ds) \in Store
    BY DEF Store, Grown
  <1> QED  BY <1>1 DEF Store, SameIndex, Grown

LEMMA LogTrimmed ==
    ASSUME NEW s \in Store, NEW f \in Nat, NEW ds \in Seq(Delta)
    PROVE  /\ Trimmed(s, f, ds) \in Store
           /\ Trimmed(s, f, ds).sequence = s.sequence
           /\ Trimmed(s, f, ds).deltas = ds
           /\ Trimmed(s, f, ds).deltaFloor = f
           /\ SameIndex(Trimmed(s, f, ds), s)
  <1>1. Trimmed(s, f, ds) \in Store
    BY DEF Store, Trimmed
  <1> QED  BY <1>1 DEF Store, SameIndex, Trimmed

\* #appendDelta and #trimDeltas keep the log gapless and within its bound,
\* and touch nothing else.
LEMMA AppendDeltaFacts ==
    ASSUME NEW s \in Store, DeltasOK(s),
           NEW kind \in DeltaKind, NEW tx \in Txs \cup {None}, NEW index \in Nat
    PROVE  /\ AppendDelta(s, kind, tx, index) \in Store
           /\ DeltasOK(AppendDelta(s, kind, tx, index))
           /\ SameIndex(AppendDelta(s, kind, tx, index), s)
  <1> DEFINE d == [sequence |-> s.sequence + 1, kind |-> kind, txId |-> tx, index |-> index]
             n == Len(s.deltas)
             grown == Append(s.deltas, d)
             longer == Grown(s, s.sequence + 1, grown)
             r == AppendDelta(s, kind, tx, index)
             Max == MaximumRetainedDeltas
  <1>1. s.sequence \in Nat /\ s.deltaFloor \in Nat /\ s.deltas \in Seq(Delta) /\ n \in Nat
    BY StoreFields
  <1>2. d \in Delta /\ d.sequence = s.sequence + 1
    BY <1>1 DEF Delta
  <1>3. /\ n <= Max /\ s.sequence = s.deltaFloor + n
        /\ \A i \in 1 .. n : s.deltas[i].sequence = s.deltaFloor + i
    BY DEF DeltasOK
  <1>4. r = TrimDeltas(longer)
    BY DEF AppendDelta, Grown
  <1>5. Max \in Nat \ {0}
    BY ControlStoreAssumption DEF ControlStoreAssumption
  <1> HIDE DEF d, r
  <1>6. /\ grown \in Seq(Delta) /\ Len(grown) = n + 1
        /\ \A i \in 1 .. n : grown[i] = s.deltas[i]
        /\ grown[n + 1] = d
    BY <1>1, <1>2
  <1> HIDE DEF grown
  <1>7. \A i \in 1 .. n + 1 : grown[i] \in Delta /\ grown[i].sequence = s.deltaFloor + i
    <2> SUFFICES ASSUME NEW i \in 1 .. n + 1 PROVE grown[i] \in Delta /\ grown[i].sequence = s.deltaFloor + i
      OBVIOUS
    <2>1. grown[i] \in Delta
      BY <1>1, <1>6
    <2>2. CASE i \in 1 .. n
      BY <1>3, <1>6, <2>1, <2>2
    <2>3. CASE i = n + 1
      <3>1. grown[i] = d /\ d.sequence = s.sequence + 1 /\ s.sequence + 1 = s.deltaFloor + (n + 1)
        <4>1. s.sequence + 1 = s.deltaFloor + (n + 1)
          BY <1>1, <1>3
        <4> QED  BY <1>2, <1>6, <2>3, <4>1
      <3> QED  BY <2>1, <2>3, <3>1
    <2>4. i \in 1 .. n \/ i = n + 1
      BY <1>1
    <2> QED  BY <2>2, <2>3, <2>4
  <1>8. /\ longer \in Store /\ longer.deltas = grown /\ longer.sequence = s.sequence + 1
        /\ longer.deltaFloor = s.deltaFloor /\ SameIndex(longer, s)
    <2>1. s.sequence + 1 \in Nat
      BY <1>1
    <2> QED  BY <1>6, <2>1, LogGrown, SMTT(30)
  <1> HIDE DEF longer
  <1>9. CASE n + 1 <= Max
    <2>1. r = longer
      BY <1>1, <1>4, <1>5, <1>6, <1>8, <1>9 DEF TrimDeltas, Excess
    <2>2. DeltasOK(longer)
      <3>1. s.sequence + 1 = s.deltaFloor + (n + 1)
        BY <1>1, <1>3
      <3> HIDE DEF n
      <3> QED  BY <1>6, <1>7, <1>8, <1>9, <3>1 DEF DeltasOK
    <2> QED  BY <1>8, <2>1, <2>2 DEF r
  <1>10. CASE n + 1 > Max
    <2> DEFINE kept == [i \in 1 .. Max |-> grown[i + 1]]
    <2>1. n = Max /\ Excess(longer) = 1
      BY <1>1, <1>3, <1>5, <1>6, <1>8, <1>10 DEF Excess
    <2>2. r = Trimmed(longer, grown[1].sequence, kept)
      BY <1>4, <1>8, <2>1 DEF TrimDeltas, Trimmed
    <2>3. grown[1].sequence = s.deltaFloor + 1
      BY <1>1, <1>7
    <2>4. \A i \in 1 .. Max : kept[i] \in Delta /\ kept[i].sequence = s.deltaFloor + 1 + i
      <3> SUFFICES ASSUME NEW i \in 1 .. Max
                   PROVE  kept[i] \in Delta /\ kept[i].sequence = s.deltaFloor + 1 + i
        OBVIOUS
      <3>1. i + 1 \in 1 .. n + 1 /\ kept[i] = grown[i + 1]
        BY <1>5, <2>1
      <3>2. s.deltaFloor + (i + 1) = s.deltaFloor + 1 + i
        BY <1>1
      <3>3. grown[i + 1] \in Delta /\ grown[i + 1].sequence = s.deltaFloor + (i + 1)
        BY <1>7, <3>1
      <3> QED  BY <3>1, <3>2, <3>3
    <2>5. kept \in Seq(Delta) /\ Len(kept) = Max
      <3>1. kept \in [1 .. Max -> Delta]
        BY <2>4
      <3> QED  BY <1>5, <3>1
    <2> HIDE DEF kept
    <2>6. /\ r \in Store /\ r.deltas = kept /\ r.deltaFloor = s.deltaFloor + 1
          /\ r.sequence = s.sequence + 1 /\ SameIndex(r, s)
      <3>1. s.deltaFloor + 1 \in Nat
        BY <1>1
      <3>2. /\ r \in Store /\ r.deltas = kept /\ r.deltaFloor = s.deltaFloor + 1
            /\ r.sequence = longer.sequence /\ SameIndex(r, longer)
        BY <1>8, <2>2, <2>3, <2>5, <3>1, LogTrimmed, SMTT(30)
      <3> QED  BY <1>8, <3>1, <3>2 DEF SameIndex
    <2>7. DeltasOK(r)
      BY <1>1, <1>3, <1>5, <2>1, <2>4, <2>5, <2>6 DEF DeltasOK
    <2> QED  BY <2>6, <2>7 DEF r
  <1> QED  BY <1>1, <1>5, <1>9, <1>10

\* s is sound except that tx has been admitted and is not yet in the order.
AwaitsInsert(s, tx) ==
    /\ s \in Store
    /\ DeltasOK(s)
    /\ StrictlySorted(s.orderedTxIds, Key)
    /\ s.candidates[tx] = "admissible"
    /\ \A i \in DOMAIN s.orderedTxIds : s.orderedTxIds[i] # tx
    /\ \A t \in Txs \ {tx} : (\E i \in DOMAIN s.orderedTxIds : s.orderedTxIds[i] = t)
                                <=> s.candidates[t] = "admissible"
    /\ Proved(s)
    /\ Covered(s)

\* A delta more changes neither.
LEMMA AppendKeeps ==
    ASSUME NEW s \in Store, NEW tx \in Txs,
           NEW kind \in DeltaKind, NEW named \in Txs \cup {None}, NEW index \in Nat
    PROVE  /\ StoreInv(s) => StoreInv(AppendDelta(s, kind, named, index))
           /\ AwaitsInsert(s, tx) => AwaitsInsert(AppendDelta(s, kind, named, index), tx)
  <1> DEFINE r == AppendDelta(s, kind, named, index)
  <1>1. DeltasOK(s) => r \in Store /\ DeltasOK(r) /\ SameIndex(r, s)
    BY AppendDeltaFacts
  <1> HIDE DEF r
  <1>2. ASSUME StoreInv(s) PROVE StoreInv(r)
    BY <1>1, <1>2 DEF StoreInv, SameIndex, Exact, Proved, ValidProof, Covered
  <1>3. ASSUME AwaitsInsert(s, tx) PROVE AwaitsInsert(r, tx)
    BY <1>1, <1>3 DEF AwaitsInsert, SameIndex, Proved, ValidProof, Covered
  <1> QED  BY <1>2, <1>3 DEF r

Reordered(s, order) == [s EXCEPT !.orderedTxIds = order]

LEMMA ReorderedFacts ==
    ASSUME NEW s \in Store, NEW order \in Seq(Txs)
    PROVE  /\ Reordered(s, order) \in Store
           /\ Reordered(s, order).orderedTxIds = order
           /\ Reordered(s, order).candidates = s.candidates
           /\ Reordered(s, order).heartbeats = s.heartbeats
           /\ Reordered(s, order).proofs = s.proofs
           /\ Reordered(s, order).attestations = s.attestations
           /\ Reordered(s, order).head = s.head
           /\ Reordered(s, order).checkpoints = s.checkpoints
           /\ Reordered(s, order).sequence = s.sequence
           /\ Reordered(s, order).deltaFloor = s.deltaFloor
           /\ Reordered(s, order).deltas = s.deltas
  <1>1. Reordered(s, order) \in Store
    BY DEF Store, Reordered
  <1> QED  BY <1>1 DEF Store, Reordered

\* #insertOrder completes an admission.
LEMMA InsertCompletes ==
    ASSUME NEW s, NEW tx \in Txs, AwaitsInsert(s, tx), NEW r \in InsertOrderedTx(s, tx)
    PROVE  StoreInv(r) /\ r.candidates = s.candidates /\ r.heartbeats = s.heartbeats
  <1> DEFINE order == s.orderedTxIds
  <1>1. /\ s \in Store /\ order \in Seq(Txs) /\ Len(order) \in Nat /\ StrictlySorted(order, Key)
        /\ \A i \in DOMAIN order : order[i] # tx
    BY StoreFields DEF AwaitsInsert
  <1>2. PICK low \in {l \in 0 .. Len(order) : SearchExit(order, Key, tx, l)} :
            r = IF low < Len(order) /\ order[low + 1] = tx
                THEN s
                ELSE AppendDelta([s EXCEPT !.orderedTxIds = Spliced(order, low, tx)],
                        IF low = Len(order) THEN "order_append" ELSE "order_insert", tx, low)
    BY DEF InsertOrderedTx
  <1>3. low \in 0 .. Len(order) /\ low \in Nat /\ SearchExit(order, Key, tx, low)
    BY <1>1, <1>2
  <1> DEFINE new == Spliced(order, low, tx)
             kind == IF low = Len(order) THEN "order_append" ELSE "order_insert"
  <1>4. r = AppendDelta(Reordered(s, new), kind, tx, low)
    <2>1. ~(low < Len(order) /\ order[low + 1] = tx)
      BY <1>1, <1>3
    <2> QED  BY <1>2, <2>1 DEF Reordered
  <1>5. /\ new \in Seq(Txs) /\ Len(new) = Len(order) + 1 /\ StrictlySorted(new, Key)
        /\ \A t \in Txs : (\E i \in DOMAIN new : new[i] = t) <=> (t = tx \/ \E i \in DOMAIN order : order[i] = t)
    <2>1. Key \in [Txs -> OrderKeys] /\ \A t, u \in Txs : t # u => Key[t].txId # Key[u].txId
      BY ControlStoreAssumption DEF ControlStoreAssumption
    <2>2. SpliceFacts(Txs, Key, order, tx, low)
      BY <1>1, <1>3, <2>1, InsertFacts
    <2> QED  BY <2>2 DEF SpliceFacts
  <1>6. kind \in DeltaKind
    BY DEF DeltaKind
  <1> HIDE DEF new, kind
  <1> DEFINE u == Reordered(s, new)
  <1>7. /\ u \in Store /\ u.orderedTxIds = new /\ u.candidates = s.candidates /\ u.proofs = s.proofs
        /\ u.attestations = s.attestations /\ u.head = s.head /\ u.checkpoints = s.checkpoints
        /\ u.sequence = s.sequence /\ u.deltaFloor = s.deltaFloor /\ u.deltas = s.deltas
        /\ u.heartbeats = s.heartbeats
    BY <1>1, <1>5, ReorderedFacts
  <1> HIDE DEF u
  <1>8. Exact(u)
    BY <1>5, <1>7 DEF Exact, AwaitsInsert
  <1>9. Covered(u)
    <2>1. s.head.orderLength \in Nat /\ \A c \in s.checkpoints : c.prefixLength \in Nat
      <3>1. s.head \in [revision : Nat, orderLength : Nat] /\ s.checkpoints \subseteq Checkpoints
        BY <1>1, StoreFields
      <3>2. Checkpoints \subseteq [prefixLength : Nat, pinned : BOOLEAN]
        BY ControlStoreAssumption DEF ControlStoreAssumption
      <3> QED  BY <3>1, <3>2
    <2>2. Len(new) = Len(order) + 1 /\ Covered(s)
      BY <1>5 DEF AwaitsInsert
    <2> QED  BY <1>1, <1>7, <2>1, <2>2 DEF Covered
  <1>10. DeltasOK(u) /\ Proved(u)
    BY <1>7 DEF AwaitsInsert, DeltasOK, Proved, ValidProof
  <1>11. StoreInv(u)
    BY <1>5, <1>7, <1>8, <1>9, <1>10 DEF StoreInv
  <1>12. r = AppendDelta(u, kind, tx, low) /\ StoreInv(AppendDelta(u, kind, tx, low))
    BY <1>3, <1>4, <1>6, <1>7, <1>11, AppendKeeps DEF u
  <1>13. SameIndex(AppendDelta(u, kind, tx, low), u)
    BY <1>3, <1>6, <1>7, <1>10, AppendDeltaFacts
  <1> QED  BY <1>7, <1>12, <1>13 DEF SameIndex

---------------------------------------------------------------------------
(* The operations, one lemma each.                                         *)

\* What no operation of a running store undoes.
Advances(s, r) ==
    /\ \A tx \in Txs : s.candidates[tx] \in Terminal \cup {"admissible"} => r.candidates[tx] = s.candidates[tx]
    /\ \A v \in Validators : /\ r.heartbeats[v].sequence >= s.heartbeats[v].sequence
                             /\ r.heartbeats[v].cutoff >= s.heartbeats[v].cutoff

LEMMA AdvancesSame ==
    ASSUME NEW s \in Store, NEW r, r.heartbeats = s.heartbeats,
           \A tx \in Txs : s.candidates[tx] \in Terminal \cup {"admissible"} => r.candidates[tx] = s.candidates[tx]
    PROVE  Advances(s, r)
  <1>1. \A v \in Validators : s.heartbeats[v].sequence \in Nat /\ s.heartbeats[v].cutoff \in Nat
    BY StoreFields
  <1> QED  BY <1>1 DEF Advances

Restated(s, tx, state, proof) == [s EXCEPT !.candidates[tx] = state, !.proofs[tx] = proof]

LEMMA RestatedFacts ==
    ASSUME NEW s \in Store, NEW tx \in Txs, NEW state \in CandidateState, NEW proof \in SUBSET Attestations
    PROVE  /\ Restated(s, tx, state, proof) \in Store
           /\ Restated(s, tx, state, proof).candidates = [s.candidates EXCEPT ![tx] = state]
           /\ Restated(s, tx, state, proof).proofs = [s.proofs EXCEPT ![tx] = proof]
           /\ Restated(s, tx, state, proof).orderedTxIds = s.orderedTxIds
           /\ Restated(s, tx, state, proof).attestations = s.attestations
           /\ Restated(s, tx, state, proof).heartbeats = s.heartbeats
           /\ Restated(s, tx, state, proof).head = s.head
           /\ Restated(s, tx, state, proof).checkpoints = s.checkpoints
           /\ Restated(s, tx, state, proof).sequence = s.sequence
           /\ Restated(s, tx, state, proof).deltaFloor = s.deltaFloor
           /\ Restated(s, tx, state, proof).deltas = s.deltas
  <1>1. Restated(s, tx, state, proof) \in Store
    BY DEF Store, Restated
  <1> QED  BY <1>1 DEF Store, Restated

\* A new state and proof for tx keep the store sound, unless tx is admitted
\* by them and still has to be inserted.
LEMMA RestateKeeps ==
    ASSUME NEW s, StoreInv(s), NEW tx \in Txs, NEW state \in CandidateState,
           NEW proof \in SUBSET Attestations, ValidProof(s, tx, proof),
           s.candidates[tx] = "admissible" => state = "admissible"
    PROVE  /\ Restated(s, tx, state, proof) \in Store
           /\ (s.candidates[tx] = "admissible" <=> state = "admissible")
                => StoreInv(Restated(s, tx, state, proof))
           /\ s.candidates[tx] # "admissible" /\ state = "admissible"
                => AwaitsInsert(Restated(s, tx, state, proof), tx)
           /\ DeltasOK(Restated(s, tx, state, proof))
           /\ Restated(s, tx, state, proof).heartbeats = s.heartbeats
           /\ Restated(s, tx, state, proof).candidates[tx] = state
           /\ \A t \in Txs \ {tx} : Restated(s, tx, state, proof).candidates[t] = s.candidates[t]
  <1> DEFINE r == Restated(s, tx, state, proof)
  <1>1. /\ r \in Store
        /\ r.candidates = [s.candidates EXCEPT ![tx] = state] /\ r.proofs = [s.proofs EXCEPT ![tx] = proof]
        /\ r.orderedTxIds = s.orderedTxIds /\ r.attestations = s.attestations
        /\ r.head = s.head /\ r.checkpoints = s.checkpoints
        /\ r.sequence = s.sequence /\ r.deltaFloor = s.deltaFloor /\ r.deltas = s.deltas
        /\ r.heartbeats = s.heartbeats
    BY RestatedFacts DEF StoreInv
  <1> HIDE DEF r
  <1>2. s.candidates \in [Txs -> CandidateState \cup {"absent"}] /\ s.proofs \in [Txs -> SUBSET Attestations]
    BY StoreFields DEF StoreInv
  <1>3. /\ r.candidates[tx] = state /\ r.proofs[tx] = proof
        /\ \A t \in Txs \ {tx} : r.candidates[t] = s.candidates[t] /\ r.proofs[t] = s.proofs[t]
    BY <1>1, <1>2
  <1>4. DeltasOK(r) /\ StrictlySorted(r.orderedTxIds, Key) /\ Covered(r)
    BY <1>1 DEF StoreInv, DeltasOK, Covered
  <1>5. Proved(r)
    BY <1>1, <1>3 DEF StoreInv, Proved, ValidProof
  <1>6. ASSUME s.candidates[tx] = "admissible" <=> state = "admissible" PROVE Exact(r)
    BY <1>1, <1>3, <1>6 DEF StoreInv, Exact
  <1>7. ASSUME s.candidates[tx] # "admissible", state = "admissible" PROVE AwaitsInsert(r, tx)
    BY <1>1, <1>3, <1>4, <1>5, <1>7 DEF StoreInv, Exact, AwaitsInsert
  <1> QED  BY <1>1, <1>3, <1>4, <1>5, <1>6, <1>7 DEF StoreInv, r

LEMMA SetCandidateStateKeeps ==
    ASSUME NEW s, StoreInv(s), NEW tx \in Txs, NEW state \in CandidateState,
           NEW proof \in SUBSET Attestations, NEW reworded \in BOOLEAN,
           NEW r \in SetCandidateState(s, tx, state, proof, reworded)
    PROVE  StoreInv(r) /\ Advances(s, r)
  <1> DEFINE u == Restated(s, tx, state, proof)
             v == AppendDelta(u, "candidate_state_changed", tx, 0)
  <1>1. CASE r = s
    BY <1>1, AdvancesSame DEF StoreInv
  <1>2. CASE /\ ValidStateTransition(s.candidates[tx], state)
             /\ ValidProof(s, tx, proof)
             /\ IF s.candidates[tx] # "admissible" /\ state = "admissible"
                THEN r \in InsertOrderedTx(v, tx)
                ELSE r = v
    <2>1. s.candidates[tx] = "admissible" => state = "admissible"
      BY <1>2 DEF ValidStateTransition
    <2>2. /\ u \in Store
          /\ (s.candidates[tx] = "admissible" <=> state = "admissible") => StoreInv(u)
          /\ s.candidates[tx] # "admissible" /\ state = "admissible" => AwaitsInsert(u, tx)
          /\ DeltasOK(u) /\ u.heartbeats = s.heartbeats /\ u.candidates[tx] = state
          /\ \A t \in Txs \ {tx} : u.candidates[t] = s.candidates[t]
      BY <1>2, <2>1, RestateKeeps
    <2>3. "candidate_state_changed" \in DeltaKind /\ 0 \in Nat
      BY DEF DeltaKind
    <2>f. \A t \in Txs : s.candidates[t] \in Terminal \cup {"admissible"} => u.candidates[t] = s.candidates[t]
      <3>1. s.candidates[tx] \in Terminal \cup {"admissible"} => state = s.candidates[tx]
        BY <1>2 DEF ValidStateTransition, Terminal
      <3> HIDE DEF u
      <3> QED  BY <2>2, <3>1
    <2> HIDE DEF u
    <2>4. (StoreInv(u) => StoreInv(v)) /\ (AwaitsInsert(u, tx) => AwaitsInsert(v, tx))
      BY <2>2, <2>3, AppendKeeps
    <2>5. SameIndex(v, u)
      BY <2>2, <2>3, AppendDeltaFacts
    <2> HIDE DEF v
    <2>6. StoreInv(r) /\ r.candidates = v.candidates /\ r.heartbeats = v.heartbeats
      BY <1>2, <2>1, <2>2, <2>4, InsertCompletes
    <2>7. Advances(s, r)
      BY <2>2, <2>5, <2>6, <2>f, AdvancesSame DEF SameIndex, StoreInv
    <2> QED  BY <2>6, <2>7
  <1> QED  BY <1>1, <1>2 DEF SetCandidateState, Restated

LEMMA PutCandidateKeeps ==
    ASSUME NEW s, StoreInv(s), NEW tx \in Txs, NEW state \in CandidateState,
           NEW r \in PutCandidate(s, tx, state)
    PROVE  StoreInv(r) /\ Advances(s, r)
  <1> DEFINE u == Restated(s, tx, state, s.proofs[tx])
             v == AppendDelta(u, "candidate_added", tx, 0)
  <1>0. s \in Store /\ s.proofs[tx] \in SUBSET Attestations /\ ValidProof(s, tx, s.proofs[tx])
    BY StoreFields DEF StoreInv, Proved
  <1>1. CASE r = s
    BY <1>1, AdvancesSame DEF StoreInv
  <1>2. CASE /\ s.candidates[tx] = "absent"
             /\ IF state = "admissible" THEN r \in InsertOrderedTx(v, tx) ELSE r = v
    <2>2. /\ u \in Store
          /\ (s.candidates[tx] = "admissible" <=> state = "admissible") => StoreInv(u)
          /\ s.candidates[tx] # "admissible" /\ state = "admissible" => AwaitsInsert(u, tx)
          /\ DeltasOK(u) /\ u.heartbeats = s.heartbeats /\ u.candidates[tx] = state
          /\ \A t \in Txs \ {tx} : u.candidates[t] = s.candidates[t]
      BY <1>0, <1>2, RestateKeeps
    <2>3. "candidate_added" \in DeltaKind /\ 0 \in Nat
      BY DEF DeltaKind
    <2>f. \A t \in Txs : s.candidates[t] \in Terminal \cup {"admissible"} => u.candidates[t] = s.candidates[t]
      <3>1. s.candidates[tx] \notin Terminal \cup {"admissible"}
        BY <1>2 DEF ValidStateTransition, Terminal
      <3> HIDE DEF u
      <3> QED  BY <2>2, <3>1
    <2> HIDE DEF u
    <2>4. (StoreInv(u) => StoreInv(v)) /\ (AwaitsInsert(u, tx) => AwaitsInsert(v, tx))
      BY <2>2, <2>3, AppendKeeps
    <2>5. SameIndex(v, u)
      BY <2>2, <2>3, AppendDeltaFacts
    <2> HIDE DEF v
    <2>6. StoreInv(r) /\ r.candidates = v.candidates /\ r.heartbeats = v.heartbeats
      BY <1>2, <2>2, <2>4, InsertCompletes
    <2>7. Advances(s, r)
      BY <2>2, <2>5, <2>6, <2>f, AdvancesSame DEF SameIndex, StoreInv
    <2> QED  BY <2>6, <2>7
  <1>3. [s EXCEPT !.candidates[tx] = state] = u
    <2>1. s.proofs = [s.proofs EXCEPT ![tx] = s.proofs[tx]]
      BY <1>0, StoreFields
    <2> QED  BY <1>0, <2>1 DEF Restated, Store
  <1> QED  BY <1>1, <1>2, <1>3 DEF PutCandidate

\* An operation that leaves candidates, order and log alone, followed by the
\* delta that reports it.
LEMMA SideKeeps ==
    ASSUME NEW s, StoreInv(s), NEW u \in Store,
           u.candidates = s.candidates, u.proofs = s.proofs, u.orderedTxIds = s.orderedTxIds,
           u.sequence = s.sequence, u.deltaFloor = s.deltaFloor, u.deltas = s.deltas,
           s.attestations \subseteq u.attestations, Covered(u),
           \A v \in Validators : /\ u.heartbeats[v].sequence >= s.heartbeats[v].sequence
                                 /\ u.heartbeats[v].cutoff >= s.heartbeats[v].cutoff,
           NEW kind \in DeltaKind, NEW named \in Txs \cup {None}
    PROVE  /\ StoreInv(AppendDelta(u, kind, named, 0))
           /\ Advances(s, AppendDelta(u, kind, named, 0))
  <1>1. DeltasOK(u) /\ Exact(u) /\ Proved(u) /\ StrictlySorted(u.orderedTxIds, Key)
    BY DEF StoreInv, DeltasOK, Exact, Proved, ValidProof
  <1>2. StoreInv(u)
    BY <1>1 DEF StoreInv
  <1>3. /\ AppendDelta(u, kind, named, 0) \in Store
        /\ DeltasOK(AppendDelta(u, kind, named, 0))
        /\ SameIndex(AppendDelta(u, kind, named, 0), u)
    BY <1>1, AppendDeltaFacts
  <1> DEFINE r == AppendDelta(u, kind, named, 0)
  <1> HIDE DEF r
  <1>4. StoreInv(r)
    BY <1>2, <1>3 DEF StoreInv, SameIndex, Exact, Proved, ValidProof, Covered, r
  <1>5. Advances(s, r)
    BY <1>3 DEF Advances, SameIndex, r
  <1> QED  BY <1>4, <1>5 DEF r

\* The heartbeats of a store compare with themselves.
LEMMA HeartbeatsTyped ==
    ASSUME NEW s \in Store, NEW v \in Validators
    PROVE  /\ s.heartbeats[v].sequence \in Nat /\ s.heartbeats[v].cutoff \in Nat
           /\ s.heartbeats[v].sequence >= s.heartbeats[v].sequence
           /\ s.heartbeats[v].cutoff >= s.heartbeats[v].cutoff
  BY StoreFields

LEMMA PutAttestationKeeps ==
    ASSUME NEW s, StoreInv(s), NEW a \in Attestations, NEW r \in PutAttestation(s, a)
    PROVE  StoreInv(r) /\ Advances(s, r)
  <1> DEFINE u == [s EXCEPT !.attestations = @ \cup {a}]
  <1>0. s \in Store /\ AttestedTx[a] \in Txs \cup {None} /\ "attestation_added" \in DeltaKind
    BY ControlStoreAssumption DEF StoreInv, ControlStoreAssumption, DeltaKind
  <1>1. CASE r = s
    BY <1>0, <1>1, AdvancesSame
  <1>2. CASE r = AppendDelta(u, "attestation_added", AttestedTx[a], 0)
    <2>1. u \in Store
      BY <1>0 DEF Store
    <2>2. /\ u.candidates = s.candidates /\ u.proofs = s.proofs /\ u.orderedTxIds = s.orderedTxIds
          /\ u.sequence = s.sequence /\ u.deltaFloor = s.deltaFloor /\ u.deltas = s.deltas
          /\ s.attestations \subseteq u.attestations /\ u.heartbeats = s.heartbeats
          /\ u.head = s.head /\ u.checkpoints = s.checkpoints
      BY <1>0 DEF Store
    <2> HIDE DEF u
    <2>3. Covered(u)
      BY <2>2 DEF Covered, StoreInv
    <2> QED  BY <1>0, <1>2, <2>1, <2>2, <2>3, HeartbeatsTyped, SideKeeps
  <1> QED  BY <1>1, <1>2 DEF PutAttestation

LEMMA RecordHeartbeatKeeps ==
    ASSUME NEW s, StoreInv(s), NEW v \in Validators,
           NEW hb \in [sequence : Nat, cutoff : Nat, contiguous : BOOLEAN], NEW r \in RecordHeartbeat(s, v, hb)
    PROVE  StoreInv(r) /\ Advances(s, r)
  <1> DEFINE u == [s EXCEPT !.heartbeats[v] = hb]
  <1>0. s \in Store /\ None \in Txs \cup {None} /\ "heartbeat_advanced" \in DeltaKind
    BY DEF StoreInv, DeltaKind
  <1>1. CASE r = s
    BY <1>0, <1>1, AdvancesSame
  <1>2. CASE /\ r = AppendDelta(u, "heartbeat_advanced", None, 0)
             /\ ~(hb.sequence <= s.heartbeats[v].sequence) /\ ~(hb.cutoff < s.heartbeats[v].cutoff)
    <2>1. u \in Store
      BY <1>0 DEF Store
    <2>2. /\ u.candidates = s.candidates /\ u.proofs = s.proofs /\ u.orderedTxIds = s.orderedTxIds
          /\ u.sequence = s.sequence /\ u.deltaFloor = s.deltaFloor /\ u.deltas = s.deltas
          /\ u.attestations = s.attestations
          /\ u.head = s.head /\ u.checkpoints = s.checkpoints
          /\ u.heartbeats = [s.heartbeats EXCEPT ![v] = hb]
      BY <1>0 DEF Store
    <2> HIDE DEF u
    <2>3. Covered(u)
      BY <2>2 DEF Covered, StoreInv
    <2>4. ASSUME NEW w \in Validators
          PROVE  /\ u.heartbeats[w].sequence >= s.heartbeats[w].sequence
                 /\ u.heartbeats[w].cutoff >= s.heartbeats[w].cutoff
      <3>1. s.heartbeats \in [Validators -> [sequence : Nat, cutoff : Nat, contiguous : BOOLEAN]]
        BY <1>0, StoreFields
      <3>2. CASE w = v
        BY <1>2, <2>2, <3>1, <3>2
      <3>3. CASE w # v
        BY <1>0, <2>2, <3>1, <3>3, HeartbeatsTyped
      <3> QED  BY <3>2, <3>3
    <2> QED  BY <1>0, <1>2, <2>1, <2>2, <2>3, <2>4, SideKeeps
  <1> QED  BY <1>1, <1>2 DEF RecordHeartbeat

LEMMA PublishMaterializedHeadKeeps ==
    ASSUME NEW s, StoreInv(s), NEW head \in Heads, NEW r \in PublishMaterializedHead(s, head)
    PROVE  StoreInv(r) /\ Advances(s, r)
  <1> DEFINE u == [s EXCEPT !.head = head]
  <1>0. /\ s \in Store /\ None \in Txs \cup {None} /\ "materialized_head_published" \in DeltaKind
        /\ head \in [revision : Nat, orderLength : Nat] /\ Len(s.orderedTxIds) \in Nat
    BY ControlStoreAssumption, StoreFields DEF StoreInv, DeltaKind, ControlStoreAssumption
  <1>1. CASE r = s
    BY <1>0, <1>1, AdvancesSame
  <1>2. CASE /\ r = AppendDelta(u, "materialized_head_published", None, 0)
             /\ ~(head.orderLength > Len(s.orderedTxIds))
    <2>1. u \in Store
      BY <1>0 DEF Store
    <2>2. /\ u.candidates = s.candidates /\ u.proofs = s.proofs /\ u.orderedTxIds = s.orderedTxIds
          /\ u.sequence = s.sequence /\ u.deltaFloor = s.deltaFloor /\ u.deltas = s.deltas
          /\ u.attestations = s.attestations /\ u.heartbeats = s.heartbeats
          /\ u.head = head /\ u.checkpoints = s.checkpoints
      BY <1>0 DEF Store
    <2> HIDE DEF u
    <2>3. Covered(u)
      BY <1>0, <1>2, <2>2 DEF Covered, StoreInv
    <2> QED  BY <1>0, <1>2, <2>1, <2>2, <2>3, HeartbeatsTyped, SideKeeps
  <1> QED  BY <1>1, <1>2 DEF PublishMaterializedHead

LEMMA PutCheckpointKeeps ==
    ASSUME NEW s, StoreInv(s), NEW checkpoint \in Checkpoints, NEW r \in PutCheckpoint(s, checkpoint)
    PROVE  StoreInv(r) /\ Advances(s, r)
  <1> DEFINE previous == {c \in s.checkpoints : c.prefixLength = checkpoint.prefixLength}
             u == [s EXCEPT !.checkpoints = (@ \ previous) \cup {checkpoint}]
  <1>0. /\ s \in Store /\ None \in Txs \cup {None} /\ "checkpoint_stored" \in DeltaKind
        /\ checkpoint.prefixLength \in Nat /\ Len(s.orderedTxIds) \in Nat
    <2>1. s \in Store /\ None \in Txs \cup {None} /\ "checkpoint_stored" \in DeltaKind
      BY DEF StoreInv, DeltaKind
    <2>2. checkpoint.prefixLength \in Nat
      BY ControlStoreAssumption DEF ControlStoreAssumption
    <2>3. s.orderedTxIds \in Seq(Txs)
      BY <2>1, StoreFields
    <2> QED  BY <2>1, <2>2, <2>3
  <1>1. CASE r = s
    BY <1>0, <1>1, AdvancesSame
  <1>2. CASE /\ r = AppendDelta(u, "checkpoint_stored", None, 0)
             /\ ~(checkpoint.prefixLength > Len(s.orderedTxIds))
    <2> HIDE DEF previous
    <2>1. u \in Store
      BY <1>0 DEF Store
    <2>2. /\ u.candidates = s.candidates /\ u.proofs = s.proofs /\ u.orderedTxIds = s.orderedTxIds
          /\ u.sequence = s.sequence /\ u.deltaFloor = s.deltaFloor /\ u.deltas = s.deltas
          /\ u.attestations = s.attestations /\ u.heartbeats = s.heartbeats
          /\ u.head = s.head /\ u.checkpoints = (s.checkpoints \ previous) \cup {checkpoint}
      BY <1>0 DEF Store
    <2> HIDE DEF u
    <2>3. Covered(u)
      BY <1>0, <1>2, <2>2 DEF Covered, StoreInv
    <2> QED  BY <1>0, <1>2, <2>1, <2>2, <2>3, HeartbeatsTyped, SideKeeps
  <1> QED  BY <1>1, <1>2 DEF PutCheckpoint

LEMMA RecordHistoryReopeningKeeps ==
    ASSUME NEW s, StoreInv(s), NEW id \in Reopenings, NEW r \in RecordHistoryReopening(s, id)
    PROVE  StoreInv(r) /\ Advances(s, r)
  <1> DEFINE u == [s EXCEPT !.reopenings = @ \cup {id}]
  <1>0. s \in Store /\ None \in Txs \cup {None} /\ "history_reopened" \in DeltaKind
    BY DEF StoreInv, DeltaKind
  <1>1. CASE r = s
    BY <1>0, <1>1, AdvancesSame
  <1>2. CASE r = AppendDelta(u, "history_reopened", None, 0)
    <2>1. u \in Store
      <3>1. s.reopenings \cup {id} \in SUBSET Reopenings
        BY <1>0, StoreFields
      <3> QED  BY <1>0, <3>1 DEF Store
    <2>2. /\ u.candidates = s.candidates /\ u.proofs = s.proofs /\ u.orderedTxIds = s.orderedTxIds
          /\ u.sequence = s.sequence /\ u.deltaFloor = s.deltaFloor /\ u.deltas = s.deltas
          /\ u.attestations = s.attestations /\ u.heartbeats = s.heartbeats
          /\ u.head = s.head /\ u.checkpoints = s.checkpoints
      BY <1>0 DEF Store
    <2> HIDE DEF u
    <2>3. Covered(u)
      BY <2>2 DEF Covered, StoreInv
    <2> QED  BY <1>0, <1>2, <2>1, <2>2, <2>3, HeartbeatsTyped, SideKeeps
  <1> QED  BY <1>1, <1>2 DEF RecordHistoryReopening

\* evaluateAdmission only ever calls setCandidateState.
LEMMA EvaluateAdmissionKeeps ==
    ASSUME NEW s, StoreInv(s), NEW tx \in Txs, NEW state \in CandidateState,
           NEW proof \in SUBSET Attestations, NEW reworded \in BOOLEAN,
           NEW r \in EvaluateAdmission(s, tx, state, proof, reworded)
    PROVE  StoreInv(r) /\ Advances(s, r)
  <1>1. CASE r = s
    BY <1>1, AdvancesSame DEF StoreInv
  <1>2. CASE r \in SetCandidateState(s, tx, state, proof, reworded)
    BY <1>2, SetCandidateStateKeeps
  <1> QED  BY <1>1, <1>2 DEF EvaluateAdmission

---------------------------------------------------------------------------
(* Snapshots.                                                              *)

LEMMA EmptyStoreInv == StoreInv(EmptyStore)
  <1>1. EmptyStore \in Store
    <2>1. NoHeartbeat \in [sequence : Nat, cutoff : Nat, contiguous : BOOLEAN] /\ NoHead \in [revision : Nat, orderLength : Nat]
      BY DEF NoHeartbeat, NoHead
    <2>2. << >> \in Seq(Txs) /\ << >> \in Seq(Delta)
      OBVIOUS
    <2>3. /\ [t \in Txs |-> "absent"] \in [Txs -> CandidateState \cup {"absent"}]
          /\ [t \in Txs |-> {}] \in [Txs -> SUBSET Attestations]
          /\ [v \in Validators |-> NoHeartbeat] \in [Validators -> [sequence : Nat, cutoff : Nat, contiguous : BOOLEAN]]
      BY <2>1
    <2> QED  BY <2>1, <2>2, <2>3 DEF EmptyStore, Store
  <1>2. /\ EmptyStore.deltas = << >> /\ EmptyStore.orderedTxIds = << >> /\ EmptyStore.sequence = 0
        /\ EmptyStore.deltaFloor = 0 /\ EmptyStore.checkpoints = {} /\ EmptyStore.head.orderLength = 0
        /\ EmptyStore.candidates = [t \in Txs |-> "absent"] /\ EmptyStore.proofs = [t \in Txs |-> {}]
    BY DEF EmptyStore, NoHead
  <1>3. DeltasOK(EmptyStore) /\ Covered(EmptyStore) /\ StrictlySorted(EmptyStore.orderedTxIds, Key)
    BY <1>2, ControlStoreAssumption DEF DeltasOK, Covered, StrictlySorted, ControlStoreAssumption
  <1>4. Exact(EmptyStore) /\ Proved(EmptyStore)
    BY <1>2 DEF Exact, Proved, ValidProof
  <1> QED  BY <1>1, <1>3, <1>4 DEF StoreInv

\* A sound snapshot passes #verifyRestoredOrder and is restored as it stands.
LEMMA SoundSnapshotsVerify ==
    ASSUME NEW s, StoreInv(s)
    PROVE  TrimDeltas(s) = s /\ VerifyRestoredOrder(s)
  <1>1. /\ s \in Store /\ s.deltas \in Seq(Delta) /\ s.orderedTxIds \in Seq(Txs)
        /\ s.sequence \in Nat /\ s.deltaFloor \in Nat
        /\ Len(s.deltas) \in Nat /\ Len(s.orderedTxIds) \in Nat
    BY StoreFields DEF StoreInv
  <1>2. /\ Len(s.deltas) <= MaximumRetainedDeltas /\ MaximumRetainedDeltas \in Nat
        /\ s.sequence = s.deltaFloor + Len(s.deltas)
        /\ \A i \in 1 .. Len(s.deltas) : s.deltas[i].sequence = s.deltaFloor + i
    BY ControlStoreAssumption DEF StoreInv, DeltasOK, ControlStoreAssumption
  <1>3. TrimDeltas(s) = s
    BY <1>1, <1>2 DEF TrimDeltas, Excess
  <1>4. s.deltas # << >> => /\ s.deltas[Len(s.deltas)].sequence = s.sequence
                            /\ s.deltas[1].sequence = s.deltaFloor + 1
    <2> SUFFICES ASSUME s.deltas # << >> PROVE /\ s.deltas[Len(s.deltas)].sequence = s.sequence
                                               /\ s.deltas[1].sequence = s.deltaFloor + 1
      OBVIOUS
    <2>1. 1 \in 1 .. Len(s.deltas) /\ Len(s.deltas) \in 1 .. Len(s.deltas)
      BY <1>1
    <2> QED  BY <1>2, <2>1
  <1>5. s.deltas = << >> => s.deltaFloor = s.sequence
    BY <1>1, <1>2
  <1>6. \A i \in 2 .. Len(s.deltas) : s.deltas[i].sequence > s.deltas[i - 1].sequence
    <2> SUFFICES ASSUME NEW i \in 2 .. Len(s.deltas) PROVE s.deltas[i].sequence > s.deltas[i - 1].sequence
      OBVIOUS
    <2>1. i \in 1 .. Len(s.deltas) /\ i - 1 \in 1 .. Len(s.deltas)
      BY <1>1
    <2>2. s.deltas[i].sequence = s.deltaFloor + i /\ s.deltas[i - 1].sequence = s.deltaFloor + (i - 1)
      BY <1>2, <2>1
    <2>3. s.deltaFloor + i > s.deltaFloor + (i - 1)
      BY <1>1, <2>1
    <2> QED  BY <2>2, <2>3
  <1> DEFINE order == s.orderedTxIds
  <1>7. \A i \in DOMAIN order : order[i] \in Txs /\ s.candidates[order[i]] = "admissible"
    BY <1>1 DEF StoreInv, Exact
  <1>8. \A i, j \in 1 .. Len(order) : i < j => Precedes(Key[order[i]], Key[order[j]])
    BY DEF StoreInv, StrictlySorted
  <1>9. \A i \in DOMAIN order : Key[order[i]] \in OrderKeys
    BY <1>7, ControlStoreAssumption DEF ControlStoreAssumption
  <1>10. \A i, j \in DOMAIN order : order[i] = order[j] => i = j
    <2> SUFFICES ASSUME NEW i \in DOMAIN order, NEW j \in DOMAIN order, i < j PROVE order[i] # order[j]
      BY <1>1
    <2>1. Precedes(Key[order[i]], Key[order[j]]) /\ Key[order[i]] \in OrderKeys
      BY <1>1, <1>8, <1>9
    <2> QED  BY <2>1, PrecedesIrreflexive
  <1>11. \A i \in 2 .. Len(order) : Precedes(Key[order[i - 1]], Key[order[i]])
    <2> SUFFICES ASSUME NEW i \in 2 .. Len(order) PROVE Precedes(Key[order[i - 1]], Key[order[i]])
      OBVIOUS
    <2>1. i \in 1 .. Len(order) /\ i - 1 \in 1 .. Len(order) /\ i - 1 < i
      BY <1>1
    <2> QED  BY <1>8, <2>1
  <1>12. \A i \in DOMAIN order : s.candidates[order[i]] = "admissible"
    BY <1>7
  <1> QED  BY <1>3, <1>4, <1>5, <1>6, <1>10, <1>11, <1>12 DEF VerifyRestoredOrder

---------------------------------------------------------------------------
(* The theorems.                                                           *)

\* Whatever operation runs, the store it leaves is sound.
LEMMA OperationKeeps ==
    ASSUME IInv, NEW outcomes, Operation(outcomes),
           \A r \in outcomes : StoreInv(r) /\ Advances(store, r)
    PROVE  IInv' /\ Advances(store, store')
  <1>1. StoreInv(store') /\ Advances(store, store')
    BY DEF Operation
  <1>2. saveRequested' \in BOOLEAN
    BY DEF Operation, IInv
  <1> QED  BY <1>1, <1>2 DEF IInv, Operation, StoreInv, DeltasOK, Exact, Proved, Covered, ValidProof

LEMMA InitIInv == Init => IInv
  <1> SUFFICES ASSUME Init PROVE IInv
    OBVIOUS
  <1>1. store = EmptyStore /\ disk = EmptyStore /\ saveRequested = FALSE /\ incarnation = 0
    BY DEF Init
  <1>2. StoreInv(store) /\ StoreInv(disk)
    BY <1>1, EmptyStoreInv
  <1> QED  BY <1>1, <1>2 DEF IInv

\* A step of one process leaves a sound store and undoes nothing; a restart
\* leaves a sound store.
LEMMA StepKeeps ==
    ASSUME IInv, Next
    PROVE  IInv' /\ (incarnation' = incarnation => Advances(store, store'))
  <1>0. StoreInv(store) /\ StoreInv(disk) /\ InputStates \subseteq CandidateState
    BY ControlStoreAssumption DEF IInv, ControlStoreAssumption
  <1>1. CASE DoPutCandidate
    <2>1. PICK tx \in Txs, state \in InputStates : Operation(PutCandidate(store, tx, state))
      BY <1>1 DEF DoPutCandidate
    <2>2. \A r \in PutCandidate(store, tx, state) : StoreInv(r) /\ Advances(store, r)
      BY <1>0, PutCandidateKeeps
    <2> QED  BY <2>1, <2>2, OperationKeeps
  <1>2. CASE DoPutAttestation
    <2>1. PICK a \in Attestations : Operation(PutAttestation(store, a))
      BY <1>2 DEF DoPutAttestation
    <2>2. \A r \in PutAttestation(store, a) : StoreInv(r) /\ Advances(store, r)
      BY <1>0, PutAttestationKeeps
    <2> QED  BY <2>1, <2>2, OperationKeeps
  <1>3. CASE DoSetCandidateState
    <2>1. PICK tx \in Txs, state \in InputStates, proof \in SUBSET Attestations, reworded \in BOOLEAN :
              Operation(SetCandidateState(store, tx, state, proof, reworded))
      BY <1>3 DEF DoSetCandidateState
    <2>2. \A r \in SetCandidateState(store, tx, state, proof, reworded) : StoreInv(r) /\ Advances(store, r)
      BY <1>0, SetCandidateStateKeeps
    <2> QED  BY <2>1, <2>2, OperationKeeps
  <1>4. CASE DoEvaluateAdmission
    <2>1. PICK tx \in Txs, state \in {"pending_validation", "admissible"},
               proof \in SUBSET Attestations, reworded \in BOOLEAN :
              Operation(EvaluateAdmission(store, tx, state, proof, reworded))
      BY <1>4 DEF DoEvaluateAdmission
    <2>2. state \in CandidateState
      BY DEF CandidateState
    <2>3. \A r \in EvaluateAdmission(store, tx, state, proof, reworded) : StoreInv(r) /\ Advances(store, r)
      BY <1>0, <2>2, EvaluateAdmissionKeeps
    <2> QED  BY <2>1, <2>3, OperationKeeps
  <1>5. CASE DoRecordHeartbeat
    <2>1. PICK v \in Validators, n \in FeedSequences, c \in Cutoffs, contiguous \in BOOLEAN :
              Operation(RecordHeartbeat(store, v, [sequence |-> n, cutoff |-> c, contiguous |-> contiguous]))
      BY <1>5 DEF DoRecordHeartbeat
    <2> DEFINE hb == [sequence |-> n, cutoff |-> c, contiguous |-> contiguous]
    <2>2. hb \in [sequence : Nat, cutoff : Nat, contiguous : BOOLEAN]
      BY ControlStoreAssumption DEF ControlStoreAssumption
    <2> HIDE DEF hb
    <2>3. \A r \in RecordHeartbeat(store, v, hb) : StoreInv(r) /\ Advances(store, r)
      BY <1>0, <2>2, RecordHeartbeatKeeps
    <2>4. Operation(RecordHeartbeat(store, v, hb))
      BY <2>1 DEF hb
    <2> QED  BY <2>3, <2>4, OperationKeeps
  <1>6. CASE DoPublishMaterializedHead
    <2>1. PICK head \in Heads : Operation(PublishMaterializedHead(store, head))
      BY <1>6 DEF DoPublishMaterializedHead
    <2>2. \A r \in PublishMaterializedHead(store, head) : StoreInv(r) /\ Advances(store, r)
      BY <1>0, PublishMaterializedHeadKeeps
    <2> QED  BY <2>1, <2>2, OperationKeeps
  <1>7. CASE DoPutCheckpoint
    <2>1. PICK checkpoint \in Checkpoints : Operation(PutCheckpoint(store, checkpoint))
      BY <1>7 DEF DoPutCheckpoint
    <2>2. \A r \in PutCheckpoint(store, checkpoint) : StoreInv(r) /\ Advances(store, r)
      BY <1>0, PutCheckpointKeeps
    <2> QED  BY <2>1, <2>2, OperationKeeps
  <1>8. CASE DoRecordHistoryReopening
    <2>1. PICK id \in Reopenings : Operation(RecordHistoryReopening(store, id))
      BY <1>8 DEF DoRecordHistoryReopening
    <2>2. \A r \in RecordHistoryReopening(store, id) : StoreInv(r) /\ Advances(store, r)
      BY <1>0, RecordHistoryReopeningKeeps
    <2> QED  BY <2>1, <2>2, OperationKeeps
  <1>9. CASE Flush
    <2>1. store' = store /\ disk' = store /\ saveRequested' = FALSE /\ incarnation' = incarnation
      BY <1>9 DEF Flush
    <2>2. Advances(store, store)
      BY <1>0, AdvancesSame DEF StoreInv
    <2> QED  BY <1>0, <2>1, <2>2 DEF IInv
  <1>10. CASE Restart
    <2>1. Restore(disk) = disk
      BY <1>0, SoundSnapshotsVerify DEF Restore
    <2>2. /\ (store' = disk /\ disk' = disk) \/ (store' = EmptyStore /\ disk' = EmptyStore)
          /\ saveRequested' = FALSE /\ incarnation' = incarnation + 1
      BY <1>10, <2>1 DEF Restart
    <2>3. incarnation' \in Nat /\ incarnation' # incarnation
      BY <2>2 DEF IInv
    <2>4. StoreInv(store') /\ StoreInv(disk')
      BY <1>0, <2>2, EmptyStoreInv
    <2> QED  BY <2>2, <2>3, <2>4 DEF IInv
  <1> QED
    BY <1>1, <1>2, <1>3, <1>4, <1>5, <1>6, <1>7, <1>8, <1>9, <1>10 DEF Next

\* The index and its snapshot stay sound through every operation, flush and
\* restart.
THEOREM Invariance == Spec => []IInv
  <1>1. IInv /\ [Next]_vars => IInv'
    <2>1. CASE Next
      BY <2>1, StepKeeps
    <2>2. CASE UNCHANGED vars
      BY <2>2 DEF vars, IInv, StoreInv, DeltasOK, Exact, Proved, Covered, ValidProof
    <2> QED  BY <2>1, <2>2
  <1> QED  BY InitIInv, <1>1, PTL DEF Spec

\* The store and its snapshot keep their types.
THEOREM TypeCorrect == Spec => []TypeOK
  <1>1. IInv => TypeOK
    BY DEF IInv, StoreInv, TypeOK
  <1> QED  BY Invariance, <1>1, PTL

\* orderedTxIds is sorted by compareTransactionOrder, for any number of
\* transactions admitted in any order.
THEOREM OrderSorted == Spec => []OrderIsSorted
  <1>1. IInv => OrderIsSorted
    BY DEF IInv, StoreInv, OrderIsSorted
  <1> QED  BY Invariance, <1>1, PTL

\* orderedTxIds holds exactly the admitted candidates.
THEOREM OrderExact == Spec => []OrderIsExactlyAdmitted
  <1>1. IInv => OrderIsExactlyAdmitted
    BY DEF IInv, StoreInv, Exact, OrderIsExactlyAdmitted
  <1> QED  BY Invariance, <1>1, PTL

\* Every admission proof names stored attestations of its transaction.
THEOREM ProofsStored == Spec => []ProofsAreStored
  <1>1. IInv => ProofsAreStored
    BY DEF IInv, StoreInv, Proved, ValidProof, ProofsAreStored
  <1> QED  BY Invariance, <1>1, PTL

\* No snapshot the store wrote is refused by #verifyRestoredOrder.
THEOREM SnapshotsVerify == Spec => []OwnSnapshotsVerify
  <1>1. IInv => OwnSnapshotsVerify
    BY SoundSnapshotsVerify DEF IInv, OwnSnapshotsVerify
  <1> QED  BY Invariance, <1>1, PTL

\* A published head or checkpoint is never ahead of the order.
THEOREM HeadBehind == Spec => []HeadBehindOrder
  <1>1. IInv => HeadBehindOrder
    BY DEF IInv, StoreInv, Covered, HeadBehindOrder
  <1> QED  BY Invariance, <1>1, PTL

\* No operation of a running store undoes an admission or a rejection.
THEOREM AdmissionFinal == Spec => AdmissionIsFinal
  <1> DEFINE Final == incarnation' = incarnation =>
                        \A tx \in Txs : store.candidates[tx] \in Terminal \cup {"admissible"} =>
                            store'.candidates[tx] = store.candidates[tx]
  <1>1. IInv /\ [Next]_vars => [Final]_vars
    <2>1. ASSUME IInv, Next PROVE Final
      BY <2>1, StepKeeps DEF Advances
    <2> QED  BY <2>1
  <1> QED  BY Invariance, <1>1, PTL DEF Spec, AdmissionIsFinal

\* No operation of a running store takes a heartbeat or its cutoff back.
THEOREM HeartbeatAdvance == Spec => HeartbeatsAdvance
  <1> DEFINE Forward == incarnation' = incarnation =>
                          \A v \in Validators :
                              /\ store'.heartbeats[v].sequence >= store.heartbeats[v].sequence
                              /\ store'.heartbeats[v].cutoff >= store.heartbeats[v].cutoff
  <1>1. IInv /\ [Next]_vars => [Forward]_vars
    <2>1. ASSUME IInv, Next PROVE Forward
      BY <2>1, StepKeeps DEF Advances
    <2> QED  BY <2>1
  <1> QED  BY Invariance, <1>1, PTL DEF Spec, HeartbeatsAdvance
=============================================================================
