-------------------------- MODULE SettlementProofs --------------------------
(***************************************************************************)
(* What a watermark promises, for any number of validators, transactions   *)
(* and policies of both kinds, whatever overtakes an attestation and       *)
(* whatever the replica still retries, has refused or has lost.            *)
(***************************************************************************)
EXTENDS Settlement, FiniteSetTheorems, TLAPS

\* The kth-lowest cutoff, with missing heartbeats as the lowest, blocks every
\* set of k validators.
LEMMA ThresholdBlocks ==
    ASSUME NEW threshold \in Nat, NEW hb \in [Validators -> Heartbeat], NEW c \in ThresholdWatermark(threshold, hb)
    PROVE  \A Q \in SUBSET Validators :
               Cardinality(Q) >= threshold => \E v \in Q : hb[v].contiguous /\ hb[v].cutoff >= c
  <1> DEFINE Gone == Validators \ Available(hb)
             Below == Lower(hb, c)
  <1>0. IsFiniteSet(Validators)
    BY WatermarkAssumption DEF WatermarkAssumption
  <1>1. /\ IsFiniteSet(Gone) /\ IsFiniteSet(Below) /\ IsFiniteSet(Gone \cup Below)
        /\ Gone \cap Below = {}
    <2>1. Gone \subseteq Validators /\ Below \subseteq Validators /\ Gone \cup Below \subseteq Validators
      BY DEF Available, Lower
    <2>2. Gone \cap Below = {}
      BY DEF Available, Lower
    <2> QED  BY <1>0, <2>1, <2>2, FS_Subset
  <1>2. /\ Cardinality(Gone) \in Nat /\ Cardinality(Below) \in Nat
        /\ Cardinality(Gone \cup Below) = Cardinality(Gone) + Cardinality(Below)
    <2>1. Cardinality(Gone) \in Nat /\ Cardinality(Below) \in Nat
      BY <1>1, FS_CardinalityType
    <2>2. Cardinality(Gone \cup Below) = Cardinality(Gone) + Cardinality(Below) - Cardinality(Gone \cap Below)
      BY <1>1, FS_Union
    <2>3. Cardinality(Gone \cap Below) = 0
      BY <1>1, FS_EmptySet
    <2> QED  BY <2>1, <2>2, <2>3
  <1>3. Cardinality(Below) <= threshold - 1 - Cardinality(Gone)
    BY DEF ThresholdWatermark, SelectedIndex
  <1>4. Cardinality(Gone \cup Below) < threshold
    BY <1>0, <1>2, <1>3
  <1> SUFFICES ASSUME NEW Q \in SUBSET Validators, Cardinality(Q) >= threshold,
                      \A v \in Q : ~(hb[v].contiguous /\ hb[v].cutoff >= c)
               PROVE  FALSE
    OBVIOUS
  <1>5. Q \subseteq Gone \cup Below
    <2> SUFFICES ASSUME NEW v \in Q PROVE v \in Gone \cup Below
      OBVIOUS
    <2>1. c \in Nat /\ hb[v].cutoff \in Nat
      BY DEF ThresholdWatermark, Heartbeat, Available
    <2>2. CASE hb[v].contiguous
      BY <2>1, <2>2 DEF Available, Lower
    <2>3. CASE ~hb[v].contiguous
      BY <2>3 DEF Available
    <2> QED  BY <2>2, <2>3
  <1>6. IsFiniteSet(Q) /\ Cardinality(Q) \in Nat /\ Cardinality(Q) <= Cardinality(Gone \cup Below)
    BY <1>1, <1>5, FS_Subset, FS_CardinalityType
  <1>7. Cardinality(Gone \cup Below) \in Nat
    BY <1>1, FS_CardinalityType
  <1> HIDE DEF Gone, Below
  <1> QED  BY <1>0, <1>4, <1>6, <1>7

\* A watermark of either kind blocks every proof of the policy.
LEMMA WatermarkBlocks ==
    ASSUME NEW policy \in WatermarkPolicy, NEW hb \in [Validators -> Heartbeat], NEW c \in watermark(policy, hb)
    PROVE  Blocked(policy, hb, c)
  <1>1. CASE policy.kind = "threshold"
    <2>1. c \in ThresholdWatermark(policy.threshold, hb)
      BY <1>1 DEF watermark
    <2> QED  BY <1>1, <2>1, ThresholdBlocks DEF Blocked, Satisfies, WatermarkPolicy
  <1>2. CASE policy.kind # "threshold"
    <2>1. \A proof \in policy.minimalProofs : \E v \in BestOf(hb, proof) : hb[v].cutoff >= c
      BY <1>2 DEF watermark, AlternativesWatermark
    <2> SUFFICES ASSUME NEW Q \in SUBSET Validators, Satisfies(policy, Q)
                 PROVE  \E v \in Q : hb[v].contiguous /\ hb[v].cutoff >= c
      BY DEF Blocked
    <2>2. PICK proof \in policy.minimalProofs : proof \subseteq Q
      BY <1>2 DEF Satisfies
    <2>3. PICK v \in BestOf(hb, proof) : hb[v].cutoff >= c
      BY <2>1
    <2> QED  BY <2>2, <2>3 DEF BestOf, Available
  <1> QED  BY <1>1, <1>2

\* Above the kth-lowest cutoff some k validators are unbound.
LEMMA ThresholdHighest ==
    ASSUME NEW threshold \in Nat, NEW hb \in [Validators -> Heartbeat], NEW c \in ThresholdWatermark(threshold, hb),
           NEW higher \in Nat, higher > c
    PROVE  \E Q \in SUBSET Validators :
               /\ Cardinality(Q) >= threshold
               /\ \A v \in Q : ~(hb[v].contiguous /\ hb[v].cutoff >= higher)
  <1> DEFINE Gone == Validators \ Available(hb)
             Low == NotAbove(hb, c)
             Q == Gone \cup Low
  <1>0. IsFiniteSet(Validators)
    BY WatermarkAssumption DEF WatermarkAssumption
  <1>1. /\ IsFiniteSet(Gone) /\ IsFiniteSet(Low) /\ Gone \cap Low = {} /\ Q \subseteq Validators
    <2>1. Gone \subseteq Validators /\ Low \subseteq Validators /\ Gone \cap Low = {}
      BY DEF Available, NotAbove
    <2> QED  BY <1>0, <2>1, FS_Subset
  <1>2. /\ Cardinality(Gone) \in Nat /\ Cardinality(Low) \in Nat
        /\ Cardinality(Q) = Cardinality(Gone) + Cardinality(Low)
    <2>1. Cardinality(Gone) \in Nat /\ Cardinality(Low) \in Nat
      BY <1>1, FS_CardinalityType
    <2>2. Cardinality(Q) = Cardinality(Gone) + Cardinality(Low) - Cardinality(Gone \cap Low)
      BY <1>1, FS_Union
    <2>3. Cardinality(Gone \cap Low) = 0
      BY <1>1, FS_EmptySet
    <2> QED  BY <2>1, <2>2, <2>3
  <1>3. threshold - 1 - Cardinality(Gone) < Cardinality(Low)
    BY DEF ThresholdWatermark, SelectedIndex
  <1>4. Cardinality(Q) >= threshold
    BY <1>0, <1>2, <1>3
  <1>5. \A v \in Q : ~(hb[v].contiguous /\ hb[v].cutoff >= higher)
    <2> SUFFICES ASSUME NEW v \in Q, hb[v].contiguous, hb[v].cutoff >= higher PROVE FALSE
      OBVIOUS
    <2>1. v \in Low
      BY <1>1 DEF Available
    <2>2. c \in Nat /\ hb[v].cutoff \in Nat /\ hb[v].cutoff <= c
      BY <2>1 DEF ThresholdWatermark, Heartbeat, Available, NotAbove
    <2> QED  BY <2>2
  <1> HIDE DEF Q
  <1> QED  BY <1>1, <1>4, <1>5

\* The watermark blocks every proof of the policy, and no higher cutoff does.
THEOREM WatermarkExact ==
    ASSUME NEW policy \in WatermarkPolicy, NEW hb \in [Validators -> Heartbeat], NEW c \in watermark(policy, hb),
           NEW higher \in Nat, higher > c
    PROVE  Blocked(policy, hb, c) /\ ~Blocked(policy, hb, higher)
  <1>1. Blocked(policy, hb, c)
    BY WatermarkBlocks
  <1>2. CASE policy.kind = "threshold"
    <2>1. c \in ThresholdWatermark(policy.threshold, hb)
      BY <1>2 DEF watermark
    <2>2. PICK Q \in SUBSET Validators : /\ Cardinality(Q) >= policy.threshold
                                         /\ \A v \in Q : ~(hb[v].contiguous /\ hb[v].cutoff >= higher)
      BY <2>1, ThresholdHighest DEF WatermarkPolicy
    <2> QED  BY <1>1, <1>2, <2>2 DEF Blocked, Satisfies
  <1>3. CASE policy.kind # "threshold"
    <2>1. PICK proof \in policy.minimalProofs : \E v \in BestOf(hb, proof) : hb[v].cutoff = c
      BY <1>3 DEF watermark, AlternativesWatermark
    <2>2. proof \in SUBSET Validators /\ Satisfies(policy, proof)
      BY <1>3 DEF Satisfies, WatermarkPolicy
    <2>3. ASSUME NEW v \in proof, hb[v].contiguous PROVE ~(hb[v].cutoff >= higher)
      <3>1. v \in Validators /\ hb[v].cutoff <= c
        BY <2>1, <2>2, <2>3 DEF BestOf, Available
      <3>2. hb[v].cutoff \in Nat /\ c \in Nat
        BY <1>3, <3>1 DEF Heartbeat, watermark, AlternativesWatermark, Available
      <3> QED  BY <3>1, <3>2
    <2> QED  BY <1>1, <2>2, <2>3 DEF Blocked
  <1> QED  BY <1>2, <1>3

---------------------------------------------------------------------------
(* The inductive invariant *)

Shape(record) ==
    /\ record.kind = "attestation" => record.tx \in Txs
    /\ record.kind = "heartbeat" => record = Announcement(record.cutoff)

FeedShape == \A v \in Validators : \A i \in 1 .. Len(feed[v]) : Shape(feed[v][i])

CutoffHeld ==
    \A v \in Validators : \A i \in 1 .. Len(feed[v]) :
        feed[v][i].kind = "heartbeat" => feed[v][i].cutoff <= cutoff[v]

\* The heartbeats among the first d records of a feed leave tx open.
LeftOpen(s, tx, d) ==
    \A j \in 1 .. d : s[j].kind = "heartbeat" => s[j].cutoff < Timestamp[tx]

\* An attestation respects the heartbeats appended before its capture.
Decided ==
    \A v \in Validators : \A i \in 1 .. Len(feed[v]) : feed[v][i].kind = "attestation" =>
        feed[v][i].decidedAt < i /\ LeftOpen(feed[v], feed[v][i].tx, feed[v][i].decidedAt)

FlightDecided ==
    \A v \in Validators : inFlight[v] # NoFlight =>
        /\ inFlight[v].tx \in Txs
        /\ inFlight[v].decidedAt <= Len(feed[v])
        /\ LeftOpen(feed[v], inFlight[v].tx, inFlight[v].decidedAt)

\* An attestation that is dealt with is stored or was refused.
Dealt ==
    \A v \in Validators : \A i \in seen[v] :
        feed[v][i].kind = "attestation" => <<v, feed[v][i].tx>> \in references \/ i \in refused[v]

\* A contiguous heartbeat is on the feed and the transport has what precedes it.
Grounded(hb) ==
    \A v \in Validators : hb[v].contiguous =>
        /\ hb[v].sequence \in 1 .. Len(feed[v])
        /\ feed[v][hb[v].sequence] = Announcement(hb[v].cutoff)
        /\ 1 .. hb[v].sequence \subseteq held[v]

\* v can no longer decide to attest tx.
Barred(v, tx) == cutoff[v] >= Timestamp[tx] /\ ~Attested(v, tx) /\ inFlight[v].tx # tx

\* Every proof of a closed transaction needs a validator that had decided
\* before or cannot any more.
ClosedBarred ==
    \A entry \in closed, Q \in SUBSET Validators :
        Satisfies(entry.policy, Q) => \E v \in Q : v \in entry.decided \/ Barred(v, entry.tx)

FeedInv == FeedShape /\ CutoffHeld /\ Decided /\ FlightDecided

ReplicaInv == Dealt /\ Grounded(heartbeats) /\ Grounded(saved.heartbeats)

IInv == TypeOK /\ FeedInv /\ ReplicaInv /\ ClosedBarred

---------------------------------------------------------------------------
(* Lemmas *)

GrownBy(t, s, e) ==
    /\ t \in Seq(Record)
    /\ Len(t) = Len(s) + 1
    /\ \A i \in 1 .. Len(s) : t[i] = s[i]
    /\ t[Len(s) + 1] = e

\* The feed of v grows by the record e.
FeedGrown(v, e) ==
    /\ feed' \in [Validators -> Seq(Record)]
    /\ GrownBy(feed'[v], feed[v], e)
    /\ \A w \in Validators \ {v} : feed'[w] = feed[w]

\* What appending a record does to a feed.
LEMMA AppendFacts ==
    ASSUME NEW s \in Seq(Record), NEW e \in Record
    PROVE  GrownBy(Append(s, e), s, e)
  BY DEF GrownBy

\* Appending to one validator's feed.
LEMMA FeedAppends ==
    ASSUME TypeOK, NEW v \in Validators, NEW e \in Record, feed' = [feed EXCEPT ![v] = Append(feed[v], e)]
    PROVE  FeedGrown(v, e)
  <1>1. feed \in [Validators -> Seq(Record)] /\ feed[v] \in Seq(Record)
    BY DEF TypeOK
  <1>2. GrownBy(Append(feed[v], e), feed[v], e)
    BY <1>1, AppendFacts
  <1>3. Append(feed[v], e) \in Seq(Record)
    BY <1>2 DEF GrownBy
  <1> QED  BY <1>1, <1>2, <1>3 DEF FeedGrown

\* The parts of a record and of an attestation in flight.
LEMMA FieldTypes ==
    ASSUME TypeOK, NEW v \in Validators
    PROVE  /\ Len(feed[v]) \in Nat /\ cutoff[v] \in Nat /\ DOMAIN feed[v] = 1 .. Len(feed[v])
           /\ inFlight[v].decidedAt \in Nat
           /\ \A i \in 1 .. Len(feed[v]) : feed[v][i].cutoff \in Nat /\ feed[v][i].decidedAt \in Nat
  <1>1. /\ feed[v] \in Seq(Record) /\ cutoff[v] \in Nat
        /\ inFlight[v] \in [tx : Txs \cup {None}, decidedAt : Nat]
    BY DEF TypeOK
  <1>2. \A i \in 1 .. Len(feed[v]) : feed[v][i] \in Record
    BY <1>1
  <1>3. \A r \in Record : r.cutoff \in Nat /\ r.decidedAt \in Nat
    BY DEF Record
  <1> QED  BY <1>1, <1>2, <1>3

\* Old records stay in place, and one place is new.
LEMMA GrownFacts ==
    ASSUME TypeOK, NEW v \in Validators, NEW e \in Record, FeedGrown(v, e)
    PROVE  /\ Len(feed'[v]) = Len(feed[v]) + 1 /\ feed'[v][Len(feed[v]) + 1] = e
           /\ \A w \in Validators : Len(feed'[w]) \in Nat /\ Len(feed[w]) <= Len(feed'[w])
                                    /\ DOMAIN feed'[w] = 1 .. Len(feed'[w])
           /\ \A w \in Validators : \A i \in 1 .. Len(feed[w]) : i \in 1 .. Len(feed'[w]) /\ feed'[w][i] = feed[w][i]
           /\ \A w \in Validators : \A i \in 1 .. Len(feed'[w]) :
                  i \in 1 .. Len(feed[w]) \/ (w = v /\ i = Len(feed[v]) + 1)
  <1>1. /\ Len(feed'[v]) = Len(feed[v]) + 1 /\ feed'[v][Len(feed[v]) + 1] = e
        /\ \A i \in 1 .. Len(feed[v]) : feed'[v][i] = feed[v][i]
    BY DEF FeedGrown, GrownBy
  <1>2. \A w \in Validators : Len(feed[w]) \in Nat
    BY FieldTypes
  <1>3. \A w \in Validators : feed'[w] \in Seq(Record)
    BY DEF FeedGrown
  <1>4. \A w \in Validators \ {v} : feed'[w] = feed[w]
    BY DEF FeedGrown
  <1>5. ASSUME NEW w \in Validators
        PROVE  Len(feed'[w]) \in Nat /\ Len(feed[w]) <= Len(feed'[w]) /\ DOMAIN feed'[w] = 1 .. Len(feed'[w])
    <2>1. Len(feed'[w]) \in Nat /\ DOMAIN feed'[w] = 1 .. Len(feed'[w])
      BY <1>3
    <2>2. Len(feed'[w]) = Len(feed[w]) \/ Len(feed'[w]) = Len(feed[w]) + 1
      BY <1>1, <1>4
    <2> QED  BY <1>2, <2>1, <2>2
  <1>6. ASSUME NEW w \in Validators, NEW i \in 1 .. Len(feed[w])
        PROVE  i \in 1 .. Len(feed'[w]) /\ feed'[w][i] = feed[w][i]
    <2>1. feed'[w][i] = feed[w][i]
      BY <1>1, <1>4
    <2>2. i \in 1 .. Len(feed'[w])
      BY <1>2, <1>5
    <2> QED  BY <2>1, <2>2
  <1>7. ASSUME NEW w \in Validators, NEW i \in 1 .. Len(feed'[w])
        PROVE  i \in 1 .. Len(feed[w]) \/ (w = v /\ i = Len(feed[v]) + 1)
    <2>1. CASE w # v
      BY <1>4, <2>1
    <2>2. CASE w = v
      BY <1>1, <1>2, <2>2
    <2> QED  BY <2>1, <2>2
  <1> QED  BY <1>1, <1>5, <1>6, <1>7

\* A feed that grows keeps the records before a place, so what they leave open.
LEMMA LeftOpenStays ==
    ASSUME TypeOK, NEW v \in Validators, NEW e \in Record, FeedGrown(v, e),
           NEW w \in Validators, NEW tx \in Txs, NEW d \in Nat, d <= Len(feed[w]), LeftOpen(feed[w], tx, d)
    PROVE  LeftOpen(feed'[w], tx, d)
  <1>1. Len(feed[w]) \in Nat
    BY FieldTypes
  <1>2. ASSUME NEW j \in 1 .. d PROVE feed'[w][j] = feed[w][j]
    <2>1. j \in 1 .. Len(feed[w])
      BY <1>1
    <2> QED  BY <2>1, GrownFacts
  <1> QED  BY <1>2 DEF LeftOpen

\* Appending a record to one validator's feed keeps the records' shape, the
\* cutoffs and the decisions on the feeds, when a heartbeat does not announce
\* more than the cutoff and an attestation respects what preceded its capture.
LEMMA FeedGrows ==
    ASSUME TypeOK, FeedInv, NEW v \in Validators, NEW e \in Record, FeedGrown(v, e), Shape(e),
           NEW c \in Nat, c >= cutoff[v], cutoff' = [cutoff EXCEPT ![v] = c],
           e.kind = "heartbeat" => e.cutoff <= c,
           e.kind = "attestation" => e.decidedAt <= Len(feed[v]) /\ LeftOpen(feed[v], e.tx, e.decidedAt)
    PROVE  FeedShape' /\ CutoffHeld' /\ Decided'
  <1>1. /\ Len(feed'[v]) = Len(feed[v]) + 1 /\ feed'[v][Len(feed[v]) + 1] = e
        /\ \A w \in Validators : Len(feed'[w]) \in Nat /\ Len(feed[w]) <= Len(feed'[w])
        /\ \A w \in Validators : \A i \in 1 .. Len(feed[w]) : i \in 1 .. Len(feed'[w]) /\ feed'[w][i] = feed[w][i]
        /\ \A w \in Validators : \A i \in 1 .. Len(feed'[w]) :
               i \in 1 .. Len(feed[w]) \/ (w = v /\ i = Len(feed[v]) + 1)
    BY GrownFacts
  <1>2. \A w \in Validators : /\ Len(feed[w]) \in Nat /\ cutoff[w] \in Nat
                              /\ \A i \in 1 .. Len(feed[w]) : feed[w][i].cutoff \in Nat /\ feed[w][i].decidedAt \in Nat
    BY FieldTypes
  <1>3. \A w \in Validators : cutoff'[w] \in Nat /\ cutoff'[w] >= cutoff[w]
    BY <1>2 DEF TypeOK
  <1>4. cutoff'[v] = c
    BY DEF TypeOK
  <1>5. FeedShape'
    <2> SUFFICES ASSUME NEW w \in Validators, NEW i \in 1 .. Len(feed'[w])
                 PROVE  Shape(feed'[w][i])
      BY DEF FeedShape, Shape, Announcement
    <2>1. CASE i \in 1 .. Len(feed[w])
      <3>1. feed'[w][i] = feed[w][i]
        BY <1>1, <2>1
      <3>2. Shape(feed[w][i])
        BY <2>1 DEF FeedInv, FeedShape
      <3> QED  BY <3>1, <3>2
    <2>2. CASE w = v /\ i = Len(feed[v]) + 1
      BY <1>1, <2>2
    <2> QED  BY <1>1, <2>1, <2>2
  <1>6. CutoffHeld'
    <2> SUFFICES ASSUME NEW w \in Validators, NEW i \in 1 .. Len(feed'[w]), feed'[w][i].kind = "heartbeat"
                 PROVE  feed'[w][i].cutoff <= cutoff'[w]
      BY DEF CutoffHeld
    <2>1. CASE i \in 1 .. Len(feed[w])
      <3>1. feed'[w][i] = feed[w][i] /\ feed[w][i].cutoff <= cutoff[w]
        BY <1>1, <2>1 DEF FeedInv, CutoffHeld
      <3> QED  BY <1>2, <1>3, <2>1, <3>1
    <2>2. CASE w = v /\ i = Len(feed[v]) + 1
      BY <1>1, <1>4, <2>2
    <2> QED  BY <1>1, <2>1, <2>2
  <1>7. Decided'
    <2> SUFFICES ASSUME NEW w \in Validators, NEW i \in 1 .. Len(feed'[w]), feed'[w][i].kind = "attestation"
                 PROVE  feed'[w][i].decidedAt < i /\ LeftOpen(feed'[w], feed'[w][i].tx, feed'[w][i].decidedAt)
      BY DEF Decided
    <2>1. CASE i \in 1 .. Len(feed[w])
      <3>1. feed'[w][i] = feed[w][i]
        BY <1>1, <2>1
      <3> PICK d : d = feed[w][i].decidedAt
        OBVIOUS
      <3> PICK tx : tx = feed[w][i].tx
        OBVIOUS
      <3>2. d \in Nat /\ d < i /\ LeftOpen(feed[w], tx, d)
        BY <1>2, <2>1, <3>1 DEF FeedInv, Decided
      <3>3. tx \in Txs
        BY <2>1, <3>1 DEF FeedInv, FeedShape, Shape
      <3>4. d <= Len(feed[w])
        BY <1>2, <2>1, <3>2
      <3>5. LeftOpen(feed'[w], tx, d)
        BY <3>2, <3>3, <3>4, LeftOpenStays
      <3> QED  BY <3>1, <3>2, <3>5
    <2>2. CASE w = v /\ i = Len(feed[v]) + 1
      <3>1. feed'[w][i] = e
        BY <1>1, <2>2
      <3> PICK d : d = e.decidedAt
        OBVIOUS
      <3> PICK tx : tx = e.tx
        OBVIOUS
      <3>2. d \in Nat /\ tx \in Txs /\ d <= Len(feed[v]) /\ LeftOpen(feed[v], tx, d)
        BY <3>1 DEF Record, Shape
      <3>3. LeftOpen(feed'[v], tx, d)
        BY <3>2, LeftOpenStays
      <3>4. d < i
        BY <1>2, <2>2, <3>2
      <3> QED  BY <2>2, <3>1, <3>3, <3>4
    <2> QED  BY <1>1, <2>1, <2>2
  <1> QED  BY <1>5, <1>6, <1>7

\* Attestations in flight keep respecting what preceded their capture.
LEMMA FlightsStay ==
    ASSUME TypeOK, FeedInv, NEW v \in Validators, NEW e \in Record, FeedGrown(v, e),
           \A w \in Validators : inFlight'[w] = inFlight[w] \/ inFlight'[w] = NoFlight
    PROVE  FlightDecided'
  <1> SUFFICES ASSUME NEW w \in Validators, inFlight'[w] # NoFlight
               PROVE  /\ inFlight'[w].tx \in Txs
                      /\ inFlight'[w].decidedAt <= Len(feed'[w])
                      /\ LeftOpen(feed'[w], inFlight'[w].tx, inFlight'[w].decidedAt)
    BY DEF FlightDecided, NoFlight
  <1>1. inFlight'[w] = inFlight[w]
    OBVIOUS
  <1> PICK d : d = inFlight[w].decidedAt
    OBVIOUS
  <1> PICK tx : tx = inFlight[w].tx
    OBVIOUS
  <1>2. tx \in Txs /\ d \in Nat /\ d <= Len(feed[w]) /\ LeftOpen(feed[w], tx, d)
    BY <1>1, FieldTypes DEF FeedInv, FlightDecided
  <1>3. LeftOpen(feed'[w], tx, d)
    BY <1>2, LeftOpenStays
  <1>4. Len(feed[w]) \in Nat /\ Len(feed'[w]) \in Nat /\ Len(feed[w]) <= Len(feed'[w])
    BY FieldTypes, GrownFacts
  <1>5. d <= Len(feed'[w])
    BY <1>2, <1>4
  <1> QED  BY <1>1, <1>2, <1>3, <1>5

\* The replica's copies stay grounded while a feed grows.
LEMMA ReplicaStays ==
    ASSUME TypeOK, ReplicaInv, NEW v \in Validators, NEW e \in Record, FeedGrown(v, e),
           UNCHANGED <<held, seen, refused, heartbeats, references, saved>>
    PROVE  ReplicaInv'
  <1>1. \A w \in Validators : \A i \in 1 .. Len(feed[w]) : i \in 1 .. Len(feed'[w]) /\ feed'[w][i] = feed[w][i]
    BY GrownFacts
  <1>2. ASSUME NEW w \in Validators PROVE seen[w] \subseteq 1 .. Len(feed[w])
    <2>1. seen[w] \subseteq DOMAIN feed[w]
      BY DEF TypeOK
    <2> QED  BY <2>1, FieldTypes
  <1>3. Dealt'
    <2> SUFFICES ASSUME NEW w \in Validators, NEW i \in seen[w], feed'[w][i].kind = "attestation"
                 PROVE  <<w, feed'[w][i].tx>> \in references \/ i \in refused[w]
      BY DEF Dealt
    <2>1. feed'[w][i] = feed[w][i]
      BY <1>1, <1>2
    <2> QED  BY <2>1 DEF Dealt, ReplicaInv
  <1>4. ASSUME NEW hb, Grounded(hb), NEW w \in Validators, hb[w].contiguous
        PROVE  /\ hb[w].sequence \in 1 .. Len(feed'[w])
               /\ feed'[w][hb[w].sequence] = Announcement(hb[w].cutoff)
               /\ 1 .. hb[w].sequence \subseteq held[w]
    BY <1>1, <1>4 DEF Grounded
  <1>5. Grounded(heartbeats)'
    BY <1>4 DEF Grounded, ReplicaInv, Announcement
  <1>6. Grounded(saved.heartbeats)'
    BY <1>4 DEF Grounded, ReplicaInv, Announcement
  <1> QED  BY <1>3, <1>5, <1>6 DEF ReplicaInv

\* A validator that cannot decide any more stays so: cutoffs do not fall, and
\* what is appended or captured is another transaction or above the cutoff.
LEMMA BarsStay ==
    ASSUME TypeOK, ClosedBarred, closed' = closed, cutoff' \in [Validators -> Nat],
           \A w \in Validators : cutoff'[w] >= cutoff[w],
           \A w \in Validators, tx \in Txs : Barred(w, tx) => ~Attested(w, tx)' /\ inFlight'[w].tx # tx
    PROVE  ClosedBarred'
  <1> SUFFICES ASSUME NEW entry \in closed, NEW Q \in SUBSET Validators, Satisfies(entry.policy, Q)
               PROVE  \E w \in Q : w \in entry.decided \/ Barred(w, entry.tx)'
    BY DEF ClosedBarred, Satisfies
  <1>1. PICK w \in Q : w \in entry.decided \/ Barred(w, entry.tx)
    BY DEF ClosedBarred
  <1> PICK tx : tx = entry.tx
    OBVIOUS
  <1>2. tx \in Txs /\ Timestamp[tx] \in Nat /\ w \in Validators /\ cutoff[w] \in Nat /\ cutoff'[w] \in Nat
    BY SettlementAssumption DEF TypeOK, SettlementAssumption
  <1>3. CASE Barred(w, tx)
    <2>1. cutoff[w] >= Timestamp[tx]
      BY <1>3 DEF Barred
    <2>2. cutoff'[w] >= Timestamp[tx]
      BY <1>2, <2>1
    <2> QED  BY <1>2, <1>3, <2>2 DEF Barred
  <1> QED  BY <1>1, <1>3

\* Nothing is promised anew while the validators stand still.
LEMMA FeedInvStands ==
    ASSUME FeedInv, UNCHANGED <<cutoff, inFlight, feed>>
    PROVE  FeedInv'
  <1>1. FeedShape' /\ CutoffHeld'
    BY DEF FeedInv, FeedShape, Shape, CutoffHeld, Announcement
  <1>2. Decided' /\ FlightDecided'
    BY DEF FeedInv, Decided, FlightDecided, NoFlight
  <1> QED  BY <1>1, <1>2 DEF FeedInv

\* Closed transactions stay barred while the validators stand still.
LEMMA BarsStand ==
    ASSUME ClosedBarred, UNCHANGED <<cutoff, inFlight, feed, closed>>
    PROVE  ClosedBarred'
  BY DEF ClosedBarred, Barred, Attested, Satisfies

\* The replica's copies stand.
LEMMA ReplicaStands ==
    ASSUME ReplicaInv, UNCHANGED <<feed, held, seen, refused, heartbeats, references, saved>>
    PROVE  ReplicaInv'
  BY DEF ReplicaInv, Dealt, Grounded, Announcement

---------------------------------------------------------------------------
(* Steps *)

\* Capturing an attestation moves the cutoff, at most below its timestamp.
LEMMA AttestCaptureKeeps ==
    ASSUME IInv, NEW v \in Validators, NEW tx \in Txs, NEW c \in Cutoffs, AttestCapture(v, tx, c)
    PROVE  IInv'
  <1> PICK flight : flight = [tx |-> tx, decidedAt |-> Len(feed[v])]
    BY Zenon
  <1>1. /\ c \in Nat /\ Timestamp[tx] \in Nat /\ c >= cutoff[v] /\ Timestamp[tx] > c
        /\ cutoff' = [cutoff EXCEPT ![v] = c] /\ inFlight' = [inFlight EXCEPT ![v] = flight]
        /\ UNCHANGED <<feed, held, seen, refused, heartbeats, references, saved, governed, closed>>
    BY SettlementAssumption DEF SettlementAssumption, AttestCapture
  <1>2. \A w \in Validators : /\ Len(feed[w]) \in Nat /\ cutoff[w] \in Nat
                              /\ \A i \in 1 .. Len(feed[w]) : feed[w][i].cutoff \in Nat
    BY FieldTypes DEF IInv
  <1>3. /\ cutoff \in [Validators -> Nat]
        /\ inFlight \in [Validators -> [tx : Txs \cup {None}, decidedAt : Nat]]
        /\ flight \in [tx : Txs \cup {None}, decidedAt : Nat]
    BY <1>2 DEF IInv, TypeOK
  <1>4. /\ cutoff' \in [Validators -> Nat] /\ \A w \in Validators : cutoff'[w] >= cutoff[w]
        /\ inFlight' \in [Validators -> [tx : Txs \cup {None}, decidedAt : Nat]]
    BY <1>1, <1>3
  <1>5. TypeOK'
    BY <1>1, <1>4 DEF IInv, TypeOK
  <1>6. CutoffHeld'
    <2> SUFFICES ASSUME NEW w \in Validators, NEW i \in 1 .. Len(feed[w]), feed[w][i].kind = "heartbeat"
                 PROVE  feed[w][i].cutoff <= cutoff'[w]
      BY <1>1 DEF CutoffHeld
    <2>1. feed[w][i].cutoff <= cutoff[w]
      BY DEF IInv, FeedInv, CutoffHeld
    <2> QED  BY <1>2, <1>4, <2>1
  <1>7. FlightDecided'
    <2> SUFFICES ASSUME NEW w \in Validators, inFlight'[w] # NoFlight
                 PROVE  /\ inFlight'[w].tx \in Txs
                        /\ inFlight'[w].decidedAt <= Len(feed[w])
                        /\ LeftOpen(feed[w], inFlight'[w].tx, inFlight'[w].decidedAt)
      BY <1>1 DEF FlightDecided, NoFlight
    <2>1. CASE w # v
      BY <1>1, <1>3, <2>1 DEF IInv, FeedInv, FlightDecided
    <2>2. CASE w = v
      <3>1. inFlight'[w].tx = tx /\ inFlight'[w].decidedAt = Len(feed[v])
        BY <1>1, <1>3, <2>2
      <3>2. LeftOpen(feed[v], tx, Len(feed[v]))
        <4> SUFFICES ASSUME NEW j \in 1 .. Len(feed[v]), feed[v][j].kind = "heartbeat"
                     PROVE  feed[v][j].cutoff < Timestamp[tx]
          BY DEF LeftOpen
        <4>1. feed[v][j].cutoff <= cutoff[v]
          BY DEF IInv, FeedInv, CutoffHeld
        <4> QED  BY <1>1, <1>2, <4>1
      <3> QED  BY <1>2, <2>2, <3>1, <3>2
    <2> QED  BY <2>1, <2>2
  <1>8. FeedInv'
    <2>1. FeedShape' /\ Decided'
      <3>1. FeedShape'
        BY <1>1 DEF IInv, FeedInv, FeedShape
      <3>2. Decided'
        BY <1>1 DEF IInv, FeedInv, Decided
      <3> QED  BY <3>1, <3>2
    <2> QED  BY <1>6, <1>7, <2>1 DEF FeedInv
  <1>9. ReplicaInv'
    BY <1>1, ReplicaStands DEF IInv
  <1>10. ClosedBarred'
    <2>1. ASSUME NEW w \in Validators, NEW t \in Txs, Barred(w, t)
          PROVE  ~Attested(w, t)' /\ inFlight'[w].tx # t
      <3>1. ~Attested(w, t)' /\ inFlight[w].tx # t /\ cutoff[w] >= Timestamp[t]
        BY <1>1, <2>1 DEF Barred, Attested
      <3>2. CASE w # v
        BY <1>1, <1>3, <3>1, <3>2
      <3>3. CASE w = v
        <4>1. t # tx
          BY <1>1, <1>2, <3>1, <3>3
        <4>2. inFlight'[w].tx = tx
          BY <1>1, <1>3, <3>3
        <4> QED  BY <3>1, <4>1, <4>2
      <3> QED  BY <3>2, <3>3
    <2> QED  BY <1>1, <1>4, <2>1, BarsStay DEF IInv
  <1> QED  BY <1>5, <1>8, <1>9, <1>10 DEF IInv

\* What the replica holds of a feed stays within it as it grows.
LEMMA GrownType ==
    ASSUME TypeOK, NEW v \in Validators, NEW e \in Record, FeedGrown(v, e),
           cutoff' \in [Validators -> Nat],
           inFlight' \in [Validators -> [tx : Txs \cup {None}, decidedAt : Nat]],
           UNCHANGED <<held, seen, refused, heartbeats, references, saved, governed, closed>>
    PROVE  TypeOK'
  <1>1. feed' \in [Validators -> Seq(Record)]
    BY DEF FeedGrown
  <1>2. ASSUME NEW w \in Validators PROVE held[w] \subseteq DOMAIN feed'[w]
    <2>1. held[w] \subseteq 1 .. Len(feed[w])
      <3>1. held[w] \subseteq DOMAIN feed[w]
        BY DEF TypeOK
      <3> QED  BY <3>1, FieldTypes
    <2>2. 1 .. Len(feed[w]) \subseteq DOMAIN feed'[w]
      BY GrownFacts
    <2> QED  BY <2>1, <2>2
  <1> QED  BY <1>1, <1>2 DEF TypeOK

\* The appended attestation was decided when it was captured.
LEMMA AttestAppendKeeps ==
    ASSUME IInv, NEW v \in Validators, AttestAppend(v)
    PROVE  IInv'
  <1> PICK tx : tx = inFlight[v].tx
    OBVIOUS
  <1> PICK d : d = inFlight[v].decidedAt
    OBVIOUS
  <1> PICK e : e = Attestation(tx, d)
    OBVIOUS
  <1>1. /\ inFlight[v] # NoFlight
        /\ feed' = [feed EXCEPT ![v] = Append(feed[v], e)]
        /\ inFlight' = [inFlight EXCEPT ![v] = NoFlight]
        /\ UNCHANGED <<cutoff, held, seen, refused, heartbeats, references, saved, governed, closed>>
    BY DEF AttestAppend
  <1>2. /\ cutoff \in [Validators -> Nat]
        /\ inFlight \in [Validators -> [tx : Txs \cup {None}, decidedAt : Nat]]
        /\ NoFlight \in [tx : Txs \cup {None}, decidedAt : Nat]
    BY DEF IInv, TypeOK, NoFlight
  <1>3. tx \in Txs /\ d \in Nat /\ d <= Len(feed[v]) /\ LeftOpen(feed[v], tx, d)
    BY <1>1, FieldTypes DEF IInv, FeedInv, FlightDecided
  <1>4. e \in Record /\ Shape(e) /\ e.kind = "attestation" /\ e.tx = tx /\ e.decidedAt = d
    BY <1>3 DEF Attestation, Record, Shape
  <1>5. TypeOK /\ FeedInv /\ ReplicaInv /\ ClosedBarred
    BY DEF IInv
  <1>6. FeedGrown(v, e)
    BY <1>1, <1>4, <1>5, FeedAppends, Zenon
  <1>7. /\ cutoff[v] \in Nat /\ cutoff[v] >= cutoff[v] /\ cutoff' = [cutoff EXCEPT ![v] = cutoff[v]]
        /\ cutoff' \in [Validators -> Nat] /\ \A w \in Validators : cutoff'[w] >= cutoff[w]
    BY <1>1, <1>2
  <1>8. inFlight' \in [Validators -> [tx : Txs \cup {None}, decidedAt : Nat]]
    BY <1>1, <1>2
  <1>9. TypeOK'
    BY <1>1, <1>4, <1>5, <1>6, <1>7, <1>8, GrownType
  <1>10. FeedShape' /\ CutoffHeld' /\ Decided'
    BY <1>3, <1>4, <1>5, <1>6, <1>7, FeedGrows, Zenon
  <1>11. FlightDecided'
    <2>1. \A w \in Validators : inFlight'[w] = inFlight[w] \/ inFlight'[w] = NoFlight
      BY <1>1, <1>2
    <2> QED  BY <1>4, <1>5, <1>6, <2>1, FlightsStay
  <1>12. ReplicaInv'
    BY <1>1, <1>4, <1>5, <1>6, ReplicaStays
  <1>13. ClosedBarred'
    <2>1. ASSUME NEW w \in Validators, NEW t \in Txs, Barred(w, t)
          PROVE  ~Attested(w, t)' /\ inFlight'[w].tx # t
      <3>1. ~Attested(w, t) /\ inFlight[w].tx # t
        BY <2>1 DEF Barred
      <3>2. inFlight'[w].tx # t
        BY <1>1, <1>2, <3>1, SettlementAssumption DEF NoFlight, SettlementAssumption
      <3>3. ASSUME NEW i \in DOMAIN feed'[w], feed'[w][i].kind = "attestation", feed'[w][i].tx = t
            PROVE  FALSE
        <4>1. i \in 1 .. Len(feed[w]) \/ (w = v /\ i = Len(feed[v]) + 1)
          BY <1>4, <1>5, <1>6, GrownFacts
        <4>2. CASE i \in 1 .. Len(feed[w])
          <5>1. i \in DOMAIN feed[w] /\ feed'[w][i] = feed[w][i]
            BY <1>4, <1>5, <1>6, <4>2, GrownFacts, FieldTypes
          <5> QED  BY <3>1, <3>3, <5>1 DEF Attested
        <4>3. CASE w = v /\ i = Len(feed[v]) + 1
          <5>1. feed'[w][i] = e
            BY <1>4, <1>5, <1>6, <4>3, GrownFacts
          <5> QED  BY <1>4, <3>1, <3>3, <4>3, <5>1
        <4> QED  BY <4>1, <4>2, <4>3
      <3> QED  BY <3>2, <3>3 DEF Attested
    <2> QED  BY <1>1, <1>5, <1>7, <2>1, BarsStay
  <1> QED  BY <1>9, <1>10, <1>11, <1>12, <1>13 DEF IInv, FeedInv

\* Losing an attestation in flight changes nothing else.
LEMMA AttestLostKeeps ==
    ASSUME IInv, NEW v \in Validators, AttestLost(v)
    PROVE  IInv'
  <1>1. /\ inFlight' = [inFlight EXCEPT ![v] = NoFlight]
        /\ UNCHANGED <<cutoff, feed, held, seen, refused, heartbeats, references, saved, governed, closed>>
    BY DEF AttestLost
  <1>2. /\ cutoff \in [Validators -> Nat]
        /\ inFlight \in [Validators -> [tx : Txs \cup {None}, decidedAt : Nat]]
        /\ NoFlight \in [tx : Txs \cup {None}, decidedAt : Nat]
    BY DEF IInv, TypeOK, NoFlight
  <1>3. TypeOK'
    <2>1. inFlight' \in [Validators -> [tx : Txs \cup {None}, decidedAt : Nat]]
      BY <1>1, <1>2
    <2> QED  BY <1>1, <2>1 DEF IInv, TypeOK
  <1>4. FeedInv'
    <2>1. FeedShape' /\ CutoffHeld'
      BY <1>1 DEF IInv, FeedInv, FeedShape, CutoffHeld
    <2>2. Decided'
      BY <1>1 DEF IInv, FeedInv, Decided
    <2>3. FlightDecided'
      BY <1>1, <1>2 DEF IInv, FeedInv, FlightDecided, NoFlight
    <2> QED  BY <2>1, <2>2, <2>3 DEF FeedInv
  <1>5. ReplicaInv'
    BY <1>1, ReplicaStands DEF IInv
  <1>6. ClosedBarred'
    <2>1. ASSUME NEW w \in Validators, NEW t \in Txs, Barred(w, t)
          PROVE  ~Attested(w, t)' /\ inFlight'[w].tx # t
      <3>1. ~Attested(w, t)' /\ inFlight[w].tx # t
        BY <1>1, <2>1 DEF Barred, Attested
      <3> QED  BY <1>1, <1>2, <3>1, SettlementAssumption DEF NoFlight, SettlementAssumption
    <2>2. cutoff' \in [Validators -> Nat] /\ \A w \in Validators : cutoff'[w] >= cutoff[w]
      BY <1>1, <1>2
    <2> QED  BY <1>1, <2>1, <2>2, BarsStay DEF IInv
  <1> QED  BY <1>3, <1>4, <1>5, <1>6 DEF IInv

\* A heartbeat announces at most the cutoff, whatever is in flight.
LEMMA PublishHeartbeatKeeps ==
    ASSUME IInv, NEW v \in Validators, NEW c \in Cutoffs, NEW announced \in Cutoffs,
           PublishHeartbeat(v, c, announced)
    PROVE  IInv'
  <1> PICK e : e = Announcement(announced)
    OBVIOUS
  <1>1. /\ c \in Nat /\ announced \in Nat /\ c >= cutoff[v] /\ announced <= c
        /\ cutoff' = [cutoff EXCEPT ![v] = c]
        /\ feed' = [feed EXCEPT ![v] = Append(feed[v], e)]
        /\ UNCHANGED <<inFlight, held, seen, refused, heartbeats, references, saved, governed, closed>>
    BY SettlementAssumption DEF SettlementAssumption, PublishHeartbeat
  <1>2. /\ cutoff \in [Validators -> Nat]
        /\ inFlight \in [Validators -> [tx : Txs \cup {None}, decidedAt : Nat]]
    BY DEF IInv, TypeOK
  <1>3. e \in Record /\ Shape(e) /\ e.kind = "heartbeat" /\ e.kind # "attestation" /\ e.cutoff = announced
    BY <1>1 DEF Announcement, Record, Shape
  <1>4. TypeOK /\ FeedInv /\ ReplicaInv /\ ClosedBarred
    BY DEF IInv
  <1>5. FeedGrown(v, e)
    BY <1>1, <1>3, <1>4, FeedAppends, Zenon
  <1>6. cutoff' \in [Validators -> Nat] /\ \A w \in Validators : cutoff'[w] >= cutoff[w]
    BY <1>1, <1>2
  <1>7. TypeOK'
    BY <1>1, <1>2, <1>3, <1>4, <1>5, <1>6, GrownType
  <1>8. FeedShape' /\ CutoffHeld' /\ Decided'
    BY <1>1, <1>3, <1>4, <1>5, FeedGrows, Zenon
  <1>9. FlightDecided'
    BY <1>1, <1>3, <1>4, <1>5, FlightsStay
  <1>10. ReplicaInv'
    BY <1>1, <1>3, <1>4, <1>5, ReplicaStays
  <1>11. ClosedBarred'
    <2>1. ASSUME NEW w \in Validators, NEW t \in Txs, Barred(w, t)
          PROVE  ~Attested(w, t)' /\ inFlight'[w].tx # t
      <3>1. ~Attested(w, t) /\ inFlight'[w].tx # t
        BY <1>1, <2>1 DEF Barred
      <3>2. ASSUME NEW i \in DOMAIN feed'[w], feed'[w][i].kind = "attestation", feed'[w][i].tx = t
            PROVE  FALSE
        <4>1. i \in 1 .. Len(feed[w]) \/ (w = v /\ i = Len(feed[v]) + 1)
          BY <1>3, <1>4, <1>5, GrownFacts
        <4>2. CASE i \in 1 .. Len(feed[w])
          <5>1. i \in DOMAIN feed[w] /\ feed'[w][i] = feed[w][i]
            BY <1>3, <1>4, <1>5, <4>2, GrownFacts, FieldTypes
          <5> QED  BY <3>1, <3>2, <5>1 DEF Attested
        <4>3. CASE w = v /\ i = Len(feed[v]) + 1
          <5>1. feed'[w][i] = e
            BY <1>3, <1>4, <1>5, <4>3, GrownFacts
          <5> QED  BY <1>3, <3>2, <5>1
        <4> QED  BY <4>1, <4>2, <4>3
      <3> QED  BY <3>1, <3>2 DEF Attested
    <2> QED  BY <1>1, <1>4, <1>6, <2>1, BarsStay
  <1> QED  BY <1>7, <1>8, <1>9, <1>10, <1>11 DEF IInv, FeedInv

\* A received record can only close gaps.
LEMMA ReceiveKeeps ==
    ASSUME IInv, NEW v \in Validators, NEW i \in DOMAIN feed[v], Receive(v, i)
    PROVE  IInv'
  <1>1. /\ held' = [held EXCEPT ![v] = held[v] \cup {i}]
        /\ UNCHANGED <<cutoff, inFlight, feed, seen, refused, heartbeats, references, saved, governed, closed>>
    BY DEF Receive
  <1>2. /\ held \in [Validators -> SUBSET Nat] /\ i \in Nat
        /\ \A w \in Validators : seen[w] \subseteq held[w] /\ held[w] \subseteq DOMAIN feed[w]
    <2>1. DOMAIN feed[v] = 1 .. Len(feed[v]) /\ Len(feed[v]) \in Nat
      BY FieldTypes DEF IInv
    <2>2. i \in Nat
      BY <2>1
    <2> QED  BY <2>2 DEF IInv, TypeOK
  <1>3. /\ held' \in [Validators -> SUBSET Nat]
        /\ \A w \in Validators : held[w] \subseteq held'[w] /\ held'[w] \subseteq DOMAIN feed[w]
    BY <1>1, <1>2
  <1>4. TypeOK'
    <2>1. {held', seen, refused} \subseteq [Validators -> SUBSET Nat]
      BY <1>3 DEF IInv, TypeOK
    <2>2. \A w \in Validators : refused[w] \subseteq seen[w] /\ seen[w] \subseteq held'[w]
                                /\ held'[w] \subseteq DOMAIN feed[w]
      BY <1>2, <1>3 DEF IInv, TypeOK
    <2> QED  BY <1>1, <2>1, <2>2 DEF IInv, TypeOK
  <1>5. ReplicaInv'
    <2>1. Dealt'
      BY <1>1 DEF IInv, ReplicaInv, Dealt
    <2>2. Grounded(heartbeats)'
      BY <1>1, <1>3 DEF IInv, ReplicaInv, Grounded, Announcement
    <2>3. Grounded(saved.heartbeats)'
      BY <1>1, <1>3 DEF IInv, ReplicaInv, Grounded, Announcement
    <2> QED  BY <2>1, <2>2, <2>3 DEF ReplicaInv
  <1>6. FeedInv' /\ ClosedBarred'
    BY <1>1, FeedInvStands, BarsStand DEF IInv
  <1> QED  BY <1>4, <1>5, <1>6 DEF IInv

\* What a record puts in the store: references only grow, and a heartbeat that
\* counts as contiguous is one the transport has together with its past.
LEMMA StoreKeeps ==
    ASSUME IInv, NEW v \in Validators, NEW i \in held[v], NEW contiguous \in BOOLEAN,
           Store(v, i, contiguous), UNCHANGED <<feed, held>>
    PROVE  /\ references \subseteq references' /\ references' \subseteq Validators \X Txs
           /\ heartbeats' \in [Validators -> Heartbeat]
           /\ feed[v][i].kind = "attestation" => <<v, feed[v][i].tx>> \in references'
           /\ Grounded(heartbeats)'
  <1> PICK record : record = feed[v][i]
    OBVIOUS
  <1>1. i \in 1 .. Len(feed[v]) /\ Len(feed[v]) \in Nat /\ i \in Nat
    <2>1. i \in DOMAIN feed[v]
      BY DEF IInv, TypeOK
    <2> QED  BY <2>1, FieldTypes DEF IInv
  <1>2. record.cutoff \in Nat /\ Shape(record)
    <2>1. record.cutoff \in Nat
      BY <1>1, FieldTypes DEF IInv
    <2>2. Shape(record)
      BY <1>1 DEF IInv, FeedInv, FeedShape
    <2> QED  BY <2>1, <2>2
  <1>3. /\ contiguous => 1 .. i \subseteq held[v]
        /\ references' = IF record.kind = "attestation" THEN references \cup {<<v, record.tx>>} ELSE references
        /\ heartbeats' = IF record.kind = "heartbeat" THEN Recorded(heartbeats, v, i, record.cutoff, contiguous)
                         ELSE heartbeats
    BY DEF Store, IsFeedContiguous
  <1>4. references \subseteq Validators \X Txs /\ heartbeats \in [Validators -> Heartbeat]
    BY DEF IInv, TypeOK
  <1>5. /\ references \subseteq references' /\ references' \subseteq Validators \X Txs
        /\ record.kind = "attestation" => <<v, record.tx>> \in references'
    BY <1>2, <1>3, <1>4 DEF Shape
  <1> PICK h : h = [sequence |-> i, cutoff |-> record.cutoff, contiguous |-> contiguous]
    BY Zenon
  <1>6. h \in Heartbeat /\ h.sequence = i /\ h.cutoff = record.cutoff /\ h.contiguous = contiguous
    BY <1>1, <1>2 DEF Heartbeat
  <1>7. heartbeats' = heartbeats \/ (record.kind = "heartbeat" /\ heartbeats' = [heartbeats EXCEPT ![v] = h])
    BY <1>3 DEF Recorded
  <1>8. heartbeats' \in [Validators -> Heartbeat]
    BY <1>4, <1>6, <1>7
  <1>9. ASSUME NEW w \in Validators, heartbeats'[w].contiguous
        PROVE  /\ heartbeats'[w].sequence \in 1 .. Len(feed[w])
               /\ feed[w][heartbeats'[w].sequence] = Announcement(heartbeats'[w].cutoff)
               /\ 1 .. heartbeats'[w].sequence \subseteq held[w]
    <2>1. CASE heartbeats'[w] = heartbeats[w]
      BY <1>9, <2>1 DEF IInv, ReplicaInv, Grounded
    <2>2. CASE heartbeats'[w] # heartbeats[w]
      <3>1. w = v /\ record.kind = "heartbeat" /\ heartbeats'[w] = h
        BY <1>4, <1>7, <2>2
      <3>2. contiguous /\ 1 .. i \subseteq held[v]
        BY <1>3, <1>6, <1>9, <3>1
      <3>3. record = Announcement(record.cutoff)
        BY <1>2, <3>1 DEF Shape
      <3> QED  BY <1>1, <1>6, <3>1, <3>2, <3>3
    <2> QED  BY <2>1, <2>2
  <1>10. Grounded(heartbeats)'
    BY <1>9 DEF Grounded, Announcement
  <1> QED  BY <1>5, <1>8, <1>10

\* A record that is stored and dealt with, in whatever order.
LEMMA IngestKeeps ==
    ASSUME IInv, NEW v \in Validators, NEW i \in held[v], NEW contiguous \in BOOLEAN, Ingest(v, i, contiguous)
    PROVE  IInv'
  <1>1. /\ Store(v, i, contiguous)
        /\ seen' = [seen EXCEPT ![v] = seen[v] \cup {i}]
        /\ UNCHANGED <<cutoff, inFlight, feed, held, refused, saved, governed, closed>>
    BY DEF Ingest
  <1>2. /\ references \subseteq references' /\ references' \subseteq Validators \X Txs
        /\ heartbeats' \in [Validators -> Heartbeat]
        /\ feed[v][i].kind = "attestation" => <<v, feed[v][i].tx>> \in references'
        /\ Grounded(heartbeats)'
    BY <1>1, StoreKeeps
  <1>3. /\ seen \in [Validators -> SUBSET Nat] /\ held \in [Validators -> SUBSET Nat]
        /\ \A w \in Validators : refused[w] \subseteq seen[w] /\ seen[w] \subseteq held[w]
    BY DEF IInv, TypeOK
  <1>4. /\ seen' \in [Validators -> SUBSET Nat]
        /\ \A w \in Validators : seen[w] \subseteq seen'[w] /\ seen'[w] \subseteq held[w]
        /\ \A w \in Validators : \A j \in seen'[w] : j \in seen[w] \/ (w = v /\ j = i)
    BY <1>1, <1>3
  <1>5. TypeOK'
    <2>1. {held, seen', refused} \subseteq [Validators -> SUBSET Nat]
      BY <1>4 DEF IInv, TypeOK
    <2>2. \A w \in Validators : refused[w] \subseteq seen'[w] /\ seen'[w] \subseteq held[w]
      BY <1>3, <1>4
    <2> QED  BY <1>1, <1>2, <2>1, <2>2 DEF IInv, TypeOK
  <1>6. Dealt'
    <2> SUFFICES ASSUME NEW w \in Validators, NEW j \in seen'[w], feed[w][j].kind = "attestation"
                 PROVE  <<w, feed[w][j].tx>> \in references' \/ j \in refused[w]
      BY <1>1 DEF Dealt
    <2>1. CASE j \in seen[w]
      BY <1>2, <2>1 DEF IInv, ReplicaInv, Dealt
    <2>2. CASE w = v /\ j = i
      BY <1>2, <2>2
    <2> QED  BY <1>4, <2>1, <2>2
  <1>7. Grounded(saved.heartbeats)'
    BY <1>1 DEF IInv, ReplicaInv, Grounded, Announcement
  <1>8. FeedInv' /\ ClosedBarred'
    BY <1>1, FeedInvStands, BarsStand DEF IInv
  <1> QED  BY <1>2, <1>5, <1>6, <1>7, <1>8 DEF IInv, ReplicaInv

\* An attestation that is stored and waits for a retry.
LEMMA IngestFailsKeeps ==
    ASSUME IInv, NEW v \in Validators, NEW i \in held[v], IngestFails(v, i)
    PROVE  IInv'
  <1>1. /\ Store(v, i, FALSE)
        /\ UNCHANGED <<cutoff, inFlight, feed, held, seen, refused, saved, governed, closed>>
    BY Zenon DEF IngestFails
  <1>2. /\ references \subseteq references' /\ references' \subseteq Validators \X Txs
        /\ heartbeats' \in [Validators -> Heartbeat]
        /\ Grounded(heartbeats)'
    BY <1>1, FALSE \in BOOLEAN, StoreKeeps, Zenon
  <1>3. TypeOK'
    BY <1>1, <1>2 DEF IInv, TypeOK
  <1>4. Dealt'
    BY <1>1, <1>2 DEF IInv, ReplicaInv, Dealt
  <1>5. Grounded(saved.heartbeats)'
    BY <1>1 DEF IInv, ReplicaInv, Grounded, Announcement
  <1>6. FeedInv' /\ ClosedBarred'
    BY <1>1, FeedInvStands, BarsStand DEF IInv
  <1> QED  BY <1>2, <1>3, <1>4, <1>5, <1>6 DEF IInv, ReplicaInv

\* A refused record is dealt with and noted as refused.
LEMMA IngestRefusesKeeps ==
    ASSUME IInv, NEW v \in Validators, NEW i \in held[v], IngestRefuses(v, i)
    PROVE  IInv'
  <1>1. /\ seen' = [seen EXCEPT ![v] = seen[v] \cup {i}]
        /\ refused' = [refused EXCEPT ![v] = refused[v] \cup {i}]
        /\ UNCHANGED <<cutoff, inFlight, feed, held, heartbeats, references, saved, governed, closed>>
    BY DEF IngestRefuses
  <1>2. /\ seen \in [Validators -> SUBSET Nat] /\ held \in [Validators -> SUBSET Nat]
        /\ refused \in [Validators -> SUBSET Nat]
        /\ \A w \in Validators : refused[w] \subseteq seen[w] /\ seen[w] \subseteq held[w]
    BY DEF IInv, TypeOK
  <1>3. /\ seen' \in [Validators -> SUBSET Nat] /\ refused' \in [Validators -> SUBSET Nat]
        /\ \A w \in Validators : refused'[w] \subseteq seen'[w] /\ seen'[w] \subseteq held[w]
    BY <1>1, <1>2
  <1>4. TypeOK'
    <2>1. {held, seen', refused'} \subseteq [Validators -> SUBSET Nat]
      BY <1>2, <1>3
    <2> QED  BY <1>1, <1>3, <2>1, Zenon DEF IInv, TypeOK
  <1>5. Dealt'
    <2> SUFFICES ASSUME NEW w \in Validators, NEW j \in seen'[w], feed[w][j].kind = "attestation"
                 PROVE  <<w, feed[w][j].tx>> \in references \/ j \in refused'[w]
      BY <1>1 DEF Dealt
    <2>1. (j \in seen[w] /\ refused[w] \subseteq refused'[w]) \/ j \in refused'[w]
      BY <1>1, <1>2
    <2> QED  BY <2>1 DEF IInv, ReplicaInv, Dealt
  <1>6. Grounded(heartbeats)' /\ Grounded(saved.heartbeats)'
    BY <1>1 DEF IInv, ReplicaInv, Grounded, Announcement
  <1>7. FeedInv' /\ ClosedBarred'
    BY <1>1, FeedInvStands, BarsStand DEF IInv
  <1> QED  BY <1>4, <1>5, <1>6, <1>7 DEF IInv, ReplicaInv

\* A snapshot holds heartbeats that are grounded already.
LEMMA SaveKeeps ==
    ASSUME IInv, Save
    PROVE  IInv'
  <1>1. /\ saved' = [heartbeats |-> heartbeats, references |-> references]
        /\ UNCHANGED <<cutoff, inFlight, feed, held, seen, refused, heartbeats, references, governed, closed>>
    BY DEF Save
  <1>2. saved'.heartbeats = heartbeats
    BY <1>1
  <1>3. TypeOK'
    BY <1>1 DEF IInv, TypeOK
  <1>4. Grounded(saved.heartbeats)' /\ Grounded(heartbeats)' /\ Dealt'
    BY <1>1, <1>2 DEF IInv, ReplicaInv, Grounded, Announcement, Dealt
  <1>5. FeedInv' /\ ClosedBarred'
    BY <1>1, FeedInvStands, BarsStand DEF IInv
  <1> QED  BY <1>3, <1>4, <1>5 DEF IInv, ReplicaInv

\* A restart goes back to a snapshot and has every record before it again.
LEMMA RestartKeeps ==
    ASSUME IInv, Restart
    PROVE  IInv'
  <1>1. /\ heartbeats' = saved.heartbeats /\ references' = saved.references
        /\ seen' = [v \in Validators |-> {}] /\ refused' = [v \in Validators |-> {}]
        /\ UNCHANGED <<cutoff, inFlight, feed, held, saved, governed, closed>>
    BY DEF Restart
  <1>2. TypeOK'
    <2>1. {held, seen', refused'} \subseteq [Validators -> SUBSET Nat]
      BY <1>1 DEF IInv, TypeOK
    <2>2. \A w \in Validators : refused'[w] \subseteq seen'[w] /\ seen'[w] \subseteq held[w]
      BY <1>1
    <2> QED  BY <1>1, <2>1, <2>2 DEF IInv, TypeOK
  <1>3. Dealt'
    BY <1>1 DEF Dealt
  <1>4. Grounded(saved.heartbeats)' /\ Grounded(heartbeats)'
    BY <1>1 DEF IInv, ReplicaInv, Grounded, Announcement
  <1>5. FeedInv' /\ ClosedBarred'
    BY <1>1, FeedInvStands, BarsStand DEF IInv
  <1> QED  BY <1>2, <1>3, <1>4, <1>5 DEF IInv, ReplicaInv

\* The validator behind a contiguous heartbeat has a cutoff that is not lower.
LEMMA StandingHeartbeat ==
    ASSUME IInv, NEW v \in Validators, heartbeats[v].contiguous
    PROVE  heartbeats[v].cutoff \in Nat /\ heartbeats[v].cutoff <= cutoff[v]
  <1> PICK h : h = heartbeats[v]
    OBVIOUS
  <1>1. h.sequence \in 1 .. Len(feed[v]) /\ feed[v][h.sequence] = Announcement(h.cutoff)
    BY DEF IInv, ReplicaInv, Grounded
  <1>2. feed[v][h.sequence].kind = "heartbeat" /\ feed[v][h.sequence].cutoff = h.cutoff
    BY <1>1 DEF Announcement
  <1>3. h.cutoff <= cutoff[v]
    BY <1>1, <1>2 DEF IInv, FeedInv, CutoffHeld
  <1>4. h.cutoff \in Nat
    BY DEF IInv, TypeOK, Heartbeat
  <1> QED  BY <1>3, <1>4

\* A watermark comes with a validator of every proof that cannot decide any more.
LEMMA SettleKeeps ==
    ASSUME IInv, NEW policy \in Policies, NEW c \in Cutoffs, Settle(policy, c)
    PROVE  IInv'
  <1> DEFINE fresh == {t \in Txs : Timestamp[t] <= c /\ \A v \in Validators : <<v, t>> \notin references}
             decided(tx) == {v \in Validators : Attested(v, tx) \/ inFlight[v].tx = tx}
  <1>1. /\ c \in watermark(policy, heartbeats)
        /\ closed' = {[policy |-> policy, tx |-> tx, decided |-> decided(tx)] : tx \in fresh}
        /\ UNCHANGED <<cutoff, inFlight, feed, held, seen, refused, heartbeats, references, saved, governed>>
    BY DEF Settle
  <1>2. TypeOK'
    <2>1. fresh \subseteq Txs /\ \A tx \in fresh : decided(tx) \in SUBSET Validators
      OBVIOUS
    <2> HIDE DEF fresh, decided
    <2>2. closed' \subseteq [policy : Policies, tx : Txs, decided : SUBSET Validators]
      BY <1>1, <2>1
    <2> QED  BY <1>1, <2>2 DEF IInv, TypeOK
  <1>3. FeedInv' /\ ReplicaInv'
    BY <1>1, FeedInvStands, ReplicaStands DEF IInv
  <1>4. Blocked(policy, heartbeats, c)
    <2>1. heartbeats \in [Validators -> Heartbeat]
      BY DEF IInv, TypeOK
    <2>2. policy \in WatermarkPolicy
      BY WatermarkAssumption DEF WatermarkAssumption
    <2> QED  BY <1>1, <2>1, <2>2, WatermarkBlocks
  <1>5. ASSUME NEW tx \in fresh, NEW Q \in SUBSET Validators, Satisfies(policy, Q)
        PROVE  \E v \in Q : v \in decided(tx) \/ Barred(v, tx)
    <2>1. PICK v \in Q : heartbeats[v].contiguous /\ heartbeats[v].cutoff >= c
      BY <1>4, <1>5 DEF Blocked
    <2>2. v \in Validators /\ tx \in Txs /\ Timestamp[tx] <= c /\ Timestamp[tx] \in Nat /\ c \in Nat
      BY <2>1, SettlementAssumption DEF SettlementAssumption
    <2>3. heartbeats[v].cutoff \in Nat /\ heartbeats[v].cutoff <= cutoff[v] /\ cutoff[v] \in Nat
      BY <2>1, <2>2, StandingHeartbeat, FieldTypes DEF IInv
    <2>4. cutoff[v] >= Timestamp[tx]
      BY <2>1, <2>2, <2>3
    <2> QED  BY <2>1, <2>2, <2>4 DEF Barred
  <1>6. ASSUME NEW entry \in closed', NEW Q \in SUBSET Validators, Satisfies(entry.policy, Q)
        PROVE  \E v \in Q : v \in entry.decided \/ Barred(v, entry.tx)
    <2>1. PICK tx \in fresh : entry = [policy |-> policy, tx |-> tx, decided |-> decided(tx)]
      BY <1>1
    <2>2. entry.policy = policy /\ entry.tx = tx /\ entry.decided = decided(tx)
      BY <2>1
    <2> HIDE DEF fresh, decided
    <2> QED  BY <1>5, <1>6, <2>2
  <1> HIDE DEF fresh, decided
  <1>7. ClosedBarred'
    BY <1>1, <1>6 DEF ClosedBarred, Barred, Attested, Satisfies
  <1> QED  BY <1>2, <1>3, <1>7 DEF IInv

---------------------------------------------------------------------------
(* Theorems *)

\* Empty feeds and an empty store satisfy the invariant.
LEMMA InitIInv ==
    ASSUME Init
    PROVE  IInv
  <1>1. NoHeartbeat \in Heartbeat /\ ~NoHeartbeat.contiguous
    BY DEF NoHeartbeat, Heartbeat
  <1>2. /\ cutoff = [v \in Validators |-> 0] /\ inFlight = [v \in Validators |-> NoFlight]
        /\ feed = [v \in Validators |-> << >>]
        /\ held = [v \in Validators |-> {}] /\ seen = [v \in Validators |-> {}]
        /\ refused = [v \in Validators |-> {}]
        /\ heartbeats = [v \in Validators |-> NoHeartbeat] /\ references = {} /\ closed = {}
        /\ saved = [heartbeats |-> heartbeats, references |-> references] /\ governed = FALSE
    BY DEF Init
  <1>3. saved.heartbeats = heartbeats
    BY <1>2
  <1>4. \A v \in Validators : feed[v] = << >> /\ Len(feed[v]) = 0 /\ feed[v] \in Seq(Record)
    BY <1>2
  <1>5. heartbeats \in [Validators -> Heartbeat]
    BY <1>1, <1>2
  <1>6. TypeOK
    <2>1. feed \in [Validators -> Seq(Record)]
      BY <1>2
    <2>2. cutoff \in [Validators -> Nat]
      BY <1>2
    <2>3. inFlight \in [Validators -> [tx : Txs \cup {None}, decidedAt : Nat]]
      BY <1>2 DEF NoFlight
    <2>4. {held, seen, refused} \subseteq [Validators -> SUBSET Nat]
      BY <1>2
    <2>5. \A v \in Validators : refused[v] \subseteq seen[v] /\ seen[v] \subseteq held[v]
                                /\ held[v] \subseteq DOMAIN feed[v]
      BY <1>2
    <2>6. saved \in [heartbeats : [Validators -> Heartbeat], references : SUBSET (Validators \X Txs)]
      BY <1>2, <1>5
    <2> QED  BY <1>2, <1>5, <2>1, <2>2, <2>3, <2>4, <2>5, <2>6, Zenon DEF TypeOK
  <1>7. FeedInv
    BY <1>2, <1>4 DEF FeedInv, FeedShape, CutoffHeld, Decided, FlightDecided
  <1>8. ReplicaInv
    BY <1>1, <1>2, <1>3 DEF ReplicaInv, Dealt, Grounded
  <1>9. ClosedBarred
    BY <1>2 DEF ClosedBarred
  <1> QED  BY <1>6, <1>7, <1>8, <1>9 DEF IInv

\* Every step of the validators and of the replica keeps the invariant.
LEMMA StepKeeps ==
    ASSUME IInv, [Next]_vars
    PROVE  IInv'
  <1>1. CASE \E v \in Validators, tx \in Txs, c \in Cutoffs : AttestCapture(v, tx, c)
    BY <1>1, AttestCaptureKeeps
  <1>2. CASE \E v \in Validators : AttestAppend(v)
    BY <1>2, AttestAppendKeeps
  <1>3. CASE \E v \in Validators : AttestLost(v)
    BY <1>3, AttestLostKeeps
  <1>4. CASE \E v \in Validators, c \in Cutoffs, announced \in Cutoffs : PublishHeartbeat(v, c, announced)
    BY <1>4, PublishHeartbeatKeeps
  <1>5. CASE \E v \in Validators : \E i \in DOMAIN feed[v] : Receive(v, i)
    BY <1>5, ReceiveKeeps
  <1>6. CASE \E v \in Validators : \E i \in held[v], contiguous \in BOOLEAN : Ingest(v, i, contiguous)
    BY <1>6, IngestKeeps
  <1>7. CASE \E v \in Validators : \E i \in held[v] : IngestFails(v, i)
    BY <1>7, IngestFailsKeeps
  <1>8. CASE \E v \in Validators : \E i \in held[v] : IngestRefuses(v, i)
    BY <1>8, IngestRefusesKeeps
  <1>9. CASE LearnRevision
    <2>1. governed' \in BOOLEAN
          /\ UNCHANGED <<cutoff, inFlight, feed, held, seen, refused, heartbeats, references, saved, closed>>
      BY <1>9 DEF LearnRevision
    <2>2. TypeOK'
      BY <2>1 DEF IInv, TypeOK
    <2> QED  BY <2>1, <2>2, FeedInvStands, ReplicaStands, BarsStand DEF IInv
  <1>10. CASE Save
    BY <1>10, SaveKeeps
  <1>11. CASE Restart
    BY <1>11, RestartKeeps
  <1>12. CASE \E policy \in Policies, c \in Cutoffs : Settle(policy, c)
    BY <1>12, SettleKeeps
  <1>13. CASE UNCHANGED vars
    <2>1. UNCHANGED <<cutoff, inFlight, feed, held, seen, refused, heartbeats, references, saved, governed, closed>>
      BY <1>13 DEF vars
    <2>2. TypeOK'
      BY <2>1 DEF IInv, TypeOK
    <2> QED  BY <2>1, <2>2, FeedInvStands, ReplicaStands, BarsStand DEF IInv
  <1> QED  BY <1>1, <1>2, <1>3, <1>4, <1>5, <1>6, <1>7, <1>8, <1>9, <1>10, <1>11, <1>12, <1>13 DEF Next

\* The inductive invariant holds in every reachable state.
THEOREM Invariance == Spec => []IInv
  <1>1. Init => IInv
    BY InitIInv
  <1>2. IInv /\ [Next]_vars => IInv'
    BY StepKeeps
  <1> QED  BY <1>1, <1>2, PTL DEF Spec

\* The state keeps its type: node.ts and control-store.ts fields of a replica
\* and of the validators it follows.
THEOREM TypeCorrect == Spec => []TypeOK
  <1>1. IInv => TypeOK
    BY DEF IInv
  <1> QED  BY <1>1, Invariance, PTL

\* A transaction below the watermark that has a complete proof on the feeds is
\* referenced, so that settlementEvidence can list it, unless every attestation
\* of one validator of the proof waits for a retry, was refused for an unknown
\* revision or was overtaken by a heartbeat of its own validator.
THEOREM Exposed == Spec => []ExposedBelowWatermark
  <1>1. ASSUME IInv PROVE ExposedBelowWatermark
    <2> SUFFICES ASSUME NEW policy \in Policies, NEW tx \in Txs, NEW c \in watermark(policy, heartbeats),
                        Timestamp[tx] <= c,
                        NEW Q \in SUBSET Validators, Satisfies(policy, Q)
                 PROVE  \E v \in Q :
                            \/ <<v, tx>> \in references
                            \/ \A i \in DOMAIN feed[v] :
                                   feed[v][i].kind = "attestation" /\ feed[v][i].tx = tx =>
                                       Waiting(v, i) \/ i \in refused[v] \/ Overtaken(v, i)
      BY Zenon DEF ExposedBelowWatermark
    <2>1. heartbeats \in [Validators -> Heartbeat] /\ policy \in WatermarkPolicy
      BY <1>1, WatermarkAssumption DEF IInv, TypeOK, WatermarkAssumption
    <2>2. PICK v \in Q : heartbeats[v].contiguous /\ heartbeats[v].cutoff >= c
      BY <2>1, WatermarkBlocks DEF Blocked
    <2>3. v \in Validators
      BY <2>2
    <2> PICK n : n = heartbeats[v].sequence
      OBVIOUS
    <2>4. /\ n \in 1 .. Len(feed[v]) /\ feed[v][n] = Announcement(heartbeats[v].cutoff)
          /\ 1 .. n \subseteq held[v]
      BY <1>1, <2>2, <2>3 DEF IInv, ReplicaInv, Grounded
    <2>5. feed[v][n].kind = "heartbeat" /\ feed[v][n].cutoff = heartbeats[v].cutoff
      BY <2>4 DEF Announcement
    <2>6. heartbeats[v].cutoff \in Nat /\ Timestamp[tx] \in Nat /\ c \in Nat
      <3>1. heartbeats[v].cutoff \in Nat
        BY <1>1, <2>2, <2>3, StandingHeartbeat
      <3>2. c \in Nat
        BY <2>1 DEF watermark, ThresholdWatermark, AlternativesWatermark, Available, Heartbeat
      <3> QED  BY <3>1, <3>2, SettlementAssumption DEF SettlementAssumption
    <2>7. Timestamp[tx] <= feed[v][n].cutoff
      BY <2>2, <2>5, <2>6
    <2>8. /\ Len(feed[v]) \in Nat /\ DOMAIN feed[v] = 1 .. Len(feed[v])
          /\ \A i \in 1 .. Len(feed[v]) : feed[v][i].decidedAt \in Nat
      BY <1>1, <2>3, FieldTypes DEF IInv
    <2>9. ASSUME <<v, tx>> \notin references, NEW i \in DOMAIN feed[v],
                 feed[v][i].kind = "attestation", feed[v][i].tx = tx
          PROVE  Waiting(v, i) \/ i \in refused[v] \/ Overtaken(v, i)
      <3> PICK d : d = feed[v][i].decidedAt
        OBVIOUS
      <3>1. d \in Nat /\ i \in Nat /\ n \in Nat
        BY <2>4, <2>8
      <3>2. CASE i <= n
        <4>1. i \in held[v]
          BY <2>4, <2>8, <3>1, <3>2
        <4> QED  BY <1>1, <2>3, <2>9, <4>1 DEF IInv, ReplicaInv, Dealt, Waiting
      <3>3. CASE n < i /\ d < n
        BY <2>4, <2>5, <2>7, <2>8, <2>9, <3>3 DEF Overtaken
      <3>4. CASE ~(d < n)
        <4>1. n \in 1 .. d
          BY <2>4, <2>8, <3>1, <3>4
        <4>2. LeftOpen(feed[v], tx, d)
          BY <1>1, <2>3, <2>8, <2>9 DEF IInv, FeedInv, Decided
        <4>3. feed[v][n].cutoff < Timestamp[tx]
          BY <2>5, <4>1, <4>2 DEF LeftOpen
        <4> QED  BY <2>5, <2>6, <2>7, <4>3
      <3> QED  BY <3>1, <3>2, <3>3, <3>4
    <2> QED  BY <2>2, <2>9
  <1> QED  BY <1>1, Invariance, PTL

\* No proof of a transaction that settlementEvidence let a client close is
\* completed by decisions taken later.
THEOREM ClosedStaysClosed == Spec => []ClosedHistoryStaysClosed
  <1>1. IInv => ClosedHistoryStaysClosed
    BY DEF IInv, ClosedBarred, Barred, ClosedHistoryStaysClosed
  <1> QED  BY <1>1, Invariance, PTL

\* The watermark of every policy, in every reachable state, is the highest
\* cutoff that blocks all of its proofs.
THEOREM WatermarkHighest == Spec => []WatermarkIsHighestBlocked
  <1>1. ASSUME IInv PROVE WatermarkIsHighestBlocked
    <2>1. heartbeats \in [Validators -> Heartbeat] /\ Cutoffs \subseteq Nat /\ Policies \subseteq WatermarkPolicy
      BY <1>1, SettlementAssumption, WatermarkAssumption
         DEF IInv, TypeOK, SettlementAssumption, WatermarkAssumption
    <2> SUFFICES ASSUME NEW policy \in Policies, NEW c \in watermark(policy, heartbeats)
                 PROVE  /\ Blocked(policy, heartbeats, c)
                        /\ \A higher \in Cutoffs : higher > c => ~Blocked(policy, heartbeats, higher)
      BY DEF WatermarkIsHighestBlocked
    <2>2. Blocked(policy, heartbeats, c)
      BY <2>1, WatermarkBlocks
    <2>3. ASSUME NEW higher \in Cutoffs, higher > c PROVE ~Blocked(policy, heartbeats, higher)
      BY <2>1, <2>3, WatermarkExact
    <2> QED  BY <2>2, <2>3
  <1> QED  BY <1>1, Invariance, PTL
=============================================================================
