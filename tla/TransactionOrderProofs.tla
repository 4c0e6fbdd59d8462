----------------------- MODULE TransactionOrderProofs -----------------------
(***************************************************************************)
(* The transaction order is a strict total order, and splicing an id in    *)
(* where #insertOrder's search stops keeps a sequence sorted by it.        *)
(***************************************************************************)
EXTENDS TransactionOrder, TLAPS

\* compareTransactionOrder, read as a relation.
LEMMA PrecedesLexicographic ==
    ASSUME NEW a \in OrderKeys, NEW b \in OrderKeys
    PROVE  Precedes(a, b) <=>
              \/ a.authorTimestampMs < b.authorTimestampMs
              \/ /\ a.authorTimestampMs = b.authorTimestampMs
                 /\ \/ a.authorId < b.authorId
                    \/ /\ a.authorId = b.authorId
                       /\ \/ a.authorFeedSequence < b.authorFeedSequence
                          \/ /\ a.authorFeedSequence = b.authorFeedSequence
                             /\ a.txId < b.txId
  BY DEF Precedes, compareTransactionOrder, CompareNumber, OrderKeys

\* No key precedes itself.
LEMMA PrecedesIrreflexive ==
    ASSUME NEW a \in OrderKeys
    PROVE  ~Precedes(a, a)
  BY PrecedesLexicographic DEF OrderKeys

\* Precedence is transitive.
LEMMA PrecedesTransitive ==
    ASSUME NEW a \in OrderKeys, NEW b \in OrderKeys, NEW c \in OrderKeys,
           Precedes(a, b), Precedes(b, c)
    PROVE  Precedes(a, c)
  BY PrecedesLexicographic DEF OrderKeys

\* Keys of different transactions are ordered one way or the other.
LEMMA PrecedesTotal ==
    ASSUME NEW a \in OrderKeys, NEW b \in OrderKeys, a.txId # b.txId
    PROVE  Precedes(a, b) \/ Precedes(b, a)
  BY PrecedesLexicographic DEF OrderKeys

---------------------------------------------------------------------------

\* A search that stopped correctly in a sorted order splits it at low.
LEMMA ExitSplits ==
    ASSUME NEW Id, NEW K \in [Id -> OrderKeys], NEW order \in Seq(Id), NEW id \in Id,
           \A a, b \in Id : a # b => K[a].txId # K[b].txId,
           StrictlySorted(order, K),
           NEW cut, SearchExit(order, K, id, cut),
           \A i \in DOMAIN order : order[i] # id
    PROVE  /\ cut \in 0 .. Len(order)
           /\ \A i \in 1 .. Len(order) : i <= cut => Precedes(K[order[i]], K[id])
           /\ \A i \in 1 .. Len(order) : i > cut => Precedes(K[id], K[order[i]])
  <1>1. cut \in 0 .. Len(order) /\ Len(order) \in Nat /\ DOMAIN order = 1 .. Len(order)
        /\ \A i \in 1 .. Len(order) : order[i] \in Id /\ K[order[i]] \in OrderKeys
    BY DEF SearchExit
  <1>2. K[id] \in OrderKeys
    OBVIOUS
  <1>3. ASSUME NEW i \in 1 .. Len(order), i <= cut
        PROVE  Precedes(K[order[i]], K[id])
    <2>1. cut > 0 /\ cut \in 1 .. Len(order) /\ Precedes(K[order[cut]], K[id])
      BY <1>1, <1>3 DEF SearchExit
    <2>2. CASE i = cut
      BY <2>1, <2>2
    <2>3. CASE i < cut
      <3>1. Precedes(K[order[i]], K[order[cut]])
        BY <1>1, <2>1, <2>3 DEF StrictlySorted
      <3> QED  BY <1>1, <1>2, <2>1, <3>1, PrecedesTransitive
    <2> QED  BY <1>1, <1>3, <2>2, <2>3
  <1>4. ASSUME NEW i \in 1 .. Len(order), i > cut
        PROVE  Precedes(K[id], K[order[i]])
    <2>1. cut < Len(order) /\ cut + 1 \in 1 .. Len(order) /\ ~Precedes(K[order[cut + 1]], K[id])
      BY <1>1, <1>4 DEF SearchExit
    <2>2. K[order[cut + 1]].txId # K[id].txId
      BY <1>1, <2>1
    <2>3. Precedes(K[id], K[order[cut + 1]])
      BY <1>1, <1>2, <2>1, <2>2, PrecedesTotal
    <2>4. CASE i = cut + 1
      BY <2>3, <2>4
    <2>5. CASE i > cut + 1
      <3>1. Precedes(K[order[cut + 1]], K[order[i]])
        BY <1>1, <2>1, <2>5 DEF StrictlySorted
      <3> QED  BY <1>1, <1>2, <2>1, <2>3, <3>1, PrecedesTransitive
    <2> QED  BY <1>1, <1>4, <2>4, <2>5
  <1> QED  BY <1>1, <1>3, <1>4

\* Splicing at such a place keeps the order strictly ascending, and adds the
\* new id and nothing else.
LEMMA SpliceSorted ==
    ASSUME NEW Id, NEW K \in [Id -> OrderKeys], NEW order \in Seq(Id), NEW id \in Id,
           StrictlySorted(order, K), NEW cut \in 0 .. Len(order),
           \A i \in 1 .. Len(order) : i <= cut => Precedes(K[order[i]], K[id]),
           \A i \in 1 .. Len(order) : i > cut => Precedes(K[id], K[order[i]])
    PROVE  /\ Spliced(order, cut, id) \in Seq(Id)
           /\ Len(Spliced(order, cut, id)) = Len(order) + 1
           /\ StrictlySorted(Spliced(order, cut, id), K)
           /\ \A t \in Id : (\E i \in DOMAIN Spliced(order, cut, id) : Spliced(order, cut, id)[i] = t)
                              <=> (t = id \/ \E i \in DOMAIN order : order[i] = t)
  <1> DEFINE new == Spliced(order, cut, id)
             n == Len(order)
  <1>1. n \in Nat /\ DOMAIN order = 1 .. n /\ cut \in 0 .. n
        /\ (\A i \in 1 .. n : order[i] \in Id)
    OBVIOUS
  <1>2. new = [i \in 1 .. n + 1 |-> IF i <= cut THEN order[i] ELSE IF i = cut + 1 THEN id ELSE order[i - 1]]
    BY DEF Spliced
  <1> HIDE DEF new, n
  <1>3. DOMAIN new = 1 .. n + 1 /\ (\A i \in 1 .. n + 1 : new[i] \in Id)
    BY <1>1, <1>2
  <1>4. new \in Seq(Id) /\ Len(new) = n + 1
    <2>1. new \in [1 .. n + 1 -> Id] /\ n + 1 \in Nat
      BY <1>1, <1>2, <1>3
    <2> QED  BY <2>1
  <1>5. ASSUME NEW i \in 1 .. n + 1
        PROVE  /\ i <= cut => i \in 1 .. n /\ new[i] = order[i]
               /\ i = cut + 1 => new[i] = id
               /\ i > cut + 1 => i - 1 \in 1 .. n /\ i - 1 > cut /\ new[i] = order[i - 1]
    BY <1>1, <1>2
  <1>6. ASSUME NEW i \in 1 .. n + 1, NEW j \in 1 .. n + 1, i < j
        PROVE  Precedes(K[new[i]], K[new[j]])
    <2>1. CASE i <= cut /\ j <= cut
      BY <1>1, <1>5, <1>6, <2>1 DEF StrictlySorted
    <2>2. CASE i <= cut /\ j = cut + 1
      BY <1>5, <2>2 DEF n
    <2>3. CASE i <= cut /\ j > cut + 1
      <3>1. i \in 1 .. n /\ j - 1 \in 1 .. n /\ i < j - 1 /\ new[i] = order[i] /\ new[j] = order[j - 1]
        BY <1>1, <1>5, <2>3
      <3> QED  BY <1>1, <3>1 DEF StrictlySorted
    <2>4. CASE i = cut + 1
      BY <1>1, <1>5, <1>6, <2>4 DEF n
    <2>5. CASE i > cut + 1
      <3>1. i - 1 \in 1 .. n /\ j - 1 \in 1 .. n /\ i - 1 < j - 1 /\ new[i] = order[i - 1] /\ new[j] = order[j - 1]
        BY <1>1, <1>5, <1>6, <2>5
      <3> QED  BY <1>1, <3>1 DEF StrictlySorted
    <2> QED  BY <1>1, <2>1, <2>2, <2>3, <2>4, <2>5
  <1>7. StrictlySorted(new, K)
    BY <1>3, <1>6 DEF StrictlySorted
  <1>8. ASSUME NEW t \in Id
        PROVE  (\E i \in DOMAIN new : new[i] = t) <=> (t = id \/ \E i \in DOMAIN order : order[i] = t)
    <2>1. ASSUME NEW i \in 1 .. n + 1, new[i] = t PROVE t = id \/ \E k \in DOMAIN order : order[k] = t
      <3>1. CASE i <= cut
        BY <1>1, <1>5, <2>1, <3>1
      <3>2. CASE i = cut + 1
        BY <1>5, <2>1, <3>2
      <3>3. CASE i > cut + 1
        <4>1. i - 1 \in DOMAIN order /\ order[i - 1] = t
          BY <1>1, <1>5, <2>1, <3>3
        <4> QED  BY <4>1
      <3> QED  BY <1>1, <3>1, <3>2, <3>3
    <2>2. t = id => \E i \in DOMAIN new : new[i] = t
      <3>1. cut + 1 \in 1 .. n + 1
        BY <1>1
      <3> QED  BY <1>3, <1>5, <3>1
    <2>3. ASSUME NEW k \in 1 .. n, order[k] = t PROVE \E i \in DOMAIN new : new[i] = t
      <3>1. CASE k <= cut
        <4>1. k \in 1 .. n + 1 /\ new[k] = order[k]
          BY <1>1, <1>5, <3>1
        <4> QED  BY <1>3, <2>3, <4>1
      <3>2. CASE k > cut
        <4>1. k + 1 \in 1 .. n + 1 /\ new[k + 1] = order[k]
          BY <1>1, <1>2, <3>2
        <4> QED  BY <1>3, <2>3, <4>1
      <3> QED  BY <1>1, <3>1, <3>2
    <2> QED  BY <1>1, <1>3, <2>1, <2>2, <2>3
  <1> QED  BY <1>4, <1>7, <1>8 DEF new, n

\* What a splice makes of an order.
SpliceFacts(Id, K, order, id, cut) ==
    /\ Spliced(order, cut, id) \in Seq(Id)
    /\ Len(Spliced(order, cut, id)) = Len(order) + 1
    /\ StrictlySorted(Spliced(order, cut, id), K)
    /\ \A t \in Id : (\E i \in DOMAIN Spliced(order, cut, id) : Spliced(order, cut, id)[i] = t)
                       <=> (t = id \/ \E i \in DOMAIN order : order[i] = t)

\* The two lemmas together: insertion into a sorted order.
LEMMA InsertFacts ==
    ASSUME NEW Id, NEW K \in [Id -> OrderKeys], NEW order \in Seq(Id), NEW id \in Id,
           \A a, b \in Id : a # b => K[a].txId # K[b].txId,
           StrictlySorted(order, K),
           NEW cut, SearchExit(order, K, id, cut),
           \A i \in DOMAIN order : order[i] # id
    PROVE  SpliceFacts(Id, K, order, id, cut)
  <1>1. /\ cut \in 0 .. Len(order)
        /\ \A i \in 1 .. Len(order) : i <= cut => Precedes(K[order[i]], K[id])
        /\ \A i \in 1 .. Len(order) : i > cut => Precedes(K[id], K[order[i]])
    BY ExitSplits
  <1> QED  BY <1>1, SpliceSorted DEF SpliceFacts
=============================================================================
