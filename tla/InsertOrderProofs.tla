------------------------- MODULE InsertOrderProofs -------------------------
(***************************************************************************)
(* The binary search of #insertOrder finds the place of a candidate in any *)
(* sorted order, and the splice keeps the order sorted.                    *)
(***************************************************************************)
EXTENDS InsertOrder, TransactionOrderProofs

\* The inductive invariant of the loop: what lies below low precedes the
\* candidate and what lies at or above high does not, at the two borders.
IInv ==
    /\ TypeOK
    /\ StrictlySorted(orderedTxIds, Key)
    /\ ~done =>
        /\ low <= high
        /\ \A i \in DOMAIN orderedTxIds : orderedTxIds[i] # candidate
        /\ low > 0 => Precedes(Key[orderedTxIds[low]], Key[candidate])
        /\ high < Len(orderedTxIds) => ~Precedes(Key[orderedTxIds[high + 1]], Key[candidate])

LEMMA InitIInv == Init => IInv
  <1> SUFFICES ASSUME NEW order \in Seq(Ids), NEW id \in Ids, Entered(order, id) PROVE IInv
    BY DEF Init
  <1>1. /\ orderedTxIds = order /\ candidate = id /\ low = 0 /\ high = Len(order) /\ done = FALSE
        /\ StrictlySorted(order, Key) /\ Len(order) \in Nat
        /\ \A i \in DOMAIN order : order[i] # id
    BY DEF Entered
  <1>2. TypeOK
    <2>1. orderedTxIds \in Seq(Ids) /\ candidate \in Ids /\ done \in BOOLEAN
      BY <1>1
    <2>2. 0 \in 0 .. Len(order) /\ Len(order) \in 0 .. Len(order)
      BY <1>1
    <2>3. low \in 0 .. Len(orderedTxIds) /\ high \in 0 .. Len(orderedTxIds)
      BY <1>1, <2>2
    <2> QED  BY <2>1, <2>3 DEF TypeOK
  <1>3. ~(low > 0) /\ ~(high < Len(orderedTxIds)) /\ low <= high
    BY <1>1
  <1>4. StrictlySorted(orderedTxIds, Key) /\ \A i \in DOMAIN orderedTxIds : orderedTxIds[i] # candidate
    BY <1>1
  <1> QED  BY <1>2, <1>3, <1>4 DEF IInv

LEMMA SearchPreserves == IInv /\ Search => IInv'
  <1> SUFFICES ASSUME IInv, Search PROVE IInv'
    OBVIOUS
  <1> DEFINE m == (low + high) \div 2
             n == Len(orderedTxIds)
  <1>1. /\ ~done /\ low < high /\ Halve(m) /\ UNCHANGED <<orderedTxIds, candidate, done>>
    BY DEF Search
  <1>2. n \in Nat /\ low \in 0 .. n /\ high \in 0 .. n
    BY DEF IInv, TypeOK
  <1>3. m \in Nat /\ low <= m /\ m < high
    BY <1>1, <1>2
  <1> HIDE DEF m
  <1>4. CASE Precedes(Key[orderedTxIds[m + 1]], Key[candidate])
    <2>1. low' = m + 1 /\ high' = high
      BY <1>1, <1>4 DEF Halve
    <2>2. low' \in 0 .. n /\ low' <= high
      BY <1>2, <1>3, <2>1
    <2> QED  BY <1>1, <1>2, <1>4, <2>1, <2>2 DEF IInv, TypeOK
  <1>5. CASE ~Precedes(Key[orderedTxIds[m + 1]], Key[candidate])
    <2>1. low' = low /\ high' = m
      BY <1>1, <1>5 DEF Halve
    <2>2. high' \in 0 .. n /\ low <= high'
      BY <1>2, <1>3, <2>1
    <2> QED  BY <1>1, <1>2, <1>5, <2>1, <2>2 DEF IInv, TypeOK
  <1> QED  BY <1>4, <1>5

\* Where the loop ends, SearchExit holds.
LEMMA ExitHolds ==
    ASSUME IInv, ~done, low >= high
    PROVE  SearchExit(orderedTxIds, Key, candidate, low)
  <1>1. low = high
    BY DEF IInv, TypeOK
  <1> QED  BY <1>1 DEF IInv, TypeOK, SearchExit

LEMMA SplicePreserves == IInv /\ Splice => IInv'
  <1> SUFFICES ASSUME IInv, Splice PROVE IInv'
    OBVIOUS
  <1>1. /\ ~done /\ low >= high /\ done' = TRUE
        /\ orderedTxIds' = Spliced(orderedTxIds, low, candidate)
        /\ UNCHANGED <<candidate, low, high>>
    BY DEF Splice
  <1>2. /\ orderedTxIds \in Seq(Ids) /\ candidate \in Ids /\ StrictlySorted(orderedTxIds, Key)
        /\ Len(orderedTxIds) \in Nat /\ low \in 0 .. Len(orderedTxIds) /\ high \in 0 .. Len(orderedTxIds)
        /\ \A i \in DOMAIN orderedTxIds : orderedTxIds[i] # candidate
    BY <1>1 DEF IInv, TypeOK
  <1>3. SearchExit(orderedTxIds, Key, candidate, low)
    BY <1>1, ExitHolds
  <1>4. /\ Key \in [Ids -> OrderKeys]
        /\ \A a, b \in Ids : a # b => Key[a].txId # Key[b].txId
    BY KeyAssumption DEF KeyAssumption
  <1>6. /\ orderedTxIds' \in Seq(Ids)
        /\ Len(orderedTxIds') = Len(orderedTxIds) + 1
        /\ StrictlySorted(orderedTxIds', Key)
    <2>1. SpliceFacts(Ids, Key, orderedTxIds, candidate, low)
      BY <1>2, <1>3, <1>4, InsertFacts
    <2> QED  BY <1>1, <2>1 DEF SpliceFacts
  <1>7. low' \in 0 .. Len(orderedTxIds') /\ high' \in 0 .. Len(orderedTxIds')
    BY <1>1, <1>2, <1>6
  <1> QED  BY <1>1, <1>2, <1>6, <1>7 DEF IInv, TypeOK

\* The loop invariant holds at every turn of the search.
THEOREM Invariance == Spec => []IInv
  <1>1. IInv /\ [Next]_vars => IInv'
    <2>1. IInv /\ UNCHANGED vars => IInv'
      BY DEF IInv, TypeOK, vars
    <2> QED  BY <2>1, SearchPreserves, SplicePreserves DEF Next
  <1> QED  BY <1>1, InitIInv, PTL DEF Spec

\* The search of #insertOrder is exact for every order and every candidate.
THEOREM SearchExact == Spec => []SearchIsExact
  <1>1. IInv => SearchIsExact
    BY ExitHolds DEF SearchIsExact
  <1> QED  BY <1>1, Invariance, PTL

\* #insertOrder keeps the admitted order strictly ascending in
\* compareTransactionOrder, for any number of transactions.
THEOREM KeepsOrder == Spec => []InsertKeepsOrder
  <1>1. IInv => InsertKeepsOrder
    BY DEF IInv, InsertKeepsOrder
  <1> QED  BY <1>1, Invariance, PTL
=============================================================================
