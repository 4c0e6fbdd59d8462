---------------------------- MODULE InsertOrder ----------------------------
(***************************************************************************)
(* The binary search of ControlStore.#insertOrder, one iteration per step, *)
(* and the splice that follows it.                                         *)
(***************************************************************************)
EXTENDS TransactionOrder

CONSTANTS Ids, Key      \* transaction ids and their order keys

ASSUME KeyAssumption ==
    /\ Key \in [Ids -> OrderKeys]
    /\ \A a, b \in Ids : a # b => Key[a].txId # Key[b].txId

VARIABLES orderedTxIds, candidate, low, high, done

vars == <<orderedTxIds, candidate, low, high, done>>

TypeOK ==
    /\ orderedTxIds \in Seq(Ids)
    /\ candidate \in Ids
    /\ low \in 0 .. Len(orderedTxIds)
    /\ high \in 0 .. Len(orderedTxIds)
    /\ done \in BOOLEAN

\* #insertOrder is entered with a sorted order that lacks the candidate.
Entered(order, id) ==
    /\ orderedTxIds = order
    /\ candidate = id
    /\ StrictlySorted(order, Key)
    /\ id \notin {order[i] : i \in DOMAIN order}
    /\ low = 0
    /\ high = Len(order)
    /\ done = FALSE

Init == \E order \in Seq(Ids), id \in Ids : Entered(order, id)

\* mutant: the upper half is entered at the middle instead of after it.
HalveInclusive(middle) ==
    IF Precedes(Key[orderedTxIds[middle + 1]], Key[candidate])
    THEN low' = middle /\ UNCHANGED high
    ELSE high' = middle /\ UNCHANGED low

\* mutant: the comparison is turned round.
HalveReversed(middle) ==
    IF Precedes(Key[candidate], Key[orderedTxIds[middle + 1]])
    THEN low' = middle + 1 /\ UNCHANGED high
    ELSE high' = middle /\ UNCHANGED low

\* mutant: one entry too many is skipped.
HalvePast(middle) ==
    IF Precedes(Key[orderedTxIds[middle + 1]], Key[candidate])
    THEN low' = middle + 2 /\ UNCHANGED high
    ELSE high' = middle /\ UNCHANGED low

Halve(middle) ==
    IF Precedes(Key[orderedTxIds[middle + 1]], Key[candidate])
    THEN low' = middle + 1 /\ UNCHANGED high
    ELSE high' = middle /\ UNCHANGED low

\* One turn of the loop; middle is (low + high) >>> 1.
Search ==
    /\ ~done
    /\ low < high
    /\ Halve((low + high) \div 2)
    /\ UNCHANGED <<orderedTxIds, candidate, done>>

\* The loop has ended: splice, unless the candidate is already there.
Splice ==
    /\ ~done
    /\ low >= high
    /\ low < Len(orderedTxIds) => orderedTxIds[low + 1] # candidate
    /\ orderedTxIds' = Spliced(orderedTxIds, low, candidate)
    /\ done' = TRUE
    /\ UNCHANGED <<candidate, low, high>>

Next == Search \/ Splice

Spec == Init /\ [][Next]_vars

\* The loop and the splice run to completion in one synchronous call.
FairSpec == Spec /\ WF_vars(Next)

---------------------------------------------------------------------------

\* Wherever the search stops, the entry before low precedes the candidate and
\* the entry at low does not (SearchExit): what ControlStore relies on.
SearchIsExact ==
    ~done /\ low >= high => SearchExit(orderedTxIds, Key, candidate, low)

\* The splice keeps the order strictly ascending: #insertOrder never produces
\* an order that #verifyRestoredOrder would call corrupt.
InsertKeepsOrder == StrictlySorted(orderedTxIds, Key)

\* The search halves its interval: the call always returns, and the
\* candidate is in the order when it does.
InsertReturns == <>(done /\ candidate \in {orderedTxIds[i] : i \in DOMAIN orderedTxIds})
=============================================================================
