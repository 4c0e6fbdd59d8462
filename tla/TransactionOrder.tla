-------------------------- MODULE TransactionOrder --------------------------
(***************************************************************************)
(* The total order of transactions (packages/protocol/src/messages.ts) and *)
(* what it means for a sequence of transaction ids to follow it.  Author   *)
(* and transaction ids are byte strings in the code; compareBytes orders   *)
(* them totally, so a natural number stands for each.                      *)
(***************************************************************************)
EXTENDS Integers, Sequences

OrderKeys == [authorTimestampMs : Nat, authorId : Nat, authorFeedSequence : Nat, txId : Nat]

CompareNumber(a, b) == IF a = b THEN 0 ELSE IF a < b THEN -1 ELSE 1

\* mutant: the author's own sequence is compared before the author.
CompareSequenceFirst(left, right) ==
    CASE left.authorTimestampMs # right.authorTimestampMs ->
           CompareNumber(left.authorTimestampMs, right.authorTimestampMs)
      [] OTHER -> CompareNumber(left.authorFeedSequence, right.authorFeedSequence)

compareTransactionOrder(left, right) ==
    CASE left.authorTimestampMs # right.authorTimestampMs ->
           CompareNumber(left.authorTimestampMs, right.authorTimestampMs)
      [] left.authorTimestampMs = right.authorTimestampMs /\ left.authorId # right.authorId ->
           CompareNumber(left.authorId, right.authorId)
      [] left.authorTimestampMs = right.authorTimestampMs /\ left.authorId = right.authorId
         /\ left.authorFeedSequence # right.authorFeedSequence ->
           CompareNumber(left.authorFeedSequence, right.authorFeedSequence)
      [] OTHER -> CompareNumber(left.txId, right.txId)

Precedes(left, right) == compareTransactionOrder(left, right) < 0

\* A sequence of ids, each with an order key, in strictly ascending order.
StrictlySorted(order, Key) ==
    \A i, j \in DOMAIN order : i < j => Precedes(Key[order[i]], Key[order[j]])

\* splice(low, 0, id): ids[0 .. low) stay, the rest moves up by one.
Spliced(order, low, id) ==
    [i \in 1 .. Len(order) + 1 |->
        IF i <= low THEN order[i] ELSE IF i = low + 1 THEN id ELSE order[i - 1]]

\* What the binary search of #insertOrder guarantees when it stops at low,
\* whether or not the sequence is sorted: the entry before low precedes the
\* new key and the entry at low does not.
SearchExit(order, Key, id, low) ==
    /\ low \in 0 .. Len(order)
    /\ low > 0 => Precedes(Key[order[low]], Key[id])
    /\ low < Len(order) => ~Precedes(Key[order[low + 1]], Key[id])
=============================================================================
