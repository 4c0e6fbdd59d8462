------------------------- MODULE MCValidatorCutoff -------------------------
(* One candidate whose timestamp falls inside the range the clock covers,  *)
(* so that heartbeats can announce cutoffs below, at and above it.         *)
EXTENDS ValidatorCutoff, TLC

CONSTANTS t1, MaxFeed

MCTxs == {t1}
MCTimestamp == t1 :> 2
MCClock == {0, 2, 3}
TaskSymmetry == Permutations(HeartbeatTasks)

\* Bound: the feed holds at most MaxFeed records.
FeedBound == Len(feed) <= MaxFeed
=============================================================================
