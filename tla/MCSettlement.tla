---------------------------- MODULE MCSettlement ----------------------------
EXTENDS Settlement, TLC

CONSTANTS v1, v2, v3, t1, MaxFeed

MCTimestamp == [tx \in Txs |-> 1]

AtLeast(k) == [kind |-> "threshold", threshold |-> k, minimalProofs |-> {}]

TwoOfThree == {AtLeast(2)}

\* One, two and all of the validators, more than there are, alternative proofs
\* that share a validator, and alternative proofs of unequal size.
AllKinds ==
    {AtLeast(k) : k \in 1 .. 4}
        \cup {[kind |-> "proof-alternatives", threshold |-> 0, minimalProofs |-> proofs] :
                proofs \in {{{v1, v2}, {v1, v3}}, {{v1, v2}, {v3}}}}

\* Feeds hold at most MaxFeed records.
Bounded == \A v \in Validators : Len(feed[v]) <= MaxFeed

\* Heartbeats that announce nothing are left out, and a feed has at most one
\* heartbeat and one attestation.
Telling ==
    /\ Bounded
    /\ \A v \in Validators : \A i, j \in DOMAIN feed[v] :
           /\ feed[v][i].kind = "heartbeat" => feed[v][i].cutoff > 0
           /\ feed[v][i].kind = feed[v][j].kind => i = j

\* Every crash loses the whole control file.
NothingSaved == saved' = saved

\* At most one snapshot is written.
SavedOnce == saved' = saved \/ saved.heartbeats = [v \in Validators |-> NoHeartbeat]

Symmetry == Permutations(Validators)
=============================================================================
