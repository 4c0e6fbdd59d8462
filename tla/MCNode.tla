------------------------------- MODULE MCNode -------------------------------
EXTENDS Node, TLC

CONSTANTS c1, a1, a2, x1, g1, t1, p1, p2

MCKind == [r \in Records |-> IF r = c1 THEN "candidate" ELSE "attestation"]

MCTx == [r \in Records |-> t1]

\* Nothing reads a snapshot that is written after the last restart.
ReadSnapshots == saved' # saved => restarts < MaxRestarts

\* One of the records that can hold a place for good is left out.
OneHolds == ReadSnapshots /\ ~({x1, g1} \subseteq log')

Symmetry == Permutations({a1, a2}) \cup Permutations(Passes)
=============================================================================
