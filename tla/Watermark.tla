----------------------------- MODULE Watermark -----------------------------
(***************************************************************************)
(* ControlStore.watermark: the highest cutoff that every possible proof of *)
(* a validation policy has to respect, from one heartbeat per validator of *)
(* the policy's membership revision.  Null is the empty set; an            *)
(* established watermark is a set with one element.                        *)
(***************************************************************************)
EXTENDS Integers, FiniteSets

CONSTANTS
    Validators,     \* validatorIds of the policies
    Policies        \* the policies that a watermark is asked for

\* threshold is of one kind, minimalProofs of the other.
WatermarkPolicy ==
    [kind : {"threshold", "proof-alternatives"}, threshold : Nat, minimalProofs : SUBSET SUBSET Validators]

ASSUME WatermarkAssumption ==
    /\ IsFiniteSet(Validators)
    /\ Policies \subseteq WatermarkPolicy

Heartbeat == [sequence : Nat, cutoff : Nat, contiguous : BOOLEAN]

\* No heartbeat counts like one on a feed with a gap.
NoHeartbeat == [sequence |-> 0, cutoff |-> 0, contiguous |-> FALSE]

Available(hb) == {v \in Validators : hb[v].contiguous}

Lower(hb, c) == {v \in Available(hb) : hb[v].cutoff < c}

NotAbove(hb, c) == {v \in Available(hb) : hb[v].cutoff <= c}

\* mutant: missing heartbeats are not counted as the lowest ones.
SelectedIndexIgnoringMissing(threshold, hb) == threshold - 1

SelectedIndex(threshold, hb) == threshold - 1 - Cardinality(Validators \ Available(hb))

\* #thresholdWatermark: available[selectedIndex] of the ascending sort is the
\* cutoff that at most selectedIndex entries are below and more than
\* selectedIndex entries are not above.
ThresholdWatermark(threshold, hb) ==
    {c \in {hb[v].cutoff : v \in Available(hb)} :
        /\ threshold \in 1 .. Cardinality(Validators)
        /\ Cardinality(Lower(hb, c)) <= SelectedIndex(threshold, hb)
        /\ SelectedIndex(threshold, hb) < Cardinality(NotAbove(hb, c))}

\* mutant: the lowest cutoff of the proof instead of the highest.
WorstOf(hb, proof) ==
    {v \in proof \cap Available(hb) : \A w \in proof \cap Available(hb) : hb[w].cutoff >= hb[v].cutoff}

\* The available validators of a proof with its highest cutoff.
BestOf(hb, proof) ==
    {v \in proof \cap Available(hb) : \A w \in proof \cap Available(hb) : hb[w].cutoff <= hb[v].cutoff}

\* The lowest of the proofs' best cutoffs; null when a proof has none.
AlternativesWatermark(minimalProofs, hb) ==
    {c \in {hb[v].cutoff : v \in Available(hb)} :
        /\ \A proof \in minimalProofs : \E v \in BestOf(hb, proof) : hb[v].cutoff >= c
        /\ \E proof \in minimalProofs : \E v \in BestOf(hb, proof) : hb[v].cutoff = c}

watermark(policy, hb) ==
    IF policy.kind = "threshold"
    THEN ThresholdWatermark(policy.threshold, hb)
    ELSE AlternativesWatermark(policy.minimalProofs, hb)

\* The sets of validators whose attestations admit a transaction.
Satisfies(policy, Q) ==
    IF policy.kind = "threshold"
    THEN Cardinality(Q) >= policy.threshold
    ELSE \E proof \in policy.minimalProofs : proof \subseteq Q

\* Every satisfying set contains a validator whose contiguous cutoff is c or
\* more: the definition of a watermark, without the sort.
Blocked(policy, hb, c) ==
    \A Q \in SUBSET Validators :
        Satisfies(policy, Q) => \E v \in Q : hb[v].contiguous /\ hb[v].cutoff >= c
=============================================================================
