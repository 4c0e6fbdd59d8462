----------------------------- MODULE Settlement -----------------------------
(***************************************************************************)
(* Validators append attestations and heartbeats to their feeds; one       *)
(* replica receives the feeds, ingests their records and computes a        *)
(* watermark.  What a client may conclude from a watermark                 *)
(* (settlementEvidence) rests on every cutoff promise at once.             *)
(*                                                                         *)
(* A validator is what ValidatorCutoff shows it to be: its cutoff survives *)
(* crashes and never falls; an attestation is captured with the cutoff of  *)
(* that moment and appended later, and heartbeats do not wait for it.      *)
(*                                                                         *)
(* The replica ingests what its transport holds in any order: a record     *)
(* that fails waits for a retry while later records of its feed are        *)
(* ingested, and a replica that is itself a validator ingests its own      *)
(* heartbeat at once.  Node shows that a waiting record is not forgotten.  *)
(* The governance log is read by a subscription of its own, so the         *)
(* membership revision may come after the records that refer to it.        *)
(***************************************************************************)
EXTENDS Watermark, Sequences

CONSTANTS Txs, Timestamp, Cutoffs, None

ASSUME SettlementAssumption ==
    /\ Timestamp \in [Txs -> Nat]
    /\ Cutoffs \subseteq Nat
    /\ None \notin Txs

VARIABLES
    cutoff,         \* #acceptedAboveMs of each validator
    inFlight,       \* the attestation that is captured and not appended
    feed,           \* each validator's feed
    held,           \* of each feed, the sequences the replica's transport has
    seen,           \* the ones that are dealt with (#seen)
    refused,        \* of these, the ones that ended in a terminal error
    heartbeats,     \* the replica's stored heartbeats
    references,     \* (validator, transaction) of its stored attestations
    saved,          \* the heartbeats and references of its last snapshot
    governed,       \* it has ingested the membership revision
    closed          \* what the last evidence let a client take as closed

vars == <<cutoff, inFlight, feed, held, seen, refused, heartbeats, references, saved, governed, closed>>

\* decidedAt, the length of the feed when the attestation was captured, is
\* history: no guard reads it.
Attestation(tx, decidedAt) == [kind |-> "attestation", tx |-> tx, cutoff |-> 0, decidedAt |-> decidedAt]

Announcement(c) == [kind |-> "heartbeat", tx |-> None, cutoff |-> c, decidedAt |-> 0]

Record == [kind : {"attestation", "heartbeat"}, tx : Txs \cup {None}, cutoff : Nat, decidedAt : Nat]

NoFlight == [tx |-> None, decidedAt |-> 0]

TypeOK ==
    /\ cutoff \in [Validators -> Nat]
    /\ inFlight \in [Validators -> [tx : Txs \cup {None}, decidedAt : Nat]]
    /\ feed \in [Validators -> Seq(Record)]
    /\ {held, seen, refused} \subseteq [Validators -> SUBSET Nat]
    /\ \A v \in Validators : refused[v] \subseteq seen[v] /\ seen[v] \subseteq held[v] /\ held[v] \subseteq DOMAIN feed[v]
    /\ heartbeats \in [Validators -> Heartbeat]
    /\ references \subseteq Validators \X Txs
    /\ saved \in [heartbeats : [Validators -> Heartbeat], references : SUBSET (Validators \X Txs)]
    /\ governed \in BOOLEAN
    /\ closed \subseteq [policy : Policies, tx : Txs, decided : SUBSET Validators]

Init ==
    /\ cutoff = [v \in Validators |-> 0]
    /\ inFlight = [v \in Validators |-> NoFlight]
    /\ feed = [v \in Validators |-> << >>]
    /\ held = [v \in Validators |-> {}]
    /\ seen = [v \in Validators |-> {}]
    /\ refused = [v \in Validators |-> {}]
    /\ heartbeats = [v \in Validators |-> NoHeartbeat]
    /\ references = {}
    /\ saved = [heartbeats |-> heartbeats, references |-> references]
    /\ governed = FALSE
    /\ closed = {}

---------------------------------------------------------------------------
(* Validators *)

\* mutant: a timestamp at the cutoff is accepted.
AttestAtCutoff(v, tx, c) ==
    /\ inFlight[v] = NoFlight
    /\ c >= cutoff[v]
    /\ Timestamp[tx] >= c
    /\ cutoff' = [cutoff EXCEPT ![v] = c]
    /\ inFlight' = [inFlight EXCEPT ![v] = [tx |-> tx, decidedAt |-> Len(feed[v])]]
    /\ UNCHANGED <<feed, held, seen, refused, heartbeats, references, saved, governed, closed>>

\* #maybeAttest up to the capture: the cutoff follows the clock, and the
\* encoder refuses a timestamp that is not above it.  The mutex of ingest
\* allows one attestation in flight.
AttestCapture(v, tx, c) ==
    /\ inFlight[v] = NoFlight
    /\ c >= cutoff[v]
    /\ Timestamp[tx] > c
    /\ cutoff' = [cutoff EXCEPT ![v] = c]
    /\ inFlight' = [inFlight EXCEPT ![v] = [tx |-> tx, decidedAt |-> Len(feed[v])]]
    /\ UNCHANGED <<feed, held, seen, refused, heartbeats, references, saved, governed, closed>>

\* transport.publish of the captured attestation.
AttestAppend(v) ==
    /\ inFlight[v] # NoFlight
    /\ feed' = [feed EXCEPT ![v] = Append(@, Attestation(inFlight[v].tx, inFlight[v].decidedAt))]
    /\ inFlight' = [inFlight EXCEPT ![v] = NoFlight]
    /\ UNCHANGED <<cutoff, held, seen, refused, heartbeats, references, saved, governed, closed>>

\* publish rejects, or the validator crashes before it.
AttestLost(v) ==
    /\ inFlight[v] # NoFlight
    /\ inFlight' = [inFlight EXCEPT ![v] = NoFlight]
    /\ UNCHANGED <<cutoff, feed, held, seen, refused, heartbeats, references, saved, governed, closed>>

\* publishHeartbeat up to the append, with c the cutoff when it is reached.
\* A call that another one overtook announces an older cutoff.
PublishHeartbeat(v, c, announced) ==
    /\ c >= cutoff[v] /\ announced <= c
    /\ cutoff' = [cutoff EXCEPT ![v] = c]
    /\ feed' = [feed EXCEPT ![v] = Append(@, Announcement(announced))]
    /\ UNCHANGED <<inFlight, held, seen, refused, heartbeats, references, saved, governed, closed>>

---------------------------------------------------------------------------
(* The replica *)

\* A record reaches the replica's transport, possibly before an earlier one.
Receive(v, i) ==
    /\ i \in DOMAIN feed[v] \ held[v]
    /\ held' = [held EXCEPT ![v] = @ \cup {i}]
    /\ UNCHANGED <<cutoff, inFlight, feed, seen, refused, heartbeats, references, saved, governed, closed>>

\* mutant: asks for the record, not for what precedes it.
HoldsRecord(v, i) == i \in held[v]

\* #isFeedContiguous: the transport has the feed without a gap up to i.
IsFeedContiguous(v, i) == 1 .. i \subseteq held[v]

\* recordHeartbeat: an older or repeated record and a lower cutoff leave the
\* stored heartbeat as it is.
Recorded(hb, v, sequence, c, contiguous) ==
    IF sequence > hb[v].sequence /\ c >= hb[v].cutoff
    THEN [hb EXCEPT ![v] = [sequence |-> sequence, cutoff |-> c, contiguous |-> contiguous]]
    ELSE hb

\* What #ingestAttestation and #ingestHeartbeat store.  The transport's feed
\* state may lag behind what it has delivered, never run ahead of it.
Store(v, i, contiguous) ==
    /\ contiguous => IsFeedContiguous(v, i)
    /\ references' = IF feed[v][i].kind = "attestation"
                     THEN references \cup {<<v, feed[v][i].tx>>} ELSE references
    /\ heartbeats' = IF feed[v][i].kind = "heartbeat"
                     THEN Recorded(heartbeats, v, i, feed[v][i].cutoff, contiguous) ELSE heartbeats

\* mutant: marks the record after the one it has stored.
IngestAhead(v, i, contiguous) ==
    /\ i \in held[v] \ seen[v]
    /\ governed
    /\ Store(v, i, contiguous)
    /\ seen' = [seen EXCEPT ![v] = @ \cup {i + 1}]
    /\ UNCHANGED <<cutoff, inFlight, feed, held, refused, saved, governed, closed>>

\* ingest of a record that is stored and dealt with.
Ingest(v, i, contiguous) ==
    /\ i \in held[v] \ seen[v]
    /\ governed
    /\ Store(v, i, contiguous)
    /\ seen' = [seen EXCEPT ![v] = @ \cup {i}]
    /\ UNCHANGED <<cutoff, inFlight, feed, held, refused, saved, governed, closed>>

\* An attestation is stored and #evaluateAdmission throws: the record waits
\* for a retry.  A failure before the store changes nothing here.
IngestFails(v, i) ==
    /\ i \in held[v] \ seen[v]
    /\ governed
    /\ feed[v][i].kind = "attestation"
    /\ Store(v, i, FALSE)
    /\ UNCHANGED <<cutoff, inFlight, feed, held, seen, refused, saved, governed, closed>>

\* A record that refers to an unknown revision ends in a terminal error.
IngestRefuses(v, i) ==
    /\ i \in held[v] \ seen[v]
    /\ ~governed
    /\ seen' = [seen EXCEPT ![v] = @ \cup {i}]
    /\ refused' = [refused EXCEPT ![v] = @ \cup {i}]
    /\ UNCHANGED <<cutoff, inFlight, feed, held, heartbeats, references, saved, governed, closed>>

\* The governance subscription delivers the revision.
LearnRevision ==
    /\ ~governed
    /\ governed' = TRUE
    /\ UNCHANGED <<cutoff, inFlight, feed, held, seen, refused, heartbeats, references, saved, closed>>

\* A requested save reaches the disk.
Save ==
    /\ saved' = [heartbeats |-> heartbeats, references |-> references]
    /\ UNCHANGED <<cutoff, inFlight, feed, held, seen, refused, heartbeats, references, governed, closed>>

\* The replica crashes, restores its last snapshot and has every record of its
\* transport before it again.
Restart ==
    /\ heartbeats' = saved.heartbeats
    /\ references' = saved.references
    /\ seen' = [v \in Validators |-> {}]
    /\ refused' = [v \in Validators |-> {}]
    /\ UNCHANGED <<cutoff, inFlight, feed, held, saved, governed, closed>>

Attested(v, tx) == \E i \in DOMAIN feed[v] : feed[v][i].kind = "attestation" /\ feed[v][i].tx = tx

\* settlementEvidence under a policy, with watermark c: what is not above it
\* and not referenced by a stored attestation is taken as closed.  decided, the
\* validators that have attested it or are about to, is history.  The code
\* throws when it is asked about an unknown candidate, and lists the history
\* reopenings at or below its timestamp beside this answer.
Settle(policy, c) ==
    /\ c \in watermark(policy, heartbeats)
    /\ closed' = {[policy |-> policy, tx |-> tx,
                    decided |-> {v \in Validators : Attested(v, tx) \/ inFlight[v].tx = tx}] :
                     tx \in {t \in Txs : Timestamp[t] <= c /\ \A v \in Validators : <<v, t>> \notin references}}
    /\ UNCHANGED <<cutoff, inFlight, feed, held, seen, refused, heartbeats, references, saved, governed>>

Next ==
    \/ \E v \in Validators, tx \in Txs, c \in Cutoffs : AttestCapture(v, tx, c)
    \/ \E v \in Validators : AttestAppend(v)
    \/ \E v \in Validators : AttestLost(v)
    \/ \E v \in Validators, c \in Cutoffs, announced \in Cutoffs : PublishHeartbeat(v, c, announced)
    \/ \E v \in Validators : \E i \in DOMAIN feed[v] : Receive(v, i)
    \/ \E v \in Validators : \E i \in held[v], contiguous \in BOOLEAN : Ingest(v, i, contiguous)
    \/ \E v \in Validators : \E i \in held[v] : IngestFails(v, i)
    \/ \E v \in Validators : \E i \in held[v] : IngestRefuses(v, i)
    \/ LearnRevision
    \/ Save
    \/ Restart
    \/ \E policy \in Policies, c \in Cutoffs : Settle(policy, c)

Spec == Init /\ [][Next]_vars

---------------------------------------------------------------------------
(* Properties *)

\* The attestation at i was captured before v appended a heartbeat that covers
\* its transaction, and appended after it.
Overtaken(v, i) ==
    \E j \in DOMAIN feed[v] :
        /\ feed[v][i].decidedAt < j /\ j < i
        /\ feed[v][j].kind = "heartbeat" /\ feed[v][j].cutoff >= Timestamp[feed[v][i].tx]

\* The replica has the record and has still to ingest it, or will again.
Waiting(v, i) == i \in held[v] \ seen[v]

\* A transaction at or below the watermark that has a complete proof on the
\* validators' feeds is referenced by a stored attestation, so that
\* settlementEvidence can list it; or every attestation of some validator of
\* the proof waits for a retry, was refused for its unknown revision, or was
\* in flight when the heartbeat was appended.  Nothing else hides it: neither
\* a gap in a feed, nor the order of ingestion, nor a restart.
ExposedBelowWatermark ==
    \A policy \in Policies, tx \in Txs : \A c \in watermark(policy, heartbeats) : Timestamp[tx] <= c =>
        \A Q \in SUBSET Validators :
            Satisfies(policy, Q) /\ (\A v \in Q : Attested(v, tx)) =>
                \E v \in Q :
                    \/ <<v, tx>> \in references
                    \/ \A i \in DOMAIN feed[v] :
                           feed[v][i].kind = "attestation" /\ feed[v][i].tx = tx =>
                               Waiting(v, i) \/ i \in refused[v] \/ Overtaken(v, i)

\* docs/design.md:605: the synchronized feeds, that is feeds whose every record
\* is ingested, expose a reference to every transaction at or below the
\* watermark that has a complete proof on them.
SynchronizedFeedsExpose ==
    (\A v \in Validators : DOMAIN feed[v] \subseteq seen[v]) =>
        \A policy \in Policies, tx \in Txs : \A c \in watermark(policy, heartbeats) : Timestamp[tx] <= c =>
            \A Q \in SUBSET Validators :
                Satisfies(policy, Q) /\ (\A v \in Q : Attested(v, tx)) => \E v \in Q : <<v, tx>> \in references

\* Every proof of a transaction that evidence closed contains an attestation
\* its validator had decided before: no proof is completed by later decisions
\* alone, whatever the replica has read, lost or still retries.
ClosedHistoryStaysClosed ==
    \A entry \in closed, Q \in SUBSET Validators :
        Satisfies(entry.policy, Q) => \E v \in Q : v \in entry.decided \/ ~Attested(v, entry.tx)

\* The computed watermark is a cutoff that blocks every proof, and no higher
\* cutoff does.
WatermarkIsHighestBlocked ==
    \A policy \in Policies : \A c \in watermark(policy, heartbeats) :
        /\ Blocked(policy, heartbeats, c)
        /\ \A higher \in Cutoffs : higher > c => ~Blocked(policy, heartbeats, higher)
=============================================================================
