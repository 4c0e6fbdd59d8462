-------------------------- MODULE ValidatorCutoff --------------------------
(***************************************************************************)
(* One validator node and its signing state: the acceptance cutoff held in *)
(* memory (#acceptedAboveMs), its crash-safe journal, the rebuildable      *)
(* control-store snapshot, and the validator's own append-only feed.       *)
(*                                                                         *)
(* #maybeAttest runs inside the node's ingestion mutex; publishHeartbeat   *)
(* does not, and several heartbeats may be in flight (setInterval does not *)
(* wait for the previous one).  Every await is a point where the other     *)
(* tasks run, so each handler is split exactly at its awaits.  The process *)
(* may crash between any two steps.  The clock is not trusted: every       *)
(* reading is an arbitrary member of Clock, so it may run backwards.       *)
(***************************************************************************)
EXTENDS Integers, Sequences

CONSTANTS Txs,                  \* candidates delivered to this validator
          Timestamp,            \* author timestamp of each candidate
          HeartbeatTasks,       \* publishHeartbeat calls that may overlap
          Clock,                \* readings #clockNow can return
          CutoffLag,            \* validator.cutoffLagMs
          MaxFutureSkew,        \* validator.maxFutureSkewMs
          InitialAcceptedAbove, \* validator.initialAcceptedAboveMs
          None                  \* the transaction of a heartbeat record

ASSUME ConstantsAssumption ==
    /\ Timestamp \in [Txs -> Nat]
    /\ Clock \subseteq Nat
    /\ CutoffLag \in Nat
    /\ MaxFutureSkew \in Nat
    /\ InitialAcceptedAbove \in Nat
    /\ None \notin Txs

VARIABLES up,             \* the process is running and start() has returned
          acceptedAbove,  \* #acceptedAboveMs, volatile
          control,        \* the control store's memory for this validator
          journal,        \* the cutoff journal on disk, -1 when absent
          disk,           \* the last control-store snapshot written to disk
          feed,           \* the validator's own feed
          hb,             \* the publishHeartbeat calls in flight
          attest,         \* the #maybeAttest call that holds the mutex
          seen,           \* own feed positions this process has ingested
          settled         \* candidates this process has finished ingesting

vars == <<up, acceptedAbove, control, journal, disk, feed, hb, attest, seen, settled>>

NoCutoff == -1

FeedRecord ==
    [type : {"heartbeat", "attestation"},
     tx : Txs \cup {None},
     cutoff : Nat,       \* acceptanceCutoffMs, or acceptedAboveMs
     decidedAt : Nat]    \* history: feed length when the cutoff was read

ControlState ==
    [cutoff : Nat \cup {NoCutoff},     \* #validatorCutoffs of this validator
     heartbeat : Nat,                  \* position of its latest heartbeat
     attestations : SUBSET (Nat \ {0})]    \* positions of its attestations

EmptyControl == [cutoff |-> NoCutoff, heartbeat |-> 0, attestations |-> {}]

HeartbeatTask == [pc : {"idle", "authorizing", "encoding"}, cutoff : Nat, decidedAt : Nat]
AttestTask == [pc : {"idle", "checked", "captured"}, tx : Txs \cup {None},
               cutoff : Nat, decidedAt : Nat]

IdleHeartbeat == [pc |-> "idle", cutoff |-> 0, decidedAt |-> 0]
IdleAttest == [pc |-> "idle", tx |-> None, cutoff |-> 0, decidedAt |-> 0]

TypeOK ==
    /\ up \in BOOLEAN
    /\ acceptedAbove \in Nat
    /\ control \in ControlState
    /\ journal \in Nat \cup {NoCutoff}
    /\ disk \in ControlState
    /\ feed \in Seq(FeedRecord)
    /\ hb \in [HeartbeatTasks -> HeartbeatTask]
    /\ attest \in AttestTask
    /\ attest.pc # "idle" => attest.tx \in Txs
    /\ seen \subseteq Nat
    /\ settled \subseteq Txs

Init ==
    /\ up = FALSE
    /\ acceptedAbove = InitialAcceptedAbove
    /\ control = EmptyControl
    /\ journal = NoCutoff
    /\ disk = EmptyControl
    /\ feed = << >>
    /\ hb = [h \in HeartbeatTasks |-> IdleHeartbeat]
    /\ attest = IdleAttest
    /\ seen = {}
    /\ settled = {}

---------------------------------------------------------------------------

Larger(a, b) == IF a >= b THEN a ELSE b

\* mutant: the proposal replaces the cutoff instead of raising it.
AdvanceFollowsClock(now) == now - CutoffLag

\* #advanceValidatorCutoff: the cutoff follows the clock but never retreats.
AdvanceValidatorCutoff(now) ==
    Larger(acceptedAbove, IF now > CutoffLag THEN now - CutoffLag ELSE 0)

\* mutant: the cutoff is left to the coalesced snapshot.
PersistWithoutJournal(a, store) ==
    {[ok |-> TRUE, cutoff |-> a, journal |-> journal]}

\* mutant: a failed journal write is swallowed.
PersistIgnoringFailure(a, store) ==
    {[ok |-> TRUE, cutoff |-> a, journal |-> j] : j \in {journal, a}}

\* persistValidatorCutoff(a) on a control store: every way the call can end.
\* A lower value is refused (by the store, then by the journal), an equal one
\* is not written, and a write that throws may or may not have replaced the
\* journal file.
PersistValidatorCutoff(a, store) ==
    IF a < store.cutoff \/ a < journal
    THEN {[ok |-> FALSE, cutoff |-> store.cutoff, journal |-> journal]}
    ELSE IF a = store.cutoff
    THEN {[ok |-> TRUE, cutoff |-> a, journal |-> journal]}
    ELSE {[ok |-> TRUE, cutoff |-> a, journal |-> a]}
         \cup {[ok |-> FALSE, cutoff |-> store.cutoff, journal |-> j] : j \in {journal, a}}

\* The ControlStore constructor: a loaded snapshot (empty when it was missing
\* or quarantined as corrupt) merged with the journal.
Restore(loaded) == [loaded EXCEPT !.cutoff = Larger(@, journal)]

\* The cutoffs the ChronologNode constructor folds into #acceptedAboveMs.
RestoredCutoffs(store) ==
    {store.cutoff, InitialAcceptedAbove}
    \cup {feed[i].cutoff : i \in {store.heartbeat} \cap DOMAIN feed}
    \cup {feed[i].cutoff : i \in store.attestations \cap DOMAIN feed}

\* Both constructors, then start() with #recoverValidatorCutoff, which skips
\* own records it cannot decode.  start() rejects when the journal write does.
Start(loaded, readable) ==
    /\ ~up
    /\ LET restored == Restore(loaded)
           found == RestoredCutoffs(restored) \cup {feed[i].cutoff : i \in readable}
       IN \E a \in found :
            /\ \A c \in found : c <= a
            /\ \E p \in PersistValidatorCutoff(a, restored) :
                 /\ up' = p.ok
                 /\ acceptedAbove' = IF p.ok THEN a ELSE acceptedAbove
                 /\ control' = IF p.ok THEN [restored EXCEPT !.cutoff = p.cutoff] ELSE control
                 /\ journal' = Larger(p.journal, restored.cutoff)
    /\ UNCHANGED <<disk, feed, hb, attest, seen, settled>>

StartAny == \E loaded \in {disk, EmptyControl} :
                \E readable \in SUBSET DOMAIN feed : Start(loaded, readable)

\* Everything volatile is lost; the journal, the snapshot and the feed stay.
Crash ==
    /\ up
    /\ up' = FALSE
    /\ acceptedAbove' = InitialAcceptedAbove
    /\ control' = EmptyControl
    /\ hb' = [h \in HeartbeatTasks |-> IdleHeartbeat]
    /\ attest' = IdleAttest
    /\ seen' = {}
    /\ settled' = {}
    /\ UNCHANGED <<journal, disk, feed>>

\* The coalesced snapshot timer, or flush() at a graceful durability point.
Flush ==
    /\ up
    /\ disk' = control
    /\ UNCHANGED <<up, acceptedAbove, control, journal, feed, hb, attest, seen, settled>>

---------------------------------------------------------------------------
(* publishHeartbeat: authorization awaits; the cutoff is advanced,         *)
(* journalled and read in one synchronous run; encoding awaits; append.    *)

HeartbeatBegin(h) ==
    /\ up
    /\ hb[h].pc = "idle"
    /\ hb' = [hb EXCEPT ![h].pc = "authorizing"]
    /\ UNCHANGED <<up, acceptedAbove, control, journal, disk, feed, attest, seen, settled>>

HeartbeatAdvance(h, now) ==
    /\ hb[h].pc = "authorizing"
    /\ LET a == AdvanceValidatorCutoff(now)
       IN \E p \in PersistValidatorCutoff(a, control) :
            /\ acceptedAbove' = a
            /\ journal' = p.journal
            /\ control' = [control EXCEPT !.cutoff = p.cutoff]
            /\ hb' = [hb EXCEPT ![h] =
                        IF p.ok THEN [pc |-> "encoding", cutoff |-> a, decidedAt |-> Len(feed)]
                                ELSE IdleHeartbeat]
    /\ UNCHANGED <<up, disk, feed, attest, seen, settled>>

HeartbeatAppend(h) ==
    /\ hb[h].pc = "encoding"
    /\ feed' = Append(feed, [type |-> "heartbeat", tx |-> None,
                             cutoff |-> hb[h].cutoff, decidedAt |-> hb[h].decidedAt])
    /\ hb' = [hb EXCEPT ![h] = IdleHeartbeat]
    /\ UNCHANGED <<up, acceptedAbove, control, journal, disk, attest, seen, settled>>

\* Not authorized, or encoding or publishing rejects.  A publish that rejects
\* after the record was appended is HeartbeatAppend.
HeartbeatAbandon(h) ==
    /\ hb[h].pc # "idle"
    /\ hb' = [hb EXCEPT ![h] = IdleHeartbeat]
    /\ UNCHANGED <<up, acceptedAbove, control, journal, disk, feed, attest, seen, settled>>

---------------------------------------------------------------------------
(* #ingestCandidate up to the end of #maybeAttest, under the mutex.        *)

MutexFree == attest.pc = "idle"

\* Advance, persist and compare: synchronous up to the await of canValidate.
AttestCheck(tx, now) ==
    /\ up
    /\ MutexFree
    /\ tx \notin settled
    /\ LET a == AdvanceValidatorCutoff(now)
       IN \E p \in PersistValidatorCutoff(a, control) :
            /\ acceptedAbove' = a
            /\ journal' = p.journal
            /\ control' = [control EXCEPT !.cutoff = p.cutoff]
            /\ IF ~p.ok  \* the write threw: the candidate stays in the retry set
               THEN UNCHANGED <<attest, settled>>
               ELSE IF Timestamp[tx] > now + MaxFutureSkew \/ Timestamp[tx] <= a
               THEN settled' = settled \cup {tx} /\ UNCHANGED attest
               ELSE attest' = [IdleAttest EXCEPT !.pc = "checked", !.tx = tx] /\ UNCHANGED settled
    /\ UNCHANGED <<up, disk, feed, hb, seen>>

\* No validator capability, canValidate says no, or an attestation by this
\* validator is already stored: the handler returns without attesting.
AttestDecline ==
    /\ attest.pc = "checked"
    /\ settled' = settled \cup {attest.tx}
    /\ attest' = IdleAttest
    /\ UNCHANGED <<up, acceptedAbove, control, journal, disk, feed, hb, seen>>

AlreadyAttested(tx) ==
    \E i \in control.attestations \cap DOMAIN feed : feed[i].tx = tx

\* mutant: the attestation carries the configured cutoff, not the current one.
AttestCaptureStale ==
    /\ attest.pc = "checked"
    /\ ~AlreadyAttested(attest.tx)
    /\ Timestamp[attest.tx] > InitialAcceptedAbove
    /\ attest' = [attest EXCEPT !.pc = "captured", !.cutoff = InitialAcceptedAbove, !.decidedAt = Len(feed)]
    /\ UNCHANGED <<up, acceptedAbove, control, journal, disk, feed, hb, seen, settled>>

\* The awaits returned: the attestation is built with the cutoff of this
\* moment.  encodeValidatorAttestation refuses one whose timestamp is not above
\* it (messages.ts:160); that throw is AttestThrow.
AttestCapture ==
    /\ attest.pc = "checked"
    /\ ~AlreadyAttested(attest.tx)
    /\ Timestamp[attest.tx] > acceptedAbove
    /\ attest' = [attest EXCEPT !.pc = "captured", !.cutoff = acceptedAbove, !.decidedAt = Len(feed)]
    /\ UNCHANGED <<up, acceptedAbove, control, journal, disk, feed, hb, seen, settled>>

\* The publish lands on the feed; when it also rejects, the candidate is retried.
AttestAppend(rejected) ==
    /\ attest.pc = "captured"
    /\ feed' = Append(feed, [type |-> "attestation", tx |-> attest.tx,
                             cutoff |-> attest.cutoff, decidedAt |-> attest.decidedAt])
    /\ settled' = IF rejected THEN settled ELSE settled \cup {attest.tx}
    /\ attest' = IdleAttest
    /\ UNCHANGED <<up, acceptedAbove, control, journal, disk, hb, seen>>

\* A throw before the append (policy version, transport author, encoding,
\* publishing): the mutex is released and the candidate is retried.
AttestThrow ==
    /\ attest.pc # "idle"
    /\ attest' = IdleAttest
    /\ UNCHANGED <<up, acceptedAbove, control, journal, disk, feed, hb, seen, settled>>

---------------------------------------------------------------------------
(* Own records come back through the subscription or the retry timer.      *)

\* What the control store keeps of feed record i: recordHeartbeat drops an
\* older or regressing heartbeat, putAttestation adds.
Stored(store, i) ==
    IF feed[i].type = "attestation"
    THEN [store EXCEPT !.attestations = @ \cup {i}]
    ELSE IF /\ store.heartbeat \in DOMAIN feed
            /\ \/ i < store.heartbeat
               \/ feed[i].cutoff < feed[store.heartbeat].cutoff
    THEN store
    ELSE [store EXCEPT !.heartbeat = i]

\* #ingestAttestation / #ingestHeartbeat for an own record: the cutoff rises
\* to the record's, is journalled, and only then is the record stored.
IngestOwn(i) ==
    /\ up
    /\ MutexFree
    /\ i \in DOMAIN feed \ seen
    /\ IF feed[i].cutoff > acceptedAbove
       THEN \E p \in PersistValidatorCutoff(feed[i].cutoff, control) :
              /\ acceptedAbove' = feed[i].cutoff
              /\ journal' = p.journal
              /\ control' = IF p.ok THEN Stored([control EXCEPT !.cutoff = p.cutoff], i) ELSE control
              /\ seen' = IF p.ok THEN seen \cup {i} ELSE seen
       ELSE /\ control' = Stored(control, i)
            /\ seen' = seen \cup {i}
            /\ UNCHANGED <<acceptedAbove, journal>>
    /\ UNCHANGED <<up, disk, feed, hb, attest, settled>>

\* A record whose signed message does not decode is terminal: seen, not stored.
IngestOwnUndecodable(i) ==
    /\ up
    /\ MutexFree
    /\ i \in DOMAIN feed \ seen
    /\ seen' = seen \cup {i}
    /\ UNCHANGED <<up, acceptedAbove, control, journal, disk, feed, hb, attest, settled>>

---------------------------------------------------------------------------

Next ==
    \/ StartAny
    \/ Crash
    \/ Flush
    \/ \E h \in HeartbeatTasks : HeartbeatBegin(h)
    \/ \E h \in HeartbeatTasks, now \in Clock : HeartbeatAdvance(h, now)
    \/ \E h \in HeartbeatTasks : HeartbeatAppend(h)
    \/ \E h \in HeartbeatTasks : HeartbeatAbandon(h)
    \/ \E tx \in Txs, now \in Clock : AttestCheck(tx, now)
    \/ AttestDecline
    \/ AttestCapture
    \/ \E rejected \in BOOLEAN : AttestAppend(rejected)
    \/ AttestThrow
    \/ \E i \in DOMAIN feed : IngestOwn(i)
    \/ \E i \in DOMAIN feed : IngestOwnUndecodable(i)

Spec == Init /\ [][Next]_vars

---------------------------------------------------------------------------
(* Properties *)

Heartbeats == {i \in DOMAIN feed : feed[i].type = "heartbeat"}
Attestations == {i \in DOMAIN feed : feed[i].type = "attestation"}

\* Every cutoff a heartbeat has announced is in the journal: the write in
\* persistValidatorCutoff precedes the publish it protects, whatever crashes,
\* failed writes and clock rollbacks happen in between.
AnnouncedCutoffIsDurable ==
    \A i \in Heartbeats : feed[i].cutoff <= journal

\* While the node runs, its cutoff covers every cutoff it ever announced, also
\* after a restart that lost the snapshot and could not decode its own feed.
CutoffCoversAnnounced ==
    up => \A i \in Heartbeats : feed[i].cutoff <= acceptedAbove

\* What the code guarantees of the cutoff promise: when #maybeAttest builds an
\* attestation, no heartbeat already on the feed covers its timestamp.
\* decidedAt is the feed length at that moment.
NoAttestationDecidedBelowCutoff ==
    \A a \in Attestations, i \in Heartbeats :
        i <= feed[a].decidedAt => feed[i].cutoff < Timestamp[feed[a].tx]

\* The regression guard of persistValidatorCutoff never fires: neither clock
\* rollback nor restart makes the node offer a cutoff below the stored one.
NoCutoffRegression ==
    up => acceptedAbove >= control.cutoff

\* A running node never lowers its cutoff, whatever the clock says.
CutoffNeverRetreats == [][up /\ up' => acceptedAbove' >= acceptedAbove]_vars

\* docs/design.md:581: after a heartbeat "The validator will never later
\* attest a transaction whose author_timestamp_ms is at or before
\* acceptance_cutoff_ms."  Stated on the feed order every replica sees.
NoAttestationAfterCoveringHeartbeat ==
    \A i \in Heartbeats, a \in Attestations :
        i < a => feed[i].cutoff < Timestamp[feed[a].tx]

\* docs/design.md:158: "Validators persist their acceptance cutoff and SSB
\* feed sequence, never lower a published cutoff".
HeartbeatsNeverLowerCutoff ==
    \A i, j \in Heartbeats : i < j => feed[i].cutoff <= feed[j].cutoff
=============================================================================
