----------------------- MODULE ValidatorCutoffProofs -----------------------
(***************************************************************************)
(* The safety of the validator's signing state, for every set of           *)
(* candidates, every clock and any number of overlapping heartbeats.       *)
(***************************************************************************)
EXTENDS ValidatorCutoff, TLAPS

\* Nothing is in flight while the process is down.
DownIsIdle ==
    ~up => /\ \A h \in HeartbeatTasks : hb[h].pc = "idle"
           /\ attest.pc = "idle"

\* What is stored is journalled, and the running node is not behind either.
StoreBehindJournal ==
    up => control.cutoff <= journal /\ control.cutoff <= acceptedAbove

\* A heartbeat is built only from a cutoff the store has persisted.
InFlightIsPersisted ==
    \A h \in HeartbeatTasks : hb[h].pc = "encoding" => hb[h].cutoff <= control.cutoff

\* Attestations name a candidate and were decided in the past of the feed.
FeedWellFormed ==
    \A a \in Attestations : feed[a].tx \in Txs /\ feed[a].decidedAt <= Len(feed)

\* The attestation in flight respects every heartbeat present at its decision.
InFlightDecision ==
    attest.pc = "captured" =>
        /\ attest.decidedAt <= Len(feed)
        /\ \A i \in Heartbeats : i <= attest.decidedAt => feed[i].cutoff < Timestamp[attest.tx]

\* The inductive invariant.
IInv ==
    /\ TypeOK
    /\ DownIsIdle
    /\ StoreBehindJournal
    /\ InFlightIsPersisted
    /\ FeedWellFormed
    /\ InFlightDecision
    /\ AnnouncedCutoffIsDurable
    /\ CutoffCoversAnnounced
    /\ NoAttestationDecidedBelowCutoff

---------------------------------------------------------------------------

\* Every outcome of persistValidatorCutoff keeps the journal from retreating,
\* and an outcome that succeeded has the value in the store and the journal.
LEMMA PersistFacts ==
    ASSUME NEW a \in Nat, NEW store \in ControlState, journal \in Nat \cup {NoCutoff},
           NEW p \in PersistValidatorCutoff(a, store)
    PROVE  /\ p.ok \in BOOLEAN
           /\ p.cutoff \in Nat \cup {NoCutoff}
           /\ p.journal \in Nat \cup {NoCutoff}
           /\ p.journal >= journal
           /\ p.cutoff >= store.cutoff
           /\ store.cutoff <= journal => p.cutoff <= p.journal
           /\ p.ok => p.cutoff = a /\ (p.journal = a \/ a = store.cutoff)
           /\ ~p.ok => p.cutoff = store.cutoff
           /\ p.cutoff <= a \/ p.cutoff = store.cutoff
  <1>0. store.cutoff \in Nat \cup {NoCutoff}
    BY DEF ControlState
  <1>1. CASE a < store.cutoff \/ a < journal
    <2>1. p = [ok |-> FALSE, cutoff |-> store.cutoff, journal |-> journal]
      BY <1>1 DEF PersistValidatorCutoff
    <2> QED  BY <1>0, <2>1 DEF NoCutoff
  <1>2. CASE ~(a < store.cutoff \/ a < journal) /\ a = store.cutoff
    <2>1. p = [ok |-> TRUE, cutoff |-> a, journal |-> journal]
      BY <1>2 DEF PersistValidatorCutoff
    <2> QED  BY <1>0, <1>2, <2>1 DEF NoCutoff
  <1>3. CASE ~(a < store.cutoff \/ a < journal) /\ a # store.cutoff
    <2>1. \/ p = [ok |-> TRUE, cutoff |-> a, journal |-> a]
          \/ p = [ok |-> FALSE, cutoff |-> store.cutoff, journal |-> journal]
          \/ p = [ok |-> FALSE, cutoff |-> store.cutoff, journal |-> a]
      BY <1>3 DEF PersistValidatorCutoff
    <2>2. CASE p = [ok |-> TRUE, cutoff |-> a, journal |-> a]
      BY <1>0, <1>3, <2>2 DEF NoCutoff
    <2>3. CASE p = [ok |-> FALSE, cutoff |-> store.cutoff, journal |-> journal]
      BY <1>0, <1>3, <2>3 DEF NoCutoff
    <2>4. CASE p = [ok |-> FALSE, cutoff |-> store.cutoff, journal |-> a]
      BY <1>0, <1>3, <2>4 DEF NoCutoff
    <2> QED  BY <2>1, <2>2, <2>3, <2>4
  <1> QED  BY <1>1, <1>2, <1>3

\* #advanceValidatorCutoff never lowers the cutoff.
LEMMA AdvanceFacts ==
    ASSUME ConstantsAssumption, acceptedAbove \in Nat, NEW now \in Clock
    PROVE  AdvanceValidatorCutoff(now) \in Nat /\ AdvanceValidatorCutoff(now) >= acceptedAbove
  BY DEF ConstantsAssumption, AdvanceValidatorCutoff, Larger

\* The invariant holds before the first start: nothing has been announced.
LEMMA InitIInv == Init => IInv
  <1> SUFFICES ASSUME Init PROVE IInv
    OBVIOUS
  <1> USE DEF Init
  <1>1. TypeOK
    <2>1. EmptyControl \in ControlState
      BY DEF EmptyControl, ControlState
    <2>2. IdleHeartbeat \in HeartbeatTask /\ IdleAttest \in AttestTask /\ IdleAttest.pc = "idle"
      BY DEF IdleHeartbeat, HeartbeatTask, IdleAttest, AttestTask
    <2>3. hb \in [HeartbeatTasks -> HeartbeatTask] /\ attest \in AttestTask
      BY <2>2
    <2>4. acceptedAbove \in Nat /\ feed \in Seq(FeedRecord)
      BY ConstantsAssumption DEF ConstantsAssumption
    <2> QED  BY <2>1, <2>2, <2>3, <2>4 DEF TypeOK
  <1>2. Heartbeats = {} /\ Attestations = {}
    BY DEF Heartbeats, Attestations
  <1>3. DownIsIdle /\ StoreBehindJournal /\ InFlightIsPersisted /\ InFlightDecision
    BY DEF DownIsIdle, StoreBehindJournal, InFlightIsPersisted, InFlightDecision, IdleHeartbeat, IdleAttest
  <1>4. FeedWellFormed /\ AnnouncedCutoffIsDurable /\ CutoffCoversAnnounced /\ NoAttestationDecidedBelowCutoff
    BY <1>2 DEF FeedWellFormed, AnnouncedCutoffIsDurable, CutoffCoversAnnounced, NoAttestationDecidedBelowCutoff
  <1> QED  BY <1>1, <1>3, <1>4 DEF IInv

\* Every record on the feed has the fields of a feed record.
LEMMA FeedTyped ==
    ASSUME TypeOK, NEW i \in DOMAIN feed
    PROVE  /\ feed[i] \in FeedRecord
           /\ feed[i].cutoff \in Nat /\ feed[i].decidedAt \in Nat
           /\ feed[i].tx \in Txs \cup {None}
  <1>1. feed[i] \in FeedRecord
    BY DEF TypeOK
  <1> QED  BY <1>1 DEF FeedRecord

\* Steps that leave the feed alone, do not lower the journal, and keep the
\* running node's cutoff above its old value preserve what the feed promises.
LEMMA FeedUnchanged ==
    ASSUME IInv, UNCHANGED feed, journal' \in Nat \cup {NoCutoff}, journal' >= journal,
           acceptedAbove' \in Nat,
           up' => (up /\ acceptedAbove' >= acceptedAbove) \/ acceptedAbove' >= journal
    PROVE  /\ FeedWellFormed' /\ AnnouncedCutoffIsDurable' /\ CutoffCoversAnnounced'
           /\ NoAttestationDecidedBelowCutoff'
           /\ Heartbeats' = Heartbeats /\ Attestations' = Attestations
  <1> USE DEF IInv, TypeOK
  <1>1. Heartbeats' = Heartbeats /\ Attestations' = Attestations
    BY DEF Heartbeats, Attestations
  <1>2. FeedWellFormed' /\ NoAttestationDecidedBelowCutoff'
    BY <1>1 DEF FeedWellFormed, NoAttestationDecidedBelowCutoff
  <1>3. \A i \in Heartbeats : feed[i].cutoff \in Nat
    BY FeedTyped DEF Heartbeats
  <1>4. AnnouncedCutoffIsDurable'
    BY <1>1, <1>3 DEF AnnouncedCutoffIsDurable, NoCutoff
  <1>5. CutoffCoversAnnounced'
    BY <1>1, <1>3 DEF CutoffCoversAnnounced, AnnouncedCutoffIsDurable, NoCutoff
  <1> QED  BY <1>1, <1>2, <1>4, <1>5

\* The feed of the next state is this feed followed by r.
FeedExtendedBy(r) ==
    /\ Len(feed) \in Nat /\ Len(feed') = Len(feed) + 1
    /\ DOMAIN feed = 1 .. Len(feed) /\ DOMAIN feed' = 1 .. (Len(feed) + 1)
    /\ \A i \in DOMAIN feed : feed'[i] = feed[i]
    /\ feed'[Len(feed) + 1] = r
    /\ feed' \in Seq(FeedRecord)

\* Publishing appends one record to the feed and leaves the others.
LEMMA AppendExtends ==
    ASSUME feed \in Seq(FeedRecord), NEW r \in FeedRecord, feed' = Append(feed, r)
    PROVE  FeedExtendedBy(r)
  <1> DEFINE t == Append(feed, r)
  <1>1. /\ t \in Seq(FeedRecord) /\ Len(feed) \in Nat /\ Len(t) = Len(feed) + 1
        /\ DOMAIN feed = 1 .. Len(feed) /\ DOMAIN t = 1 .. (Len(feed) + 1)
        /\ \A i \in 1 .. Len(feed) : t[i] = feed[i]
        /\ t[Len(feed) + 1] = r
    OBVIOUS
  <1>2. feed' = t
    OBVIOUS
  <1> HIDE DEF t
  <1> QED  BY <1>1, <1>2 DEF FeedExtendedBy

\* Appending a record keeps what the feed promises, provided a heartbeat's
\* cutoff is durable and an attestation respects the feed it was decided on.
LEMMA FeedAppended ==
    ASSUME IInv, NEW r \in FeedRecord, FeedExtendedBy(r),
           UNCHANGED <<up, acceptedAbove, journal>>,
           r.type = "heartbeat" => r.cutoff <= journal /\ (up => r.cutoff <= acceptedAbove),
           r.type = "attestation" =>
              /\ r.tx \in Txs
              /\ r.decidedAt <= Len(feed)
              /\ \A i \in Heartbeats : i <= r.decidedAt => feed[i].cutoff < Timestamp[r.tx]
    PROVE  /\ feed' \in Seq(FeedRecord)
           /\ FeedWellFormed' /\ AnnouncedCutoffIsDurable' /\ CutoffCoversAnnounced'
           /\ NoAttestationDecidedBelowCutoff'
           /\ InFlightDecision
           /\ attest.pc = "captured" =>
                /\ attest.decidedAt <= Len(feed')
                /\ \A i \in Heartbeats' : i <= attest.decidedAt => feed'[i].cutoff < Timestamp[attest.tx]
  <1> USE DEF IInv
  <1>1. /\ Len(feed) \in Nat /\ Len(feed') = Len(feed) + 1
        /\ DOMAIN feed = 1 .. Len(feed) /\ DOMAIN feed' = 1 .. (Len(feed) + 1)
        /\ \A i \in DOMAIN feed : feed'[i] = feed[i]
        /\ feed'[Len(feed) + 1] = r
        /\ feed' \in Seq(FeedRecord)
    BY DEF FeedExtendedBy
  <1>2. /\ Heartbeats' \subseteq Heartbeats \cup {Len(feed) + 1}
        /\ Len(feed) + 1 \in Heartbeats' => r.type = "heartbeat"
        /\ Attestations' \subseteq Attestations \cup {Len(feed) + 1}
        /\ Len(feed) + 1 \in Attestations' => r.type = "attestation"
        /\ Heartbeats \subseteq 1 .. Len(feed) /\ Attestations \subseteq 1 .. Len(feed)
    BY <1>1 DEF Heartbeats, Attestations
  <1>3. FeedWellFormed'
    <2>1. \A a \in Attestations : feed[a].decidedAt \in Nat
      BY FeedTyped DEF Attestations
    <2>2. r.decidedAt \in Nat
      BY DEF FeedRecord
    <2>3. SUFFICES ASSUME NEW a \in Attestations' PROVE feed'[a].tx \in Txs /\ feed'[a].decidedAt <= Len(feed')
      BY DEF FeedWellFormed
    <2>4. CASE a \in Attestations
      BY <1>1, <1>2, <2>1, <2>4 DEF FeedWellFormed
    <2>5. CASE a = Len(feed) + 1
      BY <1>1, <1>2, <2>2, <2>5
    <2> QED  BY <1>2, <2>3, <2>4, <2>5
  <1>4. AnnouncedCutoffIsDurable' /\ CutoffCoversAnnounced'
    BY <1>1, <1>2 DEF AnnouncedCutoffIsDurable, CutoffCoversAnnounced
  <1>5. NoAttestationDecidedBelowCutoff'
    <2> SUFFICES ASSUME NEW a \in Attestations', NEW i \in Heartbeats',
                        i <= feed'[a].decidedAt
                 PROVE  feed'[i].cutoff < Timestamp[feed'[a].tx]
      BY DEF NoAttestationDecidedBelowCutoff
    <2>1. feed'[a].decidedAt \in Nat /\ feed'[a].decidedAt <= Len(feed)
      BY <1>1, <1>2, FeedTyped DEF FeedWellFormed, Attestations, FeedRecord
    <2>2. i \in Heartbeats /\ feed'[i] = feed[i]
      <3>1. i \in 1 .. (Len(feed) + 1)
        BY <1>1 DEF Heartbeats
      <3>2. i <= Len(feed)
        BY <1>1, <2>1, <3>1
      <3> QED  BY <1>1, <1>2, <3>1, <3>2
    <2>3. CASE a \in Attestations
      BY <1>1, <1>2, <2>2, <2>3 DEF NoAttestationDecidedBelowCutoff
    <2>4. CASE a = Len(feed) + 1
      BY <1>1, <1>2, <2>2, <2>4
    <2> QED  BY <1>2, <2>3, <2>4
  <1>6. ASSUME attest.pc = "captured"
        PROVE  /\ attest.decidedAt <= Len(feed')
               /\ \A i \in Heartbeats' : i <= attest.decidedAt => feed'[i].cutoff < Timestamp[attest.tx]
    <2>1. attest.decidedAt \in Nat
      BY DEF TypeOK, AttestTask
    <2> QED  BY <1>1, <1>2, <1>6, <2>1 DEF InFlightDecision
  <1> QED  BY <1>1, <1>3, <1>4, <1>5, <1>6

\* Storing an own record changes the store's records, not its cutoff.
LEMMA StoredFacts ==
    ASSUME TypeOK, NEW store \in ControlState, NEW i \in DOMAIN feed
    PROVE  Stored(store, i) \in ControlState /\ Stored(store, i).cutoff = store.cutoff
  <1>1. i \in Nat \ {0}
    BY DEF TypeOK
  <1>2. [store EXCEPT !.attestations = @ \cup {i}] \in ControlState
        /\ [store EXCEPT !.attestations = @ \cup {i}].cutoff = store.cutoff
    BY <1>1 DEF ControlState
  <1>3. [store EXCEPT !.heartbeat = i] \in ControlState
        /\ [store EXCEPT !.heartbeat = i].cutoff = store.cutoff
    BY <1>1 DEF ControlState
  <1> QED  BY <1>2, <1>3 DEF Stored

\* A step that only advances the cutoff and persists it.
LEMMA StepPersist ==
    ASSUME IInv, up, UNCHANGED <<up, feed>>, NEW a \in Nat, a >= acceptedAbove,
           NEW p \in PersistValidatorCutoff(a, control),
           acceptedAbove' = a, journal' = p.journal,
           control' \in ControlState, control'.cutoff = p.cutoff
    PROVE  /\ acceptedAbove' \in Nat /\ journal' \in Nat \cup {NoCutoff}
           /\ FeedWellFormed' /\ AnnouncedCutoffIsDurable' /\ CutoffCoversAnnounced'
           /\ NoAttestationDecidedBelowCutoff'
           /\ Heartbeats' = Heartbeats
           /\ StoreBehindJournal'
           /\ control'.cutoff >= control.cutoff
           /\ p.ok => control'.cutoff = a
  <1> USE DEF IInv
  <1>1. /\ journal \in Nat \cup {NoCutoff} /\ acceptedAbove \in Nat /\ control \in ControlState
        /\ control.cutoff \in Nat \cup {NoCutoff}
        /\ control.cutoff <= journal /\ control.cutoff <= acceptedAbove
    BY DEF TypeOK, ControlState, StoreBehindJournal
  <1>2. /\ p.cutoff \in Nat \cup {NoCutoff} /\ p.journal \in Nat \cup {NoCutoff}
        /\ p.journal >= journal /\ p.cutoff >= control.cutoff /\ p.cutoff <= p.journal
        /\ p.ok => p.cutoff = a
        /\ p.cutoff <= a \/ p.cutoff = control.cutoff
    BY <1>1, PersistFacts
  <1>3. StoreBehindJournal'
    BY <1>1, <1>2 DEF StoreBehindJournal, NoCutoff
  <1> QED  BY <1>1, <1>2, <1>3, FeedUnchanged

\* start(): the cutoff the node begins with covers the journal, hence every
\* announced cutoff, whatever was lost of the snapshot or of the feed.
LEMMA StartPreserves == IInv /\ StartAny => IInv'
  <1> SUFFICES ASSUME IInv, StartAny PROVE IInv'
    OBVIOUS
  <1>0. TypeOK /\ journal \in Nat \cup {NoCutoff} /\ acceptedAbove \in Nat
    BY DEF IInv, TypeOK
  <1>1. PICK loaded \in {disk, EmptyControl}, readable \in SUBSET DOMAIN feed : Start(loaded, readable)
    BY DEF StartAny
  <1> DEFINE restored == Restore(loaded)
             found == RestoredCutoffs(restored) \cup {feed[i].cutoff : i \in readable}
             Outcome(a, p) ==
                /\ up' = p.ok
                /\ acceptedAbove' = IF p.ok THEN a ELSE acceptedAbove
                /\ control' = IF p.ok THEN [restored EXCEPT !.cutoff = p.cutoff] ELSE control
                /\ journal' = Larger(p.journal, restored.cutoff)
  <1>2. restored \in ControlState /\ restored.cutoff \in Nat \cup {NoCutoff} /\ restored.cutoff >= journal
    <2>1. loaded \in ControlState
      BY DEF IInv, TypeOK, EmptyControl, ControlState
    <2> QED  BY <1>0, <2>1 DEF Restore, Larger, ControlState, NoCutoff
  <1>3. PICK a \in found : /\ \A c \in found : c <= a
                           /\ \E p \in PersistValidatorCutoff(a, restored) : Outcome(a, p)
    BY <1>1 DEF Start
  <1>4. a \in Nat /\ a >= restored.cutoff
    <2>1. a >= InitialAcceptedAbove /\ a >= restored.cutoff
      BY <1>3 DEF RestoredCutoffs
    <2>2. found \subseteq Nat \cup {NoCutoff}
      BY <1>0, <1>2, FeedTyped, ConstantsAssumption DEF RestoredCutoffs, ConstantsAssumption
    <2> QED  BY <1>3, <2>1, <2>2, ConstantsAssumption DEF NoCutoff, ConstantsAssumption
  <1>5. PICK p \in PersistValidatorCutoff(a, restored) : Outcome(a, p)
    BY <1>3
  <1> HIDE DEF restored, found
  <1>6. /\ p.ok \in BOOLEAN
        /\ p.cutoff \in Nat \cup {NoCutoff} /\ p.journal \in Nat \cup {NoCutoff}
        /\ p.journal >= journal
        /\ p.ok => p.cutoff = a /\ (p.journal = a \/ a = restored.cutoff)
    BY <1>0, <1>2, <1>4, PersistFacts
  <1>7. /\ journal' \in Nat \cup {NoCutoff} /\ journal' >= journal /\ journal' >= restored.cutoff
        /\ journal' >= p.journal
    BY <1>0, <1>2, <1>5, <1>6 DEF Larger, NoCutoff
  <1>8. up' \in BOOLEAN /\ acceptedAbove' \in Nat /\ control' \in ControlState
    BY <1>0, <1>2, <1>4, <1>5, <1>6 DEF IInv, TypeOK, ControlState
  <1>9. ~up /\ UNCHANGED <<disk, feed, hb, attest, seen, settled>>
    BY <1>1 DEF Start
  <1>10. TypeOK'
    BY <1>0, <1>7, <1>8, <1>9 DEF TypeOK
  <1>11. up' => acceptedAbove' = a /\ control'.cutoff = a
    BY <1>2, <1>5, <1>6 DEF ControlState
  <1>12. StoreBehindJournal'
    BY <1>2, <1>4, <1>5, <1>6, <1>7, <1>11 DEF StoreBehindJournal, NoCutoff
  <1>13. DownIsIdle' /\ InFlightIsPersisted'
    BY <1>9 DEF IInv, DownIsIdle, InFlightIsPersisted
  <1>14. InFlightDecision'
    BY <1>9 DEF IInv, DownIsIdle, InFlightDecision
  <1>15. up' => acceptedAbove' >= journal
    BY <1>0, <1>2, <1>4, <1>11 DEF NoCutoff
  <1> QED  BY <1>7, <1>8, <1>9, <1>10, <1>12, <1>13, <1>14, <1>15, FeedUnchanged DEF IInv

\* A crash forgets everything volatile; the durable facts are untouched.
LEMMA CrashPreserves == IInv /\ Crash => IInv'
  <1> SUFFICES ASSUME IInv, Crash PROVE IInv'
    OBVIOUS
  <1> USE DEF Crash
  <1>1. EmptyControl \in ControlState /\ IdleHeartbeat \in HeartbeatTask /\ IdleAttest \in AttestTask
        /\ IdleHeartbeat.pc = "idle" /\ IdleAttest.pc = "idle"
    BY DEF EmptyControl, ControlState, IdleHeartbeat, HeartbeatTask, IdleAttest, AttestTask
  <1>2. TypeOK'
    BY <1>1, ConstantsAssumption DEF IInv, TypeOK, ConstantsAssumption
  <1>3. DownIsIdle' /\ StoreBehindJournal' /\ InFlightIsPersisted' /\ InFlightDecision'
    BY <1>1 DEF DownIsIdle, StoreBehindJournal, InFlightIsPersisted, InFlightDecision
  <1>4. journal' \in Nat \cup {NoCutoff} /\ journal' >= journal /\ acceptedAbove' \in Nat
    BY ConstantsAssumption DEF IInv, TypeOK, ConstantsAssumption, NoCutoff
  <1> QED  BY <1>2, <1>3, <1>4, FeedUnchanged DEF IInv

\* Steps that touch neither the cutoffs nor the feed.
LEMMA QuietPreserves ==
    ASSUME IInv, UNCHANGED <<up, acceptedAbove, control, journal, feed>>,
           TypeOK', DownIsIdle', InFlightIsPersisted', InFlightDecision'
    PROVE  IInv'
  <1>1. StoreBehindJournal'
    BY DEF IInv, StoreBehindJournal
  <1>2. journal' \in Nat \cup {NoCutoff} /\ journal' >= journal /\ acceptedAbove' \in Nat
        /\ (up' => up /\ acceptedAbove' >= acceptedAbove)
    BY DEF IInv, TypeOK, NoCutoff
  <1> QED  BY <1>1, <1>2, FeedUnchanged DEF IInv

\* publishHeartbeat: its cutoff is persisted before the record is built, so
\* what is appended is durable and covered by the running node.
LEMMA HeartbeatPreserves ==
    ASSUME IInv, NEW h \in HeartbeatTasks,
           \/ HeartbeatBegin(h)
           \/ \E now \in Clock : HeartbeatAdvance(h, now)
           \/ HeartbeatAppend(h)
           \/ HeartbeatAbandon(h)
    PROVE  IInv'
  <1>0. hb[h] \in HeartbeatTask /\ hb[h].cutoff \in Nat /\ hb[h].decidedAt \in Nat
    BY DEF IInv, TypeOK, HeartbeatTask
  <1>i. IdleHeartbeat \in HeartbeatTask /\ IdleHeartbeat.pc = "idle"
    BY DEF IdleHeartbeat, HeartbeatTask
  <1>1. CASE HeartbeatBegin(h)
    <2>1. TypeOK'
      BY <1>0, <1>1 DEF IInv, TypeOK, HeartbeatBegin, HeartbeatTask
    <2>2. DownIsIdle' /\ InFlightIsPersisted' /\ InFlightDecision'
      BY <1>1 DEF IInv, TypeOK, HeartbeatBegin, DownIsIdle, InFlightIsPersisted, InFlightDecision, Heartbeats
    <2> QED  BY <1>1, <2>1, <2>2, QuietPreserves DEF HeartbeatBegin
  <1>2. CASE HeartbeatAbandon(h)
    <2>1. TypeOK'
      BY <1>i, <1>2 DEF IInv, TypeOK, HeartbeatAbandon
    <2>2. DownIsIdle' /\ InFlightIsPersisted' /\ InFlightDecision'
      BY <1>i, <1>2 DEF IInv, TypeOK, HeartbeatAbandon, DownIsIdle, InFlightIsPersisted, InFlightDecision, Heartbeats
    <2> QED  BY <1>2, <2>1, <2>2, QuietPreserves DEF HeartbeatAbandon
  <1>3. ASSUME NEW now \in Clock, HeartbeatAdvance(h, now) PROVE IInv'
    <2> DEFINE a == AdvanceValidatorCutoff(now)
               Started == [pc |-> "encoding", cutoff |-> a, decidedAt |-> Len(feed)]
    <2>1. a \in Nat /\ a >= acceptedAbove
      BY AdvanceFacts, ConstantsAssumption DEF IInv, TypeOK
    <2>2. PICK p \in PersistValidatorCutoff(a, control) :
            /\ acceptedAbove' = a
            /\ journal' = p.journal
            /\ control' = [control EXCEPT !.cutoff = p.cutoff]
            /\ hb' = [hb EXCEPT ![h] = IF p.ok THEN Started ELSE IdleHeartbeat]
      BY <1>3 DEF HeartbeatAdvance
    <2>3. up /\ UNCHANGED <<up, disk, feed, attest, seen, settled>> /\ Started \in HeartbeatTask
          /\ Started.pc = "encoding" /\ Started.cutoff = a
      BY <1>3, <2>1 DEF HeartbeatAdvance, IInv, TypeOK, DownIsIdle, HeartbeatTask
    <2> HIDE DEF a, Started
    <2>4. p.cutoff \in Nat \cup {NoCutoff} /\ p.ok \in BOOLEAN
      BY <2>1, PersistFacts DEF IInv, TypeOK
    <2>5. control' \in ControlState /\ control'.cutoff = p.cutoff
      BY <2>2, <2>4 DEF IInv, TypeOK, ControlState
    <2>6. /\ acceptedAbove' \in Nat /\ journal' \in Nat \cup {NoCutoff}
          /\ FeedWellFormed' /\ AnnouncedCutoffIsDurable' /\ CutoffCoversAnnounced'
          /\ NoAttestationDecidedBelowCutoff' /\ Heartbeats' = Heartbeats /\ StoreBehindJournal'
          /\ control'.cutoff >= control.cutoff /\ (p.ok => control'.cutoff = a)
      BY <2>1, <2>2, <2>3, <2>5, StepPersist
    <2>7. TypeOK'
      BY <1>i, <2>2, <2>3, <2>5, <2>6 DEF IInv, TypeOK
    <2>8. InFlightIsPersisted'
      <3>1. control.cutoff \in Nat \cup {NoCutoff} /\ control'.cutoff \in Nat \cup {NoCutoff}
        BY <2>4, <2>5 DEF IInv, TypeOK, ControlState
      <3>2. SUFFICES ASSUME NEW k \in HeartbeatTasks, hb'[k].pc = "encoding"
                     PROVE  hb'[k].cutoff <= control'.cutoff
        BY DEF InFlightIsPersisted
      <3>3. CASE k = h
        BY <1>i, <2>1, <2>2, <2>3, <2>6, <3>1, <3>2, <3>3 DEF IInv, TypeOK
      <3>4. CASE k # h
        <4>1. hb'[k] = hb[k] /\ hb[k].cutoff \in Nat
          BY <2>2, <3>4 DEF IInv, TypeOK, HeartbeatTask
        <4> QED  BY <2>6, <3>1, <3>2, <4>1 DEF IInv, InFlightIsPersisted, NoCutoff
      <3> QED  BY <3>3, <3>4
    <2>9. DownIsIdle' /\ InFlightDecision'
      BY <2>3, <2>6 DEF IInv, DownIsIdle, InFlightDecision
    <2> QED  BY <2>6, <2>7, <2>8, <2>9 DEF IInv
  <1>4. CASE HeartbeatAppend(h)
    <2> DEFINE r == [type |-> "heartbeat", tx |-> None, cutoff |-> hb[h].cutoff, decidedAt |-> hb[h].decidedAt]
    <2>1. r \in FeedRecord /\ r.type = "heartbeat" /\ r.cutoff = hb[h].cutoff
      BY <1>0 DEF FeedRecord
    <2>2. /\ feed' = Append(feed, r) /\ hb[h].pc = "encoding" /\ up
          /\ hb' = [hb EXCEPT ![h] = IdleHeartbeat]
          /\ UNCHANGED <<up, acceptedAbove, control, journal, disk, attest, seen, settled>>
      BY <1>4 DEF HeartbeatAppend, IInv, TypeOK, DownIsIdle
    <2> HIDE DEF r
    <2>3. FeedExtendedBy(r)
      <3>1. feed \in Seq(FeedRecord) /\ r \in FeedRecord
        BY <2>1 DEF IInv, TypeOK
      <3> QED  BY <2>2, <3>1, AppendExtends
    <2>4. r.cutoff <= journal /\ r.cutoff <= acceptedAbove
      <3>1. control.cutoff \in Nat \cup {NoCutoff} /\ journal \in Nat \cup {NoCutoff} /\ acceptedAbove \in Nat
        BY DEF IInv, TypeOK, ControlState
      <3> QED  BY <1>0, <2>1, <2>2, <3>1 DEF IInv, InFlightIsPersisted, StoreBehindJournal, NoCutoff
    <2>5. /\ feed' \in Seq(FeedRecord)
          /\ FeedWellFormed' /\ AnnouncedCutoffIsDurable' /\ CutoffCoversAnnounced'
          /\ NoAttestationDecidedBelowCutoff'
          /\ attest.pc = "captured" =>
                /\ attest.decidedAt <= Len(feed')
                /\ \A i \in Heartbeats' : i <= attest.decidedAt => feed'[i].cutoff < Timestamp[attest.tx]
      BY <2>1, <2>2, <2>3, <2>4, FeedAppended
    <2>6. TypeOK'
      BY <1>i, <2>2, <2>5 DEF IInv, TypeOK
    <2>7. DownIsIdle' /\ InFlightIsPersisted' /\ StoreBehindJournal' /\ InFlightDecision'
      BY <1>i, <2>2, <2>5 DEF IInv, TypeOK, DownIsIdle, InFlightIsPersisted, StoreBehindJournal, InFlightDecision
    <2> QED  BY <2>5, <2>6, <2>7 DEF IInv
  <1> QED  BY <1>1, <1>2, <1>3, <1>4

\* #maybeAttest: the check may be overtaken by heartbeats, but the capture
\* reads a cutoff that covers every heartbeat on the feed at that moment.
LEMMA AttestPreserves ==
    ASSUME IInv,
           \/ \E tx \in Txs, now \in Clock : AttestCheck(tx, now)
           \/ AttestDecline
           \/ AttestCapture
           \/ \E rejected \in BOOLEAN : AttestAppend(rejected)
           \/ AttestThrow
    PROVE  IInv'
  <1>0. attest \in AttestTask /\ attest.cutoff \in Nat /\ attest.decidedAt \in Nat
    BY DEF IInv, TypeOK, AttestTask
  <1>i. IdleAttest \in AttestTask /\ IdleAttest.pc = "idle"
    BY DEF IdleAttest, AttestTask
  <1>1. ASSUME NEW tx \in Txs, NEW now \in Clock, AttestCheck(tx, now) PROVE IInv'
    <2> DEFINE a == AdvanceValidatorCutoff(now)
               Checked == [IdleAttest EXCEPT !.pc = "checked", !.tx = tx]
    <2>1. a \in Nat /\ a >= acceptedAbove
      BY AdvanceFacts, ConstantsAssumption DEF IInv, TypeOK
    <2>2. PICK p \in PersistValidatorCutoff(a, control) :
            /\ acceptedAbove' = a
            /\ journal' = p.journal
            /\ control' = [control EXCEPT !.cutoff = p.cutoff]
            /\ \/ attest' = attest /\ settled' \in {settled, settled \cup {tx}}
               \/ attest' = Checked /\ settled' = settled
      BY <1>1 DEF AttestCheck
    <2>3. up /\ attest.pc = "idle" /\ UNCHANGED <<up, disk, feed, hb, seen>>
      BY <1>1 DEF AttestCheck, MutexFree
    <2>4. Checked \in AttestTask /\ Checked.pc = "checked" /\ Checked.tx = tx
      BY DEF IdleAttest, AttestTask
    <2> HIDE DEF a, Checked
    <2>5. p.cutoff \in Nat \cup {NoCutoff}
      BY <2>1, PersistFacts DEF IInv, TypeOK
    <2>6. control' \in ControlState /\ control'.cutoff = p.cutoff
      BY <2>2, <2>5 DEF IInv, TypeOK, ControlState
    <2>7. /\ acceptedAbove' \in Nat /\ journal' \in Nat \cup {NoCutoff}
          /\ FeedWellFormed' /\ AnnouncedCutoffIsDurable' /\ CutoffCoversAnnounced'
          /\ NoAttestationDecidedBelowCutoff' /\ StoreBehindJournal'
          /\ control'.cutoff >= control.cutoff
      BY <2>1, <2>2, <2>3, <2>6, StepPersist
    <2>8. TypeOK'
      BY <2>2, <2>3, <2>4, <2>6, <2>7 DEF IInv, TypeOK
    <2>9. InFlightIsPersisted'
      <3>1. control.cutoff \in Nat \cup {NoCutoff} /\ control'.cutoff \in Nat \cup {NoCutoff}
            /\ \A k \in HeartbeatTasks : hb[k].cutoff \in Nat
        BY <2>5, <2>6 DEF IInv, TypeOK, ControlState, HeartbeatTask
      <3>2. control'.cutoff >= control.cutoff /\ hb' = hb
        BY <2>3, <2>7
      <3>3. \A k \in HeartbeatTasks : hb[k].pc = "encoding" => hb[k].cutoff <= control.cutoff
        BY DEF IInv, InFlightIsPersisted
      <3>4. \A k \in HeartbeatTasks : hb[k].pc = "encoding" => hb[k].cutoff <= control'.cutoff
        BY <3>1, <3>2, <3>3 DEF NoCutoff
      <3> QED  BY <3>2, <3>4 DEF InFlightIsPersisted
    <2>10. DownIsIdle' /\ InFlightDecision'
      BY <2>2, <2>3, <2>4 DEF IInv, DownIsIdle, InFlightDecision
    <2> QED  BY <2>7, <2>8, <2>9, <2>10 DEF IInv
  <1>2. CASE AttestDecline \/ AttestThrow
    <2>1. /\ attest' = IdleAttest /\ settled' \in {settled, settled \cup {attest.tx}}
          /\ attest.pc # "idle"
          /\ UNCHANGED <<up, acceptedAbove, control, journal, disk, feed, hb, seen>>
      BY <1>2 DEF AttestDecline, AttestThrow
    <2>2. TypeOK'
      BY <1>i, <2>1 DEF IInv, TypeOK
    <2>3. DownIsIdle' /\ InFlightIsPersisted' /\ InFlightDecision'
      BY <1>i, <2>1 DEF IInv, DownIsIdle, InFlightIsPersisted, InFlightDecision
    <2> QED  BY <2>1, <2>2, <2>3, QuietPreserves
  <1>3. CASE AttestCapture
    <2>1. /\ attest.pc = "checked" /\ up /\ attest.tx \in Txs
          /\ Timestamp[attest.tx] > acceptedAbove
          /\ attest' = [attest EXCEPT !.pc = "captured", !.cutoff = acceptedAbove, !.decidedAt = Len(feed)]
          /\ UNCHANGED <<up, acceptedAbove, control, journal, disk, feed, hb, seen, settled>>
      BY <1>3 DEF AttestCapture, IInv, DownIsIdle, TypeOK
    <2>2. /\ attest' \in AttestTask /\ attest'.tx = attest.tx /\ attest'.cutoff = acceptedAbove
          /\ attest'.decidedAt = Len(feed) /\ Len(feed) \in Nat /\ acceptedAbove \in Nat
      <3>1. Len(feed) \in Nat /\ acceptedAbove \in Nat
        BY DEF IInv, TypeOK
      <3>2. attest' \in AttestTask
        BY <1>0, <2>1, <3>1 DEF AttestTask
      <3> QED  BY <1>0, <2>1, <3>1, <3>2 DEF AttestTask
    <2>3. TypeOK'
      BY <2>1, <2>2 DEF IInv, TypeOK
    <2>4. InFlightDecision'
      <3>1. Heartbeats' = Heartbeats /\ (\A i \in Heartbeats : feed[i].cutoff \in Nat)
        BY <2>1, FeedTyped DEF Heartbeats, IInv
      <3>2. Timestamp[attest.tx] \in Nat
        BY <2>1, ConstantsAssumption DEF ConstantsAssumption
      <3> QED  BY <2>1, <2>2, <3>1, <3>2 DEF InFlightDecision, IInv, CutoffCoversAnnounced
    <2>5. DownIsIdle' /\ InFlightIsPersisted'
      BY <2>1 DEF IInv, DownIsIdle, InFlightIsPersisted
    <2> QED  BY <2>1, <2>3, <2>4, <2>5, QuietPreserves
  <1>4. ASSUME NEW rejected \in BOOLEAN, AttestAppend(rejected) PROVE IInv'
    <2> DEFINE r == [type |-> "attestation", tx |-> attest.tx,
                     cutoff |-> attest.cutoff, decidedAt |-> attest.decidedAt]
    <2>1. /\ feed' = Append(feed, r) /\ attest.pc = "captured" /\ up /\ attest.tx \in Txs
          /\ attest' = IdleAttest /\ settled' \in {settled, settled \cup {attest.tx}}
          /\ UNCHANGED <<up, acceptedAbove, control, journal, disk, hb, seen>>
      BY <1>4 DEF AttestAppend, IInv, TypeOK, DownIsIdle
    <2>2. /\ r \in FeedRecord /\ r.type = "attestation" /\ r.tx = attest.tx
          /\ r.cutoff = attest.cutoff /\ r.decidedAt = attest.decidedAt
      BY <1>0, <2>1 DEF FeedRecord
    <2> HIDE DEF r
    <2>3. FeedExtendedBy(r)
      <3>1. feed \in Seq(FeedRecord) /\ r \in FeedRecord
        BY <2>2 DEF IInv, TypeOK
      <3> QED  BY <2>1, <3>1, AppendExtends
    <2>4. /\ r.tx \in Txs /\ r.decidedAt <= Len(feed)
          /\ \A i \in Heartbeats : i <= r.decidedAt => feed[i].cutoff < Timestamp[r.tx]
      BY <2>1, <2>2 DEF IInv, InFlightDecision
    <2>5. /\ feed' \in Seq(FeedRecord)
          /\ FeedWellFormed' /\ AnnouncedCutoffIsDurable' /\ CutoffCoversAnnounced'
          /\ NoAttestationDecidedBelowCutoff'
      BY <2>1, <2>2, <2>3, <2>4, FeedAppended
    <2>6. TypeOK'
      BY <1>i, <2>1, <2>5 DEF IInv, TypeOK
    <2>7. DownIsIdle' /\ InFlightIsPersisted' /\ StoreBehindJournal' /\ InFlightDecision'
      BY <1>i, <2>1 DEF IInv, DownIsIdle, InFlightIsPersisted, StoreBehindJournal, InFlightDecision
    <2> QED  BY <2>5, <2>6, <2>7 DEF IInv
  <1> QED  BY <1>1, <1>2, <1>3, <1>4

\* Own records that come back raise the cutoff at most; they never lower it.
LEMMA IngestPreserves ==
    ASSUME IInv, NEW i \in DOMAIN feed, IngestOwn(i) \/ IngestOwnUndecodable(i)
    PROVE  IInv'
  <1>0. i \in Nat /\ feed[i].cutoff \in Nat /\ control \in ControlState /\ acceptedAbove \in Nat
    <2>1. feed \in Seq(FeedRecord) /\ control \in ControlState /\ acceptedAbove \in Nat
      BY DEF IInv, TypeOK
    <2>2. i \in Nat
      BY <2>1
    <2>3. feed[i].cutoff \in Nat
      BY FeedTyped DEF IInv
    <2> QED  BY <2>1, <2>2, <2>3
  <1>1. CASE IngestOwnUndecodable(i)
    <2>1. TypeOK'
      BY <1>0, <1>1 DEF IInv, TypeOK, IngestOwnUndecodable
    <2>2. DownIsIdle' /\ InFlightIsPersisted' /\ InFlightDecision'
      BY <1>1 DEF IInv, IngestOwnUndecodable, DownIsIdle, InFlightIsPersisted, InFlightDecision, Heartbeats
    <2> QED  BY <1>1, <2>1, <2>2, QuietPreserves DEF IngestOwnUndecodable
  <1>2. CASE IngestOwn(i) /\ ~(feed[i].cutoff > acceptedAbove)
    <2>1. /\ control' = Stored(control, i) /\ seen' = seen \cup {i}
          /\ UNCHANGED <<up, acceptedAbove, journal, disk, feed, hb, attest, settled>>
      BY <1>2 DEF IngestOwn
    <2>2. control' \in ControlState /\ control'.cutoff = control.cutoff
      BY <1>0, <2>1, StoredFacts DEF IInv
    <2>3. TypeOK'
      BY <1>0, <2>1, <2>2 DEF IInv, TypeOK
    <2>4. DownIsIdle' /\ InFlightIsPersisted' /\ InFlightDecision' /\ StoreBehindJournal'
      BY <2>1, <2>2 DEF IInv, DownIsIdle, InFlightIsPersisted, InFlightDecision, Heartbeats, StoreBehindJournal
    <2>5. journal' \in Nat \cup {NoCutoff} /\ journal' >= journal /\ acceptedAbove' \in Nat
          /\ (up' => up /\ acceptedAbove' >= acceptedAbove)
      BY <2>1 DEF IInv, TypeOK, NoCutoff
    <2> QED  BY <2>1, <2>3, <2>4, <2>5, FeedUnchanged DEF IInv
  <1>3. CASE IngestOwn(i) /\ feed[i].cutoff > acceptedAbove
    <2> DEFINE a == feed[i].cutoff
    <2>1. PICK p \in PersistValidatorCutoff(a, control) :
            /\ acceptedAbove' = a
            /\ journal' = p.journal
            /\ control' = IF p.ok THEN Stored([control EXCEPT !.cutoff = p.cutoff], i) ELSE control
            /\ seen' = IF p.ok THEN seen \cup {i} ELSE seen
      BY <1>3 DEF IngestOwn
    <2>2. up /\ UNCHANGED <<up, disk, feed, hb, attest, settled>>
      BY <1>3 DEF IngestOwn
    <2>3. a \in Nat /\ a >= acceptedAbove
      BY <1>0, <1>3
    <2> HIDE DEF a
    <2>4. p.ok \in BOOLEAN /\ p.cutoff \in Nat \cup {NoCutoff} /\ (~p.ok => p.cutoff = control.cutoff)
      <3>1. journal \in Nat \cup {NoCutoff}
        BY DEF IInv, TypeOK
      <3> QED  BY <1>0, <2>3, <3>1, PersistFacts
    <2>5. [control EXCEPT !.cutoff = p.cutoff] \in ControlState
          /\ [control EXCEPT !.cutoff = p.cutoff].cutoff = p.cutoff
      BY <1>0, <2>4 DEF ControlState
    <2>6. control' \in ControlState /\ control'.cutoff = p.cutoff
      BY <1>0, <2>1, <2>4, <2>5, StoredFacts DEF IInv
    <2>7. /\ acceptedAbove' \in Nat /\ journal' \in Nat \cup {NoCutoff}
          /\ FeedWellFormed' /\ AnnouncedCutoffIsDurable' /\ CutoffCoversAnnounced'
          /\ NoAttestationDecidedBelowCutoff' /\ Heartbeats' = Heartbeats /\ StoreBehindJournal'
          /\ control'.cutoff >= control.cutoff
      BY <2>1, <2>2, <2>3, <2>6, StepPersist
    <2>8. TypeOK'
      BY <1>0, <2>1, <2>2, <2>6, <2>7 DEF IInv, TypeOK
    <2>9. InFlightIsPersisted'
      <3>1. control.cutoff \in Nat \cup {NoCutoff} /\ control'.cutoff \in Nat \cup {NoCutoff}
            /\ \A k \in HeartbeatTasks : hb[k].cutoff \in Nat
        BY <1>0, <2>4, <2>6 DEF IInv, TypeOK, ControlState, HeartbeatTask
      <3> QED  BY <2>2, <2>7, <3>1 DEF IInv, InFlightIsPersisted, NoCutoff
    <2>10. DownIsIdle' /\ InFlightDecision'
      BY <2>2, <2>7 DEF IInv, DownIsIdle, InFlightDecision
    <2> QED  BY <2>7, <2>8, <2>9, <2>10 DEF IInv
  <1> QED  BY <1>1, <1>2, <1>3

\* IInv is inductive.
LEMMA NextIInv == IInv /\ [Next]_vars => IInv'
  <1> SUFFICES ASSUME IInv, [Next]_vars PROVE IInv'
    OBVIOUS
  <1>1. CASE StartAny
    BY <1>1, StartPreserves DEF StartAny
  <1>2. CASE Crash
    BY <1>2, CrashPreserves
  <1>3. CASE Flush
    <2>1. TypeOK' /\ StoreBehindJournal'
      BY <1>3 DEF Flush, IInv, TypeOK, StoreBehindJournal
    <2>2. DownIsIdle' /\ InFlightIsPersisted' /\ InFlightDecision'
      BY <1>3 DEF Flush, IInv, DownIsIdle, InFlightIsPersisted, InFlightDecision, Heartbeats
    <2>3. /\ FeedWellFormed' /\ AnnouncedCutoffIsDurable' /\ CutoffCoversAnnounced'
          /\ NoAttestationDecidedBelowCutoff'
      BY <1>3 DEF Flush, IInv, FeedWellFormed, AnnouncedCutoffIsDurable, CutoffCoversAnnounced,
                  NoAttestationDecidedBelowCutoff, Heartbeats, Attestations
    <2> QED  BY <2>1, <2>2, <2>3 DEF IInv
  <1>4. ASSUME NEW h \in HeartbeatTasks,
               \/ HeartbeatBegin(h) \/ HeartbeatAppend(h) \/ HeartbeatAbandon(h)
               \/ \E now \in Clock : HeartbeatAdvance(h, now)
        PROVE  IInv'
    BY <1>4, HeartbeatPreserves
  <1>5. CASE \/ \E tx \in Txs, now \in Clock : AttestCheck(tx, now)
             \/ AttestDecline \/ AttestCapture
             \/ \E rejected \in BOOLEAN : AttestAppend(rejected)
             \/ AttestThrow
    BY <1>5, AttestPreserves
  <1>6. CASE \E i \in DOMAIN feed : IngestOwn(i) \/ IngestOwnUndecodable(i)
    BY <1>6, IngestPreserves
  <1>7. CASE UNCHANGED vars
    BY <1>7 DEF vars, IInv, TypeOK, DownIsIdle, StoreBehindJournal, InFlightIsPersisted,
                FeedWellFormed, InFlightDecision, AnnouncedCutoffIsDurable, CutoffCoversAnnounced,
                NoAttestationDecidedBelowCutoff, Heartbeats, Attestations
  <1> QED  BY <1>1, <1>2, <1>3, <1>4, <1>5, <1>6, <1>7 DEF Next

---------------------------------------------------------------------------

\* Every reachable state satisfies the inductive invariant.
THEOREM Invariance == Spec => []IInv
  BY InitIInv, NextIInv, PTL DEF Spec

\* The signing state keeps its type through every crash, restart and overlap.
THEOREM TypeCorrect == Spec => []TypeOK
  <1>1. IInv => TypeOK
    BY DEF IInv
  <1> QED  BY <1>1, Invariance, PTL

\* publishHeartbeat announces only cutoffs that saveValidatorCutoff has made
\* durable, so no crash can make the validator forget an announcement.
THEOREM AnnouncedIsDurable == Spec => []AnnouncedCutoffIsDurable
  <1>1. IInv => AnnouncedCutoffIsDurable
    BY DEF IInv
  <1> QED  BY <1>1, Invariance, PTL

\* A running validator stands at or above everything it ever announced, also
\* after a start() that found no snapshot and could decode none of its records.
THEOREM CutoffCovers == Spec => []CutoffCoversAnnounced
  <1>1. IInv => CutoffCoversAnnounced
    BY DEF IInv
  <1> QED  BY <1>1, Invariance, PTL

\* #maybeAttest never decides for a candidate at or below a cutoff that was on
\* its feed when it decided.
THEOREM DecisionsRespectCutoffs == Spec => []NoAttestationDecidedBelowCutoff
  <1>1. IInv => NoAttestationDecidedBelowCutoff
    BY DEF IInv
  <1> QED  BY <1>1, Invariance, PTL

\* persistValidatorCutoff is never asked for less than the store holds, so its
\* regression error cannot stop a heartbeat or an attestation.
THEOREM NeverRegresses == Spec => []NoCutoffRegression
  <1>1. IInv => NoCutoffRegression
    BY DEF IInv, TypeOK, ControlState, StoreBehindJournal, NoCutoffRegression, NoCutoff
  <1> QED  BY <1>1, Invariance, PTL

\* No step of a running node lowers #acceptedAboveMs, whatever its clock says.
THEOREM NeverRetreats == Spec => CutoffNeverRetreats
  <1>1. IInv /\ [Next]_vars => [up /\ up' => acceptedAbove' >= acceptedAbove]_vars
    <2> SUFFICES ASSUME IInv, Next, up, up' PROVE acceptedAbove' >= acceptedAbove
      OBVIOUS
    <2>0. acceptedAbove \in Nat
      BY DEF IInv, TypeOK
    <2>1. ASSUME NEW now \in Clock PROVE AdvanceValidatorCutoff(now) >= acceptedAbove
      BY <2>0, AdvanceFacts, ConstantsAssumption DEF IInv, TypeOK
    <2>2. CASE StartAny
      BY <2>2 DEF StartAny, Start
    <2>3. CASE Crash
      BY <2>3 DEF Crash
    <2>4. CASE \/ \E h \in HeartbeatTasks, now \in Clock : HeartbeatAdvance(h, now)
               \/ \E tx \in Txs, now \in Clock : AttestCheck(tx, now)
      BY <2>1, <2>4 DEF HeartbeatAdvance, AttestCheck
    <2>5. ASSUME NEW i \in DOMAIN feed, IngestOwn(i) PROVE acceptedAbove' >= acceptedAbove
      <3>1. feed[i].cutoff \in Nat
        BY FeedTyped DEF IInv
      <3>2. CASE feed[i].cutoff > acceptedAbove
        <4>1. acceptedAbove' = feed[i].cutoff
          BY <2>5, <3>2 DEF IngestOwn
        <4> QED  BY <2>0, <3>1, <3>2, <4>1
      <3>3. CASE ~(feed[i].cutoff > acceptedAbove)
        <4>1. acceptedAbove' = acceptedAbove
          BY <2>5, <3>3 DEF IngestOwn
        <4> QED  BY <2>0, <4>1
      <3> QED  BY <3>2, <3>3
    <2>6. ASSUME acceptedAbove' = acceptedAbove PROVE acceptedAbove' >= acceptedAbove
      BY <2>0, <2>6
    <2>7. CASE \/ Flush \/ AttestDecline \/ AttestCapture \/ AttestThrow
               \/ \E rejected \in BOOLEAN : AttestAppend(rejected)
      BY <2>6, <2>7 DEF Flush, AttestDecline, AttestCapture, AttestThrow, AttestAppend
    <2>8. CASE \E h \in HeartbeatTasks : HeartbeatBegin(h) \/ HeartbeatAppend(h) \/ HeartbeatAbandon(h)
      BY <2>6, <2>8 DEF HeartbeatBegin, HeartbeatAppend, HeartbeatAbandon
    <2>9. CASE \E i \in DOMAIN feed : IngestOwnUndecodable(i)
      BY <2>6, <2>9 DEF IngestOwnUndecodable
    <2> QED  BY <2>2, <2>3, <2>4, <2>5, <2>7, <2>8, <2>9 DEF Next
  <1> QED  BY <1>1, Invariance, PTL DEF Spec, CutoffNeverRetreats
=============================================================================
