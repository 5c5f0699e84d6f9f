------------------------ MODULE CheckInAdmission_proofs ------------------------
(***************************************************************************)
(* Proofs about CheckInAdmission for every set of headsets, keys,          *)
(* envelopes and operations, and every limit.                              *)
(*                                                                         *)
(* The argument: what a state of the ledger has admitted is in its past,   *)
(* and the ledger refuses its past by lineage alone, whatever the clock    *)
(* and the replay ledger say; what was answered as accepted, memory and    *)
(* the newest slot hold.  Memory and both slots are states a start accepts *)
(* but for a kiosk target that a check-in has left behind.                 *)
(***************************************************************************)
EXTENDS CheckInAdmission, FiniteSetTheorems, TLAPS

\* The ledger and the authority of a state know the same devices and have
\* advanced together.
Agrees(s) ==
    /\ DeviceIds(s.hub) = PeerIds(s.adapter)
    /\ s.hub.result_revision = s.adapter.authority_revision

RecordSound(h, d) ==
    LET r == h.devices[d] IN
    /\ r.observation.device_id = d
    /\ r.accepted_revision \in 1..h.result_revision
    /\ r.observation.source_epoch \in r.seen_source_epochs
    /\ IsFiniteSet(r.seen_source_epochs)
    /\ Cardinality(r.seen_source_epochs) <= SourceEpochLimit

\* An unsettled kiosk target is of an identity its headset has or had.
KioskReached(h, d) ==
    \A i \in h.kiosk[d] :
        h.devices[d] # NoDevice /\ i <= h.devices[d].observation.identity_revision

\* A state that a start accepts but for an outdated kiosk target, and whose
\* evidence is finite.
Sound(s) ==
    /\ s.hub.result_revision # 0
    /\ \A d \in DeviceIds(s.hub) : RecordSound(s.hub, d)
    /\ \A d \in Devices : KioskReached(s.hub, d)
    /\ IsFiniteSet(s.adapter.seen) /\ Cardinality(s.adapter.seen) <= SeenLimit
    /\ \A d \in PeerIds(s.adapter) : s.adapter.peers[d] = ActiveKey[d]

\* The ledger has moved to or past the lineage of the envelope.
Past(h, e) ==
    LET r == h.devices[e.device_id] IN
    /\ r # NoDevice
    /\ e.source_epoch \in r.seen_source_epochs
    /\ e.identity_revision <= r.observation.identity_revision
    /\ /\ e.identity_revision = r.observation.identity_revision
       /\ e.source_epoch = r.observation.source_epoch
       => e.source_revision <= r.observation.source_revision

\* What the ledger has admitted is in its past.
AdmittedIsPast(h) == \A e \in h.admitted : Past(h, e)

InOrder(s) == Agrees(s) /\ Sound(s) /\ AdmittedIsPast(s.hub)

Present == [hub |-> hub, adapter |-> adapter]

\* The inductive invariant.  A start may take either slot.
AdmissionInv ==
    /\ TypeOK
    /\ InOrder(Present) /\ InOrder(disk.newest) /\ InOrder(disk.previous)
    /\ accepted \subseteq hub.admitted /\ accepted \subseteq disk.newest.hub.admitted

\* Cardinality is the same in every module.
LEMMA SameCardinality == ASSUME NEW S PROVE Ledger!Cardinality(S) = Cardinality(S)
  BY DEF Cardinality, Ledger!Cardinality

\* The entry a history is cut to is one of its entries.
LEMMA NewestType ==
    ASSUME NEW S, NEW log \in Seq(S)
    PROVE  Ledger!Newest(log, 1) \in Seq(S)
  <1>1. CASE Len(log) > 1
    <2>1. Len(log) \in 1..Len(log) /\ Len(log) \in Nat
      BY <1>1
    <2>2. SubSeq(log, Len(log), Len(log)) \in Seq(S)
      BY <2>1
    <2>3. QED
      BY <1>1, <2>1, <2>2 DEF Ledger!Newest
  <1>2. CASE ~(Len(log) > 1)
    BY <1>2 DEF Ledger!Newest
  <1>3. QED
    BY <1>1, <1>2

\* The observation of an envelope is one of the ledger.
LEMMA ObservationType ==
    ASSUME TypeOK, NEW e \in Envelopes, NEW t \in Time
    PROVE  /\ e \in Envelope
           /\ ObservationOf(e, t) \in Ledger!Observation
           /\ ObservationOf(e, t).device_id = e.device_id
           /\ ObservationOf(e, t).identity_revision = e.identity_revision
           /\ ObservationOf(e, t).source_epoch = e.source_epoch
           /\ ObservationOf(e, t).source_revision = e.source_revision
  <1>1. e \in Envelope
    BY EnvelopesAssumption
  <1>2. t \in 0..MaxTime
    BY DEF Time
  <1>3. QED
    BY <1>1, <1>2
       DEF Envelope, ObservationOf, Ledger!Observation

\* The rules of the ledger, of a check-in that it admits.
LEMMA AdmittedBreaksNoRule ==
    ASSUME TypeOK, NEW e \in Envelopes, NEW t \in Time,
           MayAdmit(e, t), hub.devices[e.device_id] # NoDevice
    PROVE  LET r == hub.devices[e.device_id] IN
           /\ e.identity_revision >= r.observation.identity_revision
           /\ e.source_epoch # r.observation.source_epoch =>
                 /\ e.source_epoch \notin r.seen_source_epochs
                 /\ ~(Cardinality(r.seen_source_epochs) >= SourceEpochLimit)
           /\ /\ e.identity_revision = r.observation.identity_revision
              /\ e.source_epoch = r.observation.source_epoch
              => e.source_revision > r.observation.source_revision
  <1>. DEFINE o == ObservationOf(e, t)
              r == hub.devices[e.device_id]
  <1>1. /\ e \in Envelope
        /\ o.device_id = e.device_id /\ o.identity_revision = e.identity_revision
        /\ o.source_epoch = e.source_epoch /\ o.source_revision = e.source_revision
    BY ObservationType
  <1>2. r \in Ledger!DeviceRecord
    BY <1>1 DEF TypeOK, Hub, Envelope
  <1>3. \A i \in 1..9 : ~Ledger!Breaks(o, r)[i]
    BY <1>1 DEF MayAdmit, Ledger!Admissible, Ledger!Known
  <1>4. /\ ~Ledger!IdentityRevisionRollback(o, r)
        /\ ~Ledger!SourceEpochReplay(o, r)
        /\ ~Ledger!SourceEpochEvidenceLimitExceeded(o, r)
        /\ ~Ledger!DuplicateRevision(o, r)
        /\ ~Ledger!StaleRevision(o, r)
    <2>. HIDE DEF o, r
    <2>. QED
      BY <1>3 DEF Ledger!Breaks
  <1>5. /\ o.identity_revision \in Nat /\ r.observation.identity_revision \in Nat
        /\ o.source_revision \in Nat /\ r.observation.source_revision \in Nat
    BY <1>1, <1>2
       DEF Envelope, Ledger!DeviceRecord, Ledger!Observation
  <1>6. QED
    <2>. HIDE DEF o, r
    <2>1. o.identity_revision >= r.observation.identity_revision
      BY <1>4, <1>5 DEF Ledger!IdentityRevisionRollback
    <2>2. o.source_epoch # r.observation.source_epoch =>
              /\ o.source_epoch \notin r.seen_source_epochs
              /\ ~(Cardinality(r.seen_source_epochs) >= SourceEpochLimit)
      <3>1. ASSUME o.source_epoch # r.observation.source_epoch
            PROVE  o.source_epoch \notin r.seen_source_epochs
        BY <1>4, <3>1 DEF Ledger!SourceEpochReplay
      <3>2. ASSUME o.source_epoch # r.observation.source_epoch
            PROVE  ~(Cardinality(r.seen_source_epochs) >= SourceEpochLimit)
        BY <1>4, <3>2, SameCardinality, Zenon DEF Ledger!SourceEpochEvidenceLimitExceeded
      <3>3. QED
        BY <3>1, <3>2
    <2>3. /\ o.identity_revision = r.observation.identity_revision
          /\ o.source_epoch = r.observation.source_epoch
          => o.source_revision > r.observation.source_revision
      BY <1>4, <1>5
         DEF Ledger!DuplicateRevision, Ledger!StaleRevision,
             Ledger!SameSource, Ledger!SameIdentity
    <2>4. QED
      BY <1>1, <2>1, <2>2, <2>3 DEF r

\* What is past is refused, whatever the clock and the replay ledger say.
LEMMA PastIsRefused ==
    ASSUME TypeOK, NEW e \in Envelopes, NEW t \in Time, Past(hub, e)
    PROVE  ~MayAdmit(e, t)
  <1>. SUFFICES ASSUME MayAdmit(e, t) PROVE FALSE
    OBVIOUS
  <1>. DEFINE r == hub.devices[e.device_id]
  <1>1. r # NoDevice /\ e \in Envelope
    BY ObservationType DEF Past
  <1>2. r \in Ledger!DeviceRecord
    BY <1>1 DEF TypeOK, Hub, Envelope
  <1>3. /\ e.identity_revision >= r.observation.identity_revision
        /\ e.source_epoch # r.observation.source_epoch =>
              e.source_epoch \notin r.seen_source_epochs
        /\ /\ e.identity_revision = r.observation.identity_revision
           /\ e.source_epoch = r.observation.source_epoch
           => e.source_revision > r.observation.source_revision
    BY <1>1, AdmittedBreaksNoRule
  <1>4. /\ e.identity_revision \in Nat /\ r.observation.identity_revision \in Nat
        /\ e.source_revision \in Nat /\ r.observation.source_revision \in Nat
    BY <1>1, <1>2
       DEF Envelope, Ledger!DeviceRecord, Ledger!Observation
  <1>. HIDE DEF r
  <1>5. /\ e.source_epoch \in r.seen_source_epochs
        /\ e.identity_revision <= r.observation.identity_revision
        /\ /\ e.identity_revision = r.observation.identity_revision
           /\ e.source_epoch = r.observation.source_epoch
           => e.source_revision <= r.observation.source_revision
    BY DEF Past, r
  <1>6. QED
    BY <1>3, <1>4, <1>5

\* The record that an admission writes.
AdmittedRecord(e, t) == Ledger!AcceptedRecord(ObservationOf(e, t))

\* What an admission writes is a record of the ledger.
LEMMA AdmittedRecordType ==
    ASSUME TypeOK, NEW e \in Envelopes, NEW t \in Time
    PROVE  /\ AdmittedRecord(e, t) \in Ledger!DeviceRecord
           /\ AdmittedRecord(e, t) # NoDevice
           /\ AdmittedRecord(e, t).observation = ObservationOf(e, t)
           /\ AdmittedRecord(e, t).accepted_revision = hub.result_revision + 1
           /\ AdmittedRecord(e, t).seen_source_epochs =
                 {e.source_epoch} \cup IF hub.devices[e.device_id] # NoDevice
                                       THEN hub.devices[e.device_id].seen_source_epochs
                                       ELSE {}
  <1>. DEFINE o == ObservationOf(e, t)
              r == hub.devices[e.device_id]
              before == IF r # NoDevice THEN r.condition_history ELSE <<>>
  <1>1. /\ e \in Envelope /\ o \in Ledger!Observation
        /\ o.device_id = e.device_id /\ o.source_epoch = e.source_epoch
    BY ObservationType
  <1>2. /\ e.device_id \in Devices /\ e.source_epoch \in Epochs
        /\ hub.result_revision \in Nat
        /\ r \in Ledger!DeviceRecord \cup {NoDevice}
    BY <1>1 DEF TypeOK, Hub, Envelope
  <1>3. Ledger!AcceptedRevision = hub.result_revision + 1
    BY DEF Ledger!AcceptedRevision
  <1>4. Ledger!History(o) \in Seq(Nat)
    <2>1. before \in Seq(Nat)
      BY <1>2 DEF Ledger!DeviceRecord
    <2>2. Append(before, hub.result_revision + 1) \in Seq(Nat)
      BY <1>2, <2>1
    <2>3. Ledger!Newest(Append(before, hub.result_revision + 1), 1) \in Seq(Nat)
      <3>. DEFINE log == Append(before, hub.result_revision + 1)
      <3>1. log \in Seq(Nat) /\ 1 \in Nat \ {0}
        BY <2>2
      <3>. HIDE DEF log
      <3>2. Ledger!Newest(log, 1) \in Seq(Nat)
        BY <3>1, NewestType
      <3>3. QED
        BY <3>2 DEF log
    <2>4. Ledger!History(o) = Ledger!Newest(Append(before, hub.result_revision + 1), 1)
      BY <1>1, <1>3 DEF Ledger!History, Ledger!Known, Ledger!Newest
    <2>5. QED
      BY <2>3, <2>4
  <1>5. Ledger!SeenEpochs(o) =
            {e.source_epoch} \cup IF r # NoDevice THEN r.seen_source_epochs ELSE {}
    BY <1>1 DEF Ledger!SeenEpochs, Ledger!Known
  <1>6. Ledger!SeenEpochs(o) \in SUBSET Epochs
    BY <1>2, <1>5 DEF Ledger!DeviceRecord
  <1>7. /\ AdmittedRecord(e, t).observation = o
        /\ AdmittedRecord(e, t).accepted_revision = hub.result_revision + 1
        /\ AdmittedRecord(e, t).seen_source_epochs = Ledger!SeenEpochs(o)
    BY <1>3 DEF AdmittedRecord, Ledger!AcceptedRecord
  <1>8. AdmittedRecord(e, t) \in Ledger!DeviceRecord
    <2>1. hub.result_revision + 1 \in Nat
      BY <1>2
    <2>2. QED
      BY <1>1, <1>3, <1>4, <1>6, <2>1
         DEF AdmittedRecord, Ledger!AcceptedRecord, Ledger!DeviceRecord
  <1>9. NoDevice \notin Ledger!DeviceRecord
    BY LedgerAssumption DEF Ledger!NoDeviceAssumption
  <1>10. QED
    BY <1>5, <1>7, <1>8, <1>9

\* The evidence in that record is finite and within the limit of the policy.
LEMMA AdmittedEvidenceBounded ==
    ASSUME TypeOK, Sound(Present),
           NEW e \in Envelopes, NEW t \in Time, MayAdmit(e, t)
    PROVE  /\ IsFiniteSet(AdmittedRecord(e, t).seen_source_epochs)
           /\ Cardinality(AdmittedRecord(e, t).seen_source_epochs) <= SourceEpochLimit
  <1>. DEFINE r == hub.devices[e.device_id]
              seen == AdmittedRecord(e, t).seen_source_epochs
  <1>1. SourceEpochLimit \in Nat \ {0} /\ e.device_id \in Devices
    BY ObservationType, LedgerAssumption DEF Envelope, Ledger!PolicyAssumption
  <1>2. CASE r = NoDevice
    <2>1. seen = {e.source_epoch}
      BY <1>2, AdmittedRecordType
    <2>2. IsFiniteSet({e.source_epoch}) /\ Cardinality({e.source_epoch}) = 1
      BY FS_Singleton
    <2>3. QED
      BY <1>1, <2>1, <2>2
  <1>3. CASE r # NoDevice
    <2>1. seen = {e.source_epoch} \cup r.seen_source_epochs
      BY <1>3, AdmittedRecordType
    <2>2. RecordSound(hub, e.device_id)
      BY <1>1, <1>3 DEF Sound, Present, DeviceIds
    <2>3. /\ IsFiniteSet(r.seen_source_epochs)
          /\ Cardinality(r.seen_source_epochs) <= SourceEpochLimit
          /\ Cardinality(r.seen_source_epochs) \in Nat
          /\ r.observation.source_epoch \in r.seen_source_epochs
      BY <2>2, FS_CardinalityType DEF RecordSound
    <2>4. CASE e.source_epoch \in r.seen_source_epochs
      <3>1. seen = r.seen_source_epochs
        BY <2>1, <2>4
      <3>2. QED
        BY <2>3, <3>1
    <2>5. CASE e.source_epoch \notin r.seen_source_epochs
      <3>1. ~(Cardinality(r.seen_source_epochs) >= SourceEpochLimit)
        BY <1>3, <2>3, <2>5, AdmittedBreaksNoRule
      <3>2. seen = r.seen_source_epochs \cup {e.source_epoch}
        BY <2>1
      <3>3. /\ IsFiniteSet(r.seen_source_epochs \cup {e.source_epoch})
            /\ Cardinality(r.seen_source_epochs \cup {e.source_epoch}) =
                  Cardinality(r.seen_source_epochs) + 1
        BY <2>3, <2>5, FS_AddElement
      <3>4. QED
        BY <1>1, <2>3, <3>1, <3>2, <3>3
    <2>6. QED
      BY <2>4, <2>5
  <1>4. QED
    BY <1>2, <1>3

\* What an admission changes in the ledger, and what it leaves.
LEMMA AdmittedHubFields ==
    ASSUME TypeOK, NEW e \in Envelopes, NEW t \in Time
    PROVE  /\ AdmittedHub(e, t) \in Hub
           /\ AdmittedHub(e, t).devices[e.device_id] = AdmittedRecord(e, t)
           /\ \A d \in Devices \ {e.device_id} :
                 AdmittedHub(e, t).devices[d] = hub.devices[d]
           /\ AdmittedHub(e, t).result_revision = hub.result_revision + 1
           /\ AdmittedHub(e, t).receipts = hub.receipts
           /\ AdmittedHub(e, t).kiosk = hub.kiosk
           /\ AdmittedHub(e, t).admitted = hub.admitted \cup {e}
           /\ AdmittedHub(e, t).log =
                 [hub.log EXCEPT ![e.device_id] = Append(hub.log[e.device_id],
                     Entry(IF Carries(e) THEN "proof"
                                                            ELSE "check-in", {}))]
  <1>. DEFINE h == AdmittedHub(e, t)
              entry == Entry(IF Carries(e) THEN "proof" ELSE "check-in", {})
  <1>1. /\ hub \in Hub /\ e.device_id \in Devices
        /\ AdmittedRecord(e, t) \in Ledger!DeviceRecord
    BY ObservationType, AdmittedRecordType DEF TypeOK, Envelope
  <1>. DEFINE devs == [hub.devices EXCEPT ![e.device_id] = AdmittedRecord(e, t)]
              log == [hub.log EXCEPT ![e.device_id] = Append(hub.log[e.device_id], entry)]
  <1>0. h = [hub EXCEPT !.devices = devs, !.result_revision = hub.result_revision + 1,
                        !.admitted = hub.admitted \cup {e}, !.log = log]
    BY <1>1 DEF AdmittedHub, Hub, AdmittedRecord,
                Ledger!AcceptedRevision
  <1>2. /\ h.devices = [hub.devices EXCEPT ![e.device_id] = AdmittedRecord(e, t)]
        /\ h.result_revision = hub.result_revision + 1
        /\ h.receipts = hub.receipts
        /\ h.log = [hub.log EXCEPT ![e.device_id] = Append(hub.log[e.device_id], entry)]
        /\ h.kiosk = hub.kiosk /\ h.admitted = hub.admitted \cup {e}
        /\ h = [devices |-> h.devices, result_revision |-> h.result_revision,
                receipts |-> h.receipts, kiosk |-> h.kiosk, admitted |-> h.admitted,
                log |-> h.log]
    <2>. HIDE DEF devs, log, h
    <2>1. /\ h.devices = devs /\ h.result_revision = hub.result_revision + 1
          /\ h.receipts = hub.receipts /\ h.log = log
          /\ h.kiosk = hub.kiosk /\ h.admitted = hub.admitted \cup {e}
          /\ h = [devices |-> h.devices, result_revision |-> h.result_revision,
                  receipts |-> h.receipts, kiosk |-> h.kiosk, admitted |-> h.admitted,
                  log |-> h.log]
      BY <1>0, <1>1 DEF Hub
    <2>2. QED
      BY <2>1 DEF devs, log
  <1>3. h.devices \in [Devices -> Ledger!DeviceRecord \cup {NoDevice}]
    BY <1>1, <1>2 DEF Hub
  <1>4. h.result_revision \in Nat
    BY <1>1, <1>2 DEF Hub
  <1>5. h.log \in [Devices -> Seq(Logged)]
    <2>1. entry \in Logged
      BY DEF Entry, Logged, TypeOK
    <2>2. hub.log \in [Devices -> Seq(Logged)]
      BY <1>1 DEF Hub
    <2>3. Append(hub.log[e.device_id], entry) \in Seq(Logged)
      BY <1>1, <2>1, <2>2
    <2>4. QED
      BY <1>2, <2>2, <2>3
  <1>6. /\ h.receipts \in [WifiOperations -> Time \cup {NoReceipt}]
        /\ h.kiosk \in [Devices -> SUBSET (1..MaxIdentityRevision)]
        /\ h.admitted \in SUBSET Envelopes
    BY <1>1, <1>2 DEF Hub
  <1>7. h \in Hub
    <2>. HIDE DEF h
    <2>. QED
      BY <1>2, <1>3, <1>4, <1>5, <1>6 DEF Hub
  <1>8. QED
    <2>1. \A d \in Devices \ {e.device_id} : h.devices[d] = hub.devices[d]
      BY <1>1, <1>2 DEF Hub
    <2>2. h.devices[e.device_id] = AdmittedRecord(e, t)
      BY <1>1, <1>2 DEF Hub
    <2>. HIDE DEF h
    <2>3. QED
      BY <1>2, <1>7, <2>1, <2>2 DEF h, entry

\* After an admission the ledger is past the envelope admitted, and still past
\* whatever it was past of: the epoch is remembered, and within an identity and
\* an epoch the revisions advance.
LEMMA AdmissionMovesOn ==
    ASSUME TypeOK, NEW e \in Envelopes, NEW t \in Time, MayAdmit(e, t)
    PROVE  /\ Past(AdmittedHub(e, t), e)
           /\ \A x \in Envelopes : Past(hub, x) => Past(AdmittedHub(e, t), x)
  <1>. DEFINE h == AdmittedHub(e, t)
              r == hub.devices[e.device_id]
              n == AdmittedRecord(e, t)
  <1>1. /\ e \in Envelope
        /\ n # NoDevice
        /\ n.observation.identity_revision = e.identity_revision
        /\ n.observation.source_epoch = e.source_epoch
        /\ n.observation.source_revision = e.source_revision
        /\ n.seen_source_epochs = {e.source_epoch} \cup
              IF r # NoDevice THEN r.seen_source_epochs ELSE {}
    BY ObservationType, AdmittedRecordType
  <1>2. /\ h.devices[e.device_id] = n
        /\ \A d \in Devices \ {e.device_id} : h.devices[d] = hub.devices[d]
    BY AdmittedHubFields
  <1>. HIDE DEF h, n
  <1>3. Past(h, e)
    <2>1. e.identity_revision \in Nat /\ e.source_revision \in Nat
      BY <1>1 DEF Envelope
    <2>2. QED
      BY <1>1, <1>2, <2>1 DEF Past
  <1>4. ASSUME NEW x \in Envelopes, Past(hub, x)
        PROVE  Past(h, x)
    <2>1. x \in Envelope
      BY ObservationType
    <2>2. CASE x.device_id # e.device_id
      <3>1. h.devices[x.device_id] = hub.devices[x.device_id]
        BY <1>2, <2>1, <2>2 DEF Envelope
      <3>2. QED
        BY <1>4, <3>1 DEF Past
    <2>3. CASE x.device_id = e.device_id
      <3>1. /\ r # NoDevice
            /\ x.source_epoch \in r.seen_source_epochs
            /\ x.identity_revision <= r.observation.identity_revision
            /\ /\ x.identity_revision = r.observation.identity_revision
               /\ x.source_epoch = r.observation.source_epoch
               => x.source_revision <= r.observation.source_revision
        BY <1>4, <2>3 DEF Past
      <3>2. r \in Ledger!DeviceRecord
        BY <1>1, <3>1 DEF TypeOK, Hub, Envelope
      <3>3. /\ x.identity_revision \in Nat /\ x.source_revision \in Nat
            /\ e.identity_revision \in Nat /\ e.source_revision \in Nat
            /\ r.observation.identity_revision \in Nat
            /\ r.observation.source_revision \in Nat
        <4>1. /\ x.identity_revision \in Nat /\ x.source_revision \in Nat
              /\ e.identity_revision \in Nat /\ e.source_revision \in Nat
          BY <1>1, <2>1 DEF Envelope
        <4>2. r.observation \in Ledger!Observation
          BY <3>2 DEF Ledger!DeviceRecord
        <4>3. /\ r.observation.identity_revision \in Nat
              /\ r.observation.source_revision \in Nat
          BY <4>2 DEF Ledger!Observation
        <4>4. QED
          BY <4>1, <4>3
      <3>4. /\ e.identity_revision >= r.observation.identity_revision
            /\ e.source_epoch # r.observation.source_epoch =>
                  e.source_epoch \notin r.seen_source_epochs
            /\ /\ e.identity_revision = r.observation.identity_revision
               /\ e.source_epoch = r.observation.source_epoch
               => e.source_revision > r.observation.source_revision
        BY <3>1, AdmittedBreaksNoRule
      <3>. HIDE DEF r
      <3>5. x.source_epoch \in n.seen_source_epochs
        BY <1>1, <3>1
      <3>6. x.identity_revision <= e.identity_revision
        BY <3>1, <3>3, <3>4
      <3>7. ASSUME x.identity_revision = e.identity_revision,
                   x.source_epoch = e.source_epoch
            PROVE  x.source_revision <= e.source_revision
        <4>1. e.source_epoch = r.observation.source_epoch
          BY <3>1, <3>4, <3>7
        <4>2. e.identity_revision = r.observation.identity_revision
          BY <3>1, <3>3, <3>4, <3>7
        <4>3. QED
          BY <3>1, <3>3, <3>4, <3>7, <4>1, <4>2
      <3>8. QED
        BY <1>1, <1>2, <2>3, <3>5, <3>6, <3>7 DEF Past
    <2>4. QED
      BY <2>2, <2>3
  <1>5. QED
    BY <1>3, <1>4 DEF h

\* Forgetting keeps the replay ledger finite and within its limit, and the
\* proofs of their type.
LEMMA ForgettingType ==
    ASSUME NEW a \in Adapter, NEW t,
           IsFiniteSet(a.seen), Cardinality(a.seen) <= SeenLimit, SeenLimit \in Nat
    PROVE  /\ Unexpired(a.seen, t) \subseteq a.seen
           /\ IsFiniteSet(Unexpired(a.seen, t))
           /\ Cardinality(Unexpired(a.seen, t)) <= SeenLimit
           /\ Fresh(a.proofs, t) \in [Devices -> Proof \cup {NoProof}]
  <1>1. Unexpired(a.seen, t) \subseteq a.seen
    BY DEF Unexpired
  <1>2. /\ IsFiniteSet(Unexpired(a.seen, t))
        /\ Cardinality(Unexpired(a.seen, t)) <= Cardinality(a.seen)
    BY <1>1, FS_Subset
  <1>3. /\ Cardinality(Unexpired(a.seen, t)) \in Nat
        /\ Cardinality(a.seen) \in Nat
    BY <1>2, FS_CardinalityType
  <1>4. Fresh(a.proofs, t) \in [Devices -> Proof \cup {NoProof}]
    BY DEF Fresh, Adapter
  <1>5. QED
    BY <1>1, <1>2, <1>3, <1>4

\* The proof that an admission keeps for a headset.
LEMMA AdmittedProofsType ==
    ASSUME TypeOK, Sound(Present),
           NEW e \in Envelopes, NEW t \in Time, MayAdmit(e, t)
    PROVE  AdmittedProofs(e, t) \in [Devices -> Proof \cup {NoProof}]
  <1>. DEFINE o == CHOOSE o \in Binding(e, t) : TRUE
              new == [identity_revision |-> e.identity_revision,
                      source_epoch |-> e.source_epoch,
                      source_revision |-> e.source_revision,
                      checkin_expires_at |-> e.expires_at,
                      fresh_until |-> e.fresh_until, accepted_at |-> t,
                      operation |-> o, bound_at |-> hub.receipts[o]]
  <1>1. e \in Envelope
    BY ObservationType
  <1>2. Fresh(adapter.proofs, t) \in [Devices -> Proof \cup {NoProof}]
    BY ForgettingType, LedgerAssumption DEF TypeOK, Sound, Present
  <1>3. CASE ~Carries(e)
    BY <1>1, <1>2, <1>3 DEF AdmittedProofs
  <1>4. CASE Carries(e)
    <2>1. Binding(e, t) # {}
      BY <1>4 DEF MayAdmit, ProofAdmissible
    <2>2. o \in Binding(e, t)
      BY <2>1
    <2>3. /\ o \in WifiOperations /\ hub.receipts[o] # NoReceipt
      BY <2>2 DEF Binding, Received
    <2>4. hub.receipts[o] \in Time
      BY <2>3 DEF TypeOK, Hub
    <2>. HIDE DEF o
    <2>5. new \in Proof
      BY <1>1, <2>3, <2>4 DEF Proof, Envelope
    <2>6. AdmittedProofs(e, t) =
              [Fresh(adapter.proofs, t) EXCEPT ![e.device_id] = new]
      BY <1>4 DEF AdmittedProofs, o
    <2>. HIDE DEF new
    <2>7. QED
      BY <1>2, <2>5, <2>6
  <1>5. QED
    BY <1>3, <1>4

\* What an admission changes in the authority.
LEMMA AdmittedAdapterFields ==
    ASSUME TypeOK, Sound(Present),
           NEW e \in Envelopes, NEW t \in Time, MayAdmit(e, t)
    PROVE  LET a == AdmittedAdapter(e, t) IN
           /\ a \in Adapter
           /\ a.peers = [adapter.peers EXCEPT ![e.device_id] = ActiveKey[e.device_id]]
           /\ a.authority_revision = adapter.authority_revision + 1
           /\ IsFiniteSet(a.seen) /\ Cardinality(a.seen) <= SeenLimit
  <1>. DEFINE a == AdmittedAdapter(e, t)
              kept == Unexpired(adapter.seen, t)
              new == [checkin_id |-> e.checkin_id, expires_at |-> e.expires_at]
  <1>1. /\ e \in Envelope /\ adapter \in Adapter
        /\ SeenLimit \in Nat /\ e.key_id = ActiveKey[e.device_id]
    BY ObservationType, LedgerAssumption DEF TypeOK, MayAdmit, Authentic
  <1>2. /\ kept \subseteq adapter.seen /\ IsFiniteSet(kept)
    BY <1>1, ForgettingType DEF Sound, Present
  <1>3. Cardinality(kept) < SeenLimit
    BY SameCardinality DEF MayAdmit
  <1>4. /\ IsFiniteSet(kept \cup {new})
        /\ Cardinality(kept \cup {new}) <= SeenLimit
    <2>. HIDE DEF kept, new
    <2>1. /\ IsFiniteSet(kept \cup {new})
          /\ Cardinality(kept \cup {new}) = IF new \in kept THEN Cardinality(kept)
                                                            ELSE Cardinality(kept) + 1
      BY <1>2, FS_AddElement
    <2>2. Cardinality(kept) \in Nat
      BY <1>2, FS_CardinalityType
    <2>3. QED
      BY <1>1, <1>3, <2>1, <2>2
  <1>5. kept \cup {new} \in SUBSET Seen
    <2>1. new \in Seen
      BY <1>1 DEF Seen, Envelope
    <2>2. QED
      BY <1>1, <1>2, <2>1 DEF Adapter
  <1>6. /\ a.peers = [adapter.peers EXCEPT ![e.device_id] = e.key_id]
        /\ a.authority_revision = adapter.authority_revision + 1
        /\ a.seen = kept \cup {new}
        /\ a.proofs = AdmittedProofs(e, t)
        /\ a = [peers |-> a.peers, authority_revision |-> a.authority_revision,
                seen |-> a.seen, proofs |-> a.proofs]
    BY DEF AdmittedAdapter
  <1>7. a.peers \in [Devices -> Keys \cup {NoKey}]
    BY <1>1, <1>6 DEF Adapter, Envelope
  <1>8. a.authority_revision \in Nat
    BY <1>1, <1>6 DEF Adapter
  <1>9. a.proofs \in [Devices -> Proof \cup {NoProof}]
    BY <1>6, AdmittedProofsType
  <1>10. a \in Adapter
    <2>. HIDE DEF a, kept, new
    <2>. QED
      BY <1>5, <1>6, <1>7, <1>8, <1>9 DEF Adapter
  <1>11. QED
    BY <1>1, <1>4, <1>6, <1>10

Admitted(e, t) == [hub |-> AdmittedHub(e, t), adapter |-> AdmittedAdapter(e, t)]

\* An admission yields a state in order.
LEMMA AdmittedIsInOrder ==
    ASSUME AdmissionInv, NEW e \in Envelopes, NEW t \in Time, MayAdmit(e, t)
    PROVE  /\ Admitted(e, t) \in Snapshot
           /\ InOrder(Admitted(e, t))
  <1>. DEFINE s == Admitted(e, t)
              d == e.device_id
  <1>0. /\ TypeOK /\ Sound(Present) /\ Agrees(Present) /\ AdmittedIsPast(hub)
        /\ d \in Devices
        /\ Present.hub = hub /\ Present.adapter = adapter
        /\ s.hub = AdmittedHub(e, t) /\ s.adapter = AdmittedAdapter(e, t)
    BY ObservationType DEF AdmissionInv, InOrder, Present, Admitted, Envelope
  <1>1. /\ s.hub \in Hub
        /\ s.hub.devices[d] = AdmittedRecord(e, t)
        /\ \A x \in Devices \ {d} : s.hub.devices[x] = hub.devices[x]
        /\ s.hub.result_revision = hub.result_revision + 1
        /\ s.hub.kiosk = hub.kiosk /\ s.hub.admitted = hub.admitted \cup {e}
    <2>1. s.hub = AdmittedHub(e, t) /\ TypeOK
      BY <1>0
    <2>2. /\ AdmittedHub(e, t) \in Hub
          /\ AdmittedHub(e, t).devices[e.device_id] = AdmittedRecord(e, t)
          /\ \A x \in Devices \ {e.device_id} :
                AdmittedHub(e, t).devices[x] = hub.devices[x]
          /\ AdmittedHub(e, t).result_revision = hub.result_revision + 1
          /\ AdmittedHub(e, t).kiosk = hub.kiosk
          /\ AdmittedHub(e, t).admitted = hub.admitted \cup {e}
      BY <2>1, AdmittedHubFields, Zenon
    <2>. HIDE DEF s
    <2>3. QED
      BY <2>1, <2>2
  <1>2. /\ s.adapter \in Adapter
        /\ s.adapter.peers = [adapter.peers EXCEPT ![d] = ActiveKey[d]]
        /\ s.adapter.authority_revision = adapter.authority_revision + 1
        /\ IsFiniteSet(s.adapter.seen) /\ Cardinality(s.adapter.seen) <= SeenLimit
    BY <1>0, AdmittedAdapterFields
  <1>3. /\ hub.result_revision \in Nat /\ adapter.peers \in [Devices -> Keys \cup {NoKey}]
        /\ ActiveKey[d] # NoKey
    BY <1>0, KeysAssumption DEF TypeOK, Hub, Adapter
  <1>4. s \in Snapshot
    BY <1>0, <1>1, <1>2 DEF Snapshot, Admitted
  <1>5. RecordSound(s.hub, d)
    <2>1. /\ AdmittedRecord(e, t).observation = ObservationOf(e, t)
          /\ AdmittedRecord(e, t).accepted_revision = hub.result_revision + 1
          /\ e.source_epoch \in AdmittedRecord(e, t).seen_source_epochs
      BY <1>0, AdmittedRecordType
    <2>2. /\ ObservationOf(e, t).device_id = d
          /\ ObservationOf(e, t).source_epoch = e.source_epoch
      BY <1>0, ObservationType
    <2>3. /\ IsFiniteSet(AdmittedRecord(e, t).seen_source_epochs)
          /\ Cardinality(AdmittedRecord(e, t).seen_source_epochs) <= SourceEpochLimit
      BY <1>0, AdmittedEvidenceBounded
    <2>. HIDE DEF s, d
    <2>4. QED
      BY <1>1, <1>3, <2>1, <2>2, <2>3 DEF RecordSound
  <1>6. ASSUME NEW x \in DeviceIds(s.hub), x # d
        PROVE  RecordSound(s.hub, x)
    <2>1. x \in DeviceIds(hub) /\ s.hub.devices[x] = hub.devices[x]
      BY <1>1, <1>6 DEF DeviceIds
    <2>2. RecordSound(hub, x)
      BY <1>0, <2>1 DEF Sound
    <2>. HIDE DEF s, d
    <2>3. QED
      BY <1>1, <1>3, <2>1, <2>2 DEF RecordSound
  <1>7. \A x \in PeerIds(s.adapter) : s.adapter.peers[x] = ActiveKey[x]
    BY <1>0, <1>2, <1>3 DEF Sound, PeerIds
  <1>8. ASSUME NEW x \in Devices, NEW i \in s.hub.kiosk[x]
        PROVE  /\ s.hub.devices[x] # NoDevice
               /\ i <= s.hub.devices[x].observation.identity_revision
    <2>1. /\ hub.devices[x] # NoDevice
          /\ i <= hub.devices[x].observation.identity_revision
      BY <1>0, <1>1, <1>8 DEF Sound, KioskReached
    <2>2. CASE x # d
      <3>1. s.hub.devices[x] = hub.devices[x]
        BY <1>1, <2>2
      <3>2. QED
        BY <2>1, <3>1
    <2>3. CASE x = d
      <3>1. i \in Nat
        <4>1. s.hub.kiosk[x] \in SUBSET (1..MaxIdentityRevision)
          BY <1>0, <1>1 DEF TypeOK, Hub
        <4>2. QED
          BY <1>8, <4>1
      <3>2. hub.devices[d] \in Ledger!DeviceRecord
        BY <1>0, <2>1, <2>3 DEF TypeOK, Hub
      <3>3. hub.devices[d].observation.identity_revision \in Nat
        <4>1. hub.devices[d].observation \in Ledger!Observation
          BY <3>2 DEF Ledger!DeviceRecord
        <4>2. QED
          BY <4>1 DEF Ledger!Observation
      <3>4. e.identity_revision >= hub.devices[d].observation.identity_revision
        BY <1>0, <2>1, <2>3, AdmittedBreaksNoRule
      <3>5. /\ AdmittedRecord(e, t) # NoDevice
            /\ AdmittedRecord(e, t).observation.identity_revision = e.identity_revision
        BY <1>0, AdmittedRecordType, ObservationType
      <3>6. e.identity_revision \in Nat
        BY <1>0, ObservationType DEF Envelope
      <3>. HIDE DEF s, d
      <3>7. i <= e.identity_revision
        BY <2>1, <2>3, <3>1, <3>3, <3>4, <3>6
      <3>8. QED
        BY <1>1, <2>3, <3>5, <3>7
    <2>4. QED
      BY <2>2, <2>3
  <1>9. Sound(s)
    <2>. HIDE DEF s, d
    <2>1. s.hub.result_revision # 0
      BY <1>1, <1>3
    <2>2. \A x \in DeviceIds(s.hub) : RecordSound(s.hub, x)
      BY <1>5, <1>6
    <2>3. \A x \in Devices : KioskReached(s.hub, x)
      BY <1>8 DEF KioskReached
    <2>4. QED
      BY <1>2, <1>7, <2>1, <2>2, <2>3 DEF Sound
  <1>10. Agrees(s)
    <2>. HIDE DEF s, d
    <2>1. DeviceIds(s.hub) = DeviceIds(hub) \cup {d}
      BY <1>0, <1>1, AdmittedRecordType DEF DeviceIds
    <2>2. PeerIds(s.adapter) = PeerIds(adapter) \cup {d}
      BY <1>0, <1>2, <1>3 DEF PeerIds
    <2>3. QED
      BY <1>0, <1>1, <1>2, <2>1, <2>2 DEF Agrees
  <1>11. AdmittedIsPast(s.hub)
    <2>1. hub.admitted \subseteq Envelopes
      BY <1>0 DEF TypeOK, Hub
    <2>2. QED
      BY <1>0, <1>1, <2>1, AdmissionMovesOn DEF AdmittedIsPast
  <1>12. QED
    BY <1>4, <1>9, <1>10, <1>11 DEF InOrder

\* A start accepts a sound state whose ledger and authority agree, unless a
\* check-in has left a kiosk target behind.
LEMMA SoundRestores ==
    ASSUME NEW s \in Snapshot, Sound(s), Agrees(s), ~Outdated(s.hub)
    PROVE  Restorable(s)
  <1>1. \A d \in DeviceIds(s.hub) :
            /\ s.hub.devices[d].observation.device_id = d
            /\ s.hub.devices[d].accepted_revision \in 1..s.hub.result_revision
            /\ s.hub.devices[d].observation.source_epoch \in
                  s.hub.devices[d].seen_source_epochs
            /\ Cardinality(s.hub.devices[d].seen_source_epochs) <= SourceEpochLimit
    BY SameCardinality DEF Sound, RecordSound
  <1>2. Cardinality(s.adapter.seen) <= SeenLimit
    BY SameCardinality DEF Sound
  <1>3. KioskBound(s.hub)
    <2>. SUFFICES ASSUME NEW d \in Devices, NEW i \in s.hub.kiosk[d]
                  PROVE  /\ s.hub.devices[d] # NoDevice
                         /\ s.hub.devices[d].observation.identity_revision = i
      BY DEF KioskBound
    <2>1. /\ s.hub.devices[d] # NoDevice
          /\ i <= s.hub.devices[d].observation.identity_revision
      BY DEF Sound, KioskReached
    <2>2. ~(s.hub.devices[d].observation.identity_revision > i)
      BY <2>1 DEF Outdated, DeviceIds
    <2>3. s.hub \in Hub
      BY DEF Snapshot
    <2>4. i \in Nat
      <3>1. s.hub.kiosk[d] \in SUBSET (1..MaxIdentityRevision)
        BY <2>3 DEF Hub
      <3>2. QED
        BY <3>1
    <2>5. s.hub.devices[d].observation.identity_revision \in Nat
      <3>1. s.hub.devices[d] \in Ledger!DeviceRecord
        BY <2>1, <2>3 DEF Hub
      <3>2. s.hub.devices[d].observation \in Ledger!Observation
        BY <3>1 DEF Ledger!DeviceRecord
      <3>3. QED
        BY <3>2 DEF Ledger!Observation
    <2>6. QED
      BY <2>1, <2>2, <2>4, <2>5
  <1>4. /\ s.hub.result_revision # 0
        /\ \A d \in PeerIds(s.adapter) : s.adapter.peers[d] = ActiveKey[d]
        /\ DeviceIds(s.hub) = PeerIds(s.adapter)
    BY DEF Sound, Agrees
  <1>5. QED
    BY <1>1, <1>2, <1>3, <1>4, Zenon DEF Restorable

\* What the settled ledger is made of: only the receipt and the log are new.
LEMMA SettledFields ==
    ASSUME TypeOK, NEW o \in WifiOperations, NEW t \in Time
    PROVE  /\ Settled(o, t) \in Hub
           /\ Settled(o, t).devices = hub.devices
           /\ Settled(o, t).result_revision = hub.result_revision
           /\ Settled(o, t).kiosk = hub.kiosk
           /\ Settled(o, t).admitted = hub.admitted
           /\ Settled(o, t).receipts = [hub.receipts EXCEPT ![o] = t]
           /\ Settled(o, t).log =
                 [hub.log EXCEPT ![Wifi[o].device_id] =
                     Append(hub.log[Wifi[o].device_id], Entry("receipt", {o}))]
  <1>. DEFINE h == Settled(o, t)
              d == Wifi[o].device_id
              entry == Entry("receipt", {o})
              receipts == [hub.receipts EXCEPT ![o] = t]
              log == [hub.log EXCEPT ![d] = Append(hub.log[d], entry)]
  <1>1. /\ hub \in Hub /\ now \in Time /\ d \in Devices
    BY OperationsAssumption DEF TypeOK, WifiOperation
  <1>2. h = [hub EXCEPT !.receipts = receipts, !.log = log]
    BY <1>1 DEF Settled, Hub
  <1>3. receipts \in [WifiOperations -> Time \cup {NoReceipt}]
    BY <1>1 DEF Hub
  <1>4. log \in [Devices -> Seq(Logged)]
    <2>1. entry \in Logged
      BY <1>1 DEF Entry, Logged
    <2>2. hub.log \in [Devices -> Seq(Logged)]
      BY <1>1 DEF Hub
    <2>3. Append(hub.log[d], entry) \in Seq(Logged)
      BY <1>1, <2>1, <2>2
    <2>4. QED
      BY <2>2, <2>3
  <1>. HIDE DEF receipts, log, h
  <1>5. /\ h \in Hub /\ h.devices = hub.devices
        /\ h.result_revision = hub.result_revision
        /\ h.kiosk = hub.kiosk /\ h.admitted = hub.admitted
        /\ h.receipts = receipts /\ h.log = log
    BY <1>1, <1>2, <1>3, <1>4 DEF Hub
  <1>6. QED
    BY <1>5 DEF h, receipts, log

\* The slots after a save.
LEMMA SavedSlots ==
    ASSUME TypeOK, NEW s \in Snapshot, NEW known \in BOOLEAN
    PROVE  /\ Saved(s, known) \in
                 [newest : Snapshot, previous : Snapshot, ahead : BOOLEAN]
           /\ Saved(s, known).newest = s
           /\ Saved(s, known).previous \in {disk.newest, disk.previous}
  BY DEF TypeOK, Saved

\* A call that saves a state in order, and then holds it or what it held before.
LEMMA SaveStep ==
    ASSUME AdmissionInv, NEW s \in Snapshot, InOrder(s), NEW known \in BOOLEAN,
           disk' = Saved(s, known),
           \/ hub' = s.hub /\ adapter' = s.adapter
           \/ hub' = hub /\ adapter' = adapter,
           accepted' \in SUBSET Envelopes,
           accepted' \subseteq hub'.admitted, accepted' \subseteq s.hub.admitted,
           UNCHANGED <<now, shown, up, setbacks>>, events' \in 0..MaxEvents
    PROVE  AdmissionInv'
  <1>1. /\ TypeOK /\ InOrder(Present) /\ InOrder(disk.newest) /\ InOrder(disk.previous)
    BY DEF AdmissionInv
  <1>2. /\ disk' \in [newest : Snapshot, previous : Snapshot, ahead : BOOLEAN]
        /\ disk'.newest = s
        /\ disk'.previous \in {disk.newest, disk.previous}
    BY <1>1, SavedSlots
  <1>3. s = [hub |-> s.hub, adapter |-> s.adapter] /\ s.hub \in Hub /\ s.adapter \in Adapter
    BY DEF Snapshot
  <1>4. Present' = s \/ Present' = Present
    BY <1>3 DEF Present
  <1>5. Cardinality(adapter'.seen) <= SeenLimit
    BY <1>1 DEF InOrder, Sound, TypeOK
  <1>6. TypeOK'
    BY <1>1, <1>2, <1>3, <1>5 DEF TypeOK
  <1>7. InOrder(Present)'
    BY <1>1, <1>4
  <1>8. InOrder(disk.newest)' /\ InOrder(disk.previous)'
    BY <1>1, <1>2
  <1>9. QED
    BY <1>2, <1>6, <1>7, <1>8 DEF AdmissionInv

\* How many events a call may count.
LEMMA Counted ==
    ASSUME TypeOK, NEW n \in Nat, Count(n)
    PROVE  events' \in 0..MaxEvents
  BY LedgerAssumption DEF TypeOK, Count

\* The handler of a check-in.
LEMMA CheckInStep ==
    ASSUME AdmissionInv, NEW e \in Envelopes, NEW t \in shown, NEW known \in BOOLEAN,
           CheckIn(e, t, known)
    PROVE  AdmissionInv'
  <1>. DEFINE s == Admitted(e, t)
  <1>1. /\ TypeOK /\ MayAdmit(e, t) /\ t \in Time
        /\ accepted \subseteq hub.admitted /\ accepted \in SUBSET Envelopes
        /\ s.hub = AdmittedHub(e, t) /\ s.adapter = AdmittedAdapter(e, t)
    BY DEF AdmissionInv, TypeOK, CheckIn, Admitted
  <1>2. /\ disk' = Saved(s, known)
        /\ \/ hub' = s.hub /\ adapter' = s.adapter /\ accepted' = accepted \cup {e}
           \/ UNCHANGED <<hub, adapter, accepted>>
        /\ UNCHANGED <<now, shown, up, setbacks>>
        /\ Count(Failures(known))
    BY <1>1 DEF CheckIn, Admitted
  <1>3. s \in Snapshot /\ InOrder(s)
    BY <1>1, AdmittedIsInOrder
  <1>4. s.hub.admitted = hub.admitted \cup {e}
    BY <1>1, AdmittedHubFields, Zenon
  <1>5. events' \in 0..MaxEvents
    <2>1. Failures(known) \in Nat
      BY DEF Failures
    <2>2. QED
      BY <1>1, <1>2, <2>1, Counted
  <1>. HIDE DEF s
  <1>6. /\ accepted' \in SUBSET Envelopes
        /\ accepted' \subseteq hub'.admitted /\ accepted' \subseteq s.hub.admitted
    BY <1>1, <1>2, <1>4
  <1>7. QED
    BY <1>2, <1>3, <1>5, <1>6, SaveStep

\* A call that leaves the records, what was admitted and the counter alone.
LEMMA PersistedStep ==
    ASSUME AdmissionInv, NEW h \in Hub, NEW known \in BOOLEAN, Persisted(h, known),
           h.devices = hub.devices, h.result_revision = hub.result_revision,
           h.admitted = hub.admitted, \A d \in Devices : KioskReached(h, d),
           events' \in 0..MaxEvents
    PROVE  AdmissionInv'
  <1>. DEFINE s == [hub |-> h, adapter |-> adapter]
  <1>1. /\ TypeOK /\ InOrder(Present) /\ accepted \subseteq hub.admitted
        /\ s.hub = h /\ s.adapter = adapter
        /\ Present.hub = hub /\ Present.adapter = adapter
    BY DEF AdmissionInv, Present
  <1>2. /\ disk' = Saved(s, known)
        /\ hub' = h \/ hub' = hub
        /\ UNCHANGED <<now, shown, up, adapter, accepted, setbacks>>
    BY DEF Persisted
  <1>3. s \in Snapshot
    BY <1>1 DEF TypeOK, Snapshot
  <1>. HIDE DEF s
  <1>4. Sound(s)
    BY <1>1 DEF InOrder, Sound, RecordSound, DeviceIds
  <1>5. Agrees(s)
    BY <1>1 DEF InOrder, Agrees, DeviceIds
  <1>6. AdmittedIsPast(s.hub)
    BY <1>1 DEF InOrder, AdmittedIsPast, Past
  <1>7. /\ accepted' \in SUBSET Envelopes
        /\ accepted' \subseteq hub'.admitted /\ accepted' \subseteq s.hub.admitted
    BY <1>1, <1>2 DEF TypeOK
  <1>8. InOrder(s)
    BY <1>4, <1>5, <1>6 DEF InOrder
  <1>9. QED
    BY <1>1, <1>2, <1>3, <1>7, <1>8, SaveStep

\* A receipt of wireless ADB leaves records and counters alone.
LEMMA WifiReceiptStep ==
    ASSUME AdmissionInv, NEW o \in WifiOperations, NEW t \in shown, NEW known \in BOOLEAN,
           WifiReceipt(o, t, known)
    PROVE  AdmissionInv'
  <1>. DEFINE h == Settled(o, t)
  <1>1. /\ TypeOK /\ Sound(Present) /\ t \in Time /\ Present.hub = hub
        /\ Persisted(h, known) /\ Count(Failures(known)) /\ Failures(known) \in Nat
    BY DEF AdmissionInv, InOrder, TypeOK, WifiReceipt, Present, Failures
  <1>2. /\ h \in Hub /\ h.devices = hub.devices
        /\ h.result_revision = hub.result_revision
        /\ h.kiosk = hub.kiosk /\ h.admitted = hub.admitted
    BY <1>1, SettledFields
  <1>. HIDE DEF h
  <1>3. \A d \in Devices : KioskReached(h, d)
    BY <1>1, <1>2 DEF Sound, KioskReached
  <1>4. QED
    BY <1>1, <1>2, <1>3, Counted, PersistedStep

\* The ledger when the unsettled kiosk targets of one headset are others.
WithKiosk(d, held) == [hub EXCEPT !.kiosk[d] = held]

\* A call of a kiosk operation leaves everything else of the ledger alone.
LEMMA KioskFields ==
    ASSUME TypeOK, NEW d \in Devices, NEW held \in SUBSET (1..MaxIdentityRevision)
    PROVE  /\ WithKiosk(d, held) \in Hub
           /\ WithKiosk(d, held).devices = hub.devices
           /\ WithKiosk(d, held).result_revision = hub.result_revision
           /\ WithKiosk(d, held).receipts = hub.receipts
           /\ WithKiosk(d, held).log = hub.log
           /\ WithKiosk(d, held).admitted = hub.admitted
           /\ WithKiosk(d, held).kiosk[d] = held
           /\ \A x \in Devices \ {d} : WithKiosk(d, held).kiosk[x] = hub.kiosk[x]
  <1>1. hub \in Hub
    BY DEF TypeOK
  <1>2. QED
    BY <1>1 DEF Hub, WithKiosk

\* The preview of a kiosk operation: the identity is the one the headset has.
LEMMA KioskPreviewedStep ==
    ASSUME AdmissionInv, NEW d \in Devices, NEW known \in BOOLEAN, KioskPreviewed(d, known)
    PROVE  AdmissionInv'
  <1>. DEFINE i == hub.devices[d].observation.identity_revision
              h == WithKiosk(d, hub.kiosk[d] \cup {i})
  <1>1. /\ TypeOK /\ Sound(Present) /\ Present.hub = hub
        /\ hub.devices[d] # NoDevice
        /\ Persisted(h, known)
        /\ Count(Failures(known) + 1) /\ Failures(known) + 1 \in Nat
    BY DEF AdmissionInv, InOrder, KioskPreviewed, WithKiosk, Present, Failures, TypeOK, Hub
  <1>2. i \in 1..MaxIdentityRevision /\ i \in Nat
    <2>1. hub.devices[d] \in Ledger!DeviceRecord
      BY <1>1 DEF TypeOK, Hub
    <2>2. hub.devices[d].observation \in Ledger!Observation
      BY <2>1 DEF Ledger!DeviceRecord
    <2>3. QED
      BY <2>2, LedgerAssumption DEF Ledger!Observation, Ledger!BoundAssumption
  <1>3. hub.kiosk[d] \cup {i} \in SUBSET (1..MaxIdentityRevision)
    BY <1>1, <1>2 DEF TypeOK, Hub
  <1>4. /\ h \in Hub /\ h.devices = hub.devices
        /\ h.result_revision = hub.result_revision /\ h.admitted = hub.admitted
        /\ h.kiosk[d] = hub.kiosk[d] \cup {i}
        /\ \A x \in Devices \ {d} : h.kiosk[x] = hub.kiosk[x]
    BY <1>1, <1>3, KioskFields
  <1>. HIDE DEF h
  <1>5. \A x \in Devices : KioskReached(h, x)
    <2>. SUFFICES ASSUME NEW x \in Devices, NEW j \in h.kiosk[x]
                  PROVE  /\ h.devices[x] # NoDevice
                         /\ j <= h.devices[x].observation.identity_revision
      BY DEF KioskReached
    <2>1. CASE j \in hub.kiosk[x]
      BY <1>1, <1>4, <2>1 DEF Sound, KioskReached
    <2>2. CASE j \notin hub.kiosk[x]
      <3>1. x = d /\ j = i
        BY <1>4, <2>2
      <3>2. QED
        BY <1>1, <1>2, <1>4, <3>1
    <2>3. QED
      BY <2>1, <2>2
  <1>6. QED
    BY <1>1, <1>4, <1>5, Counted, PersistedStep

\* A kiosk target becomes terminal.
LEMMA KioskSettledStep ==
    ASSUME AdmissionInv, NEW d \in Devices, NEW known \in BOOLEAN, KioskSettled(d, known)
    PROVE  AdmissionInv'
  <1>0. PICK i \in hub.kiosk[d] : Persisted([hub EXCEPT !.kiosk[d] = @ \ {i}], known)
    BY DEF KioskSettled
  <1>. DEFINE h == WithKiosk(d, hub.kiosk[d] \ {i})
  <1>1. /\ TypeOK /\ Sound(Present) /\ Present.hub = hub
        /\ Persisted(h, known)
        /\ Count(Failures(known)) /\ Failures(known) \in Nat
    BY <1>0 DEF AdmissionInv, InOrder, KioskSettled, WithKiosk, Present, Failures, TypeOK, Hub
  <1>2. hub.kiosk[d] \ {i} \in SUBSET (1..MaxIdentityRevision)
    BY <1>1 DEF TypeOK, Hub
  <1>3. /\ h \in Hub /\ h.devices = hub.devices
        /\ h.result_revision = hub.result_revision /\ h.admitted = hub.admitted
        /\ h.kiosk[d] = hub.kiosk[d] \ {i}
        /\ \A x \in Devices \ {d} : h.kiosk[x] = hub.kiosk[x]
    BY <1>1, <1>2, KioskFields
  <1>. HIDE DEF h
  <1>4. \A x \in Devices : KioskReached(h, x)
    BY <1>1, <1>3 DEF Sound, KioskReached
  <1>5. QED
    BY <1>1, <1>3, <1>4, Counted, PersistedStep

\* A start takes either slot, and forgets what has expired.  What it loses of the
\* newest, it no longer answers for.
LEMMA RestartStep ==
    ASSUME AdmissionInv, Restart
    PROVE  AdmissionInv'
  <1>1. PICK s \in RestoredFrom :
           /\ hub' = s.hub
           /\ adapter' = [s.adapter EXCEPT !.seen = Unexpired(@, now), !.proofs = Fresh(@, now)]
           /\ disk' = [disk EXCEPT !.ahead = s # disk.newest]
           /\ accepted' = IF Restorable(disk.newest) THEN accepted
                          ELSE accepted \cap s.hub.admitted
    BY DEF Restart
  <1>2. /\ up' = TRUE /\ shown' = {now} /\ UNCHANGED <<now, setbacks, events>>
        /\ TypeOK /\ InOrder(disk.newest) /\ InOrder(disk.previous)
        /\ accepted \subseteq disk.newest.hub.admitted
        /\ SeenLimit \in Nat
    BY LedgerAssumption DEF AdmissionInv, Restart
  <1>3. /\ s \in {disk.newest, disk.previous}
        /\ Restorable(disk.newest) => s = disk.newest
    BY DEF RestoredFrom
  <1>4. /\ InOrder(s) /\ s.hub \in Hub /\ s.adapter \in Adapter
        /\ IsFiniteSet(s.adapter.seen) /\ Cardinality(s.adapter.seen) <= SeenLimit
    BY <1>2, <1>3 DEF TypeOK, Snapshot, InOrder, Sound
  <1>5. /\ Unexpired(s.adapter.seen, now) \subseteq s.adapter.seen
        /\ IsFiniteSet(Unexpired(s.adapter.seen, now))
        /\ Cardinality(Unexpired(s.adapter.seen, now)) <= SeenLimit
        /\ Fresh(s.adapter.proofs, now) \in [Devices -> Proof \cup {NoProof}]
    BY <1>2, <1>4, ForgettingType
  <1>6. /\ adapter'.peers = s.adapter.peers
        /\ adapter'.authority_revision = s.adapter.authority_revision
        /\ adapter'.seen = Unexpired(s.adapter.seen, now)
        /\ adapter' \in Adapter
    BY <1>1, <1>4, <1>5 DEF Adapter
  <1>7. /\ disk'.newest = disk.newest /\ disk'.previous = disk.previous
        /\ disk' \in [newest : Snapshot, previous : Snapshot, ahead : BOOLEAN]
    BY <1>1, <1>2 DEF TypeOK
  <1>8. Present'.hub = s.hub /\ Present'.adapter = adapter'
    BY <1>1 DEF Present
  <1>9. Sound(Present')
    BY <1>4, <1>5, <1>6, <1>8 DEF InOrder, Sound, PeerIds
  <1>10. Agrees(Present')
    BY <1>4, <1>6, <1>8 DEF InOrder, Agrees, PeerIds
  <1>11. InOrder(Present')
    BY <1>4, <1>8, <1>9, <1>10 DEF InOrder
  <1>12. /\ accepted' \in SUBSET Envelopes
         /\ accepted' \subseteq hub'.admitted /\ accepted' \subseteq disk'.newest.hub.admitted
    BY <1>1, <1>2, <1>3, <1>7 DEF TypeOK
  <1>13. TypeOK'
    <2>1. Cardinality(adapter'.seen) <= SeenLimit
      BY <1>5, <1>6
    <2>2. shown' \in SUBSET Time
      BY <1>2 DEF TypeOK
    <2>3. QED
      BY <1>1, <1>2, <1>4, <1>6, <1>7, <1>12, <2>1, <2>2 DEF TypeOK
  <1>14. QED
    BY <1>2, <1>7, <1>11, <1>12, <1>13 DEF AdmissionInv

\* The inductive step: only the calls that save and a start touch the ledger.
LEMMA AdmissionStep ==
    ASSUME AdmissionInv, [Next]_vars
    PROVE  AdmissionInv'
  <1>1. ASSUME UNCHANGED <<hub, adapter, disk, accepted>>,
               now' \in Time, shown' \in SUBSET Time, up' \in BOOLEAN,
               setbacks' \in Nat, events' \in 0..MaxEvents
        PROVE  AdmissionInv'
    <2>1. TypeOK'
      BY <1>1 DEF AdmissionInv, TypeOK
    <2>2. Present' = Present
      BY <1>1 DEF Present
    <2>3. InOrder(Present)' /\ InOrder(disk.newest)' /\ InOrder(disk.previous)'
      BY <1>1, <2>2 DEF AdmissionInv
    <2>4. QED
      BY <1>1, <2>1, <2>3 DEF AdmissionInv
  <1>2. /\ TypeOK
        /\ now \in 0..MaxTime /\ shown \in SUBSET (0..MaxTime) /\ up \in BOOLEAN
        /\ MaxTime \in Nat /\ setbacks \in Nat /\ events \in 0..MaxEvents
    BY LedgerAssumption DEF AdmissionInv, TypeOK, Time, Ledger!BoundAssumption
  <1>3. CASE Tick
    BY <1>1, <1>2, <1>3 DEF Tick, Time
  <1>4. ASSUME NEW t \in Time, SetClockBack(t) PROVE AdmissionInv'
    <2>1. events' \in 0..MaxEvents
      BY <1>2, <1>4, Counted DEF SetClockBack
    <2>2. QED
      BY <1>1, <1>2, <1>4, <2>1 DEF SetClockBack, Time
  <1>5. CASE Crash
    <2>1. events' \in 0..MaxEvents
      BY <1>2, <1>5, Counted DEF Crash
    <2>2. QED
      BY <1>1, <1>2, <1>5, <2>1 DEF Crash, Time
  <1>6. CASE UNCHANGED vars
    BY <1>1, <1>2, <1>6 DEF vars, Time
  <1>7. QED
    BY <1>3, <1>4, <1>5, <1>6, CheckInStep, WifiReceiptStep, KioskPreviewedStep,
       KioskSettledStep, RestartStep
       DEF Next

\* The initial state is in order.
LEMMA AdmissionStarts ==
    ASSUME Init
    PROVE  AdmissionInv
  <1>1. /\ MaxTime \in Nat /\ MaxEvents \in Nat /\ SeenLimit \in Nat
    BY LedgerAssumption DEF Ledger!BoundAssumption
  <1>2. IsFiniteSet({}) /\ Cardinality({}) = 0
    BY FS_EmptySet
  <1>3. /\ hub \in Hub /\ adapter \in Adapter
        /\ hub.result_revision = 1 /\ adapter.authority_revision = 1
        /\ adapter.seen = {} /\ hub.admitted = {} /\ \A d \in Devices : hub.kiosk[d] = {}
        /\ DeviceIds(hub) = {} /\ PeerIds(adapter) = {}
    BY DEF Init, Hub, Adapter, DeviceIds,
           PeerIds, Seen
  <1>4. /\ disk = [newest |-> Present, previous |-> Present, ahead |-> FALSE]
        /\ Present \in Snapshot
        /\ Present.hub = hub /\ Present.adapter = adapter
    BY <1>3 DEF Init, Present, Snapshot
  <1>5. TypeOK
    <2>1. now \in 0..MaxTime /\ shown \in SUBSET (0..MaxTime) /\ up \in BOOLEAN
      BY <1>1 DEF Init
    <2>2. setbacks \in Nat /\ events \in 0..MaxEvents
      BY <1>1 DEF Init
    <2>3. accepted \in SUBSET Envelopes
      BY DEF Init
    <2>4. disk \in [newest : Snapshot, previous : Snapshot,
                    ahead : BOOLEAN]
      BY <1>4
    <2>5. Cardinality(adapter.seen) <= SeenLimit
      BY <1>1, <1>2, <1>3
    <2>6. QED
      BY <1>3, <2>1, <2>2, <2>3, <2>4, <2>5 DEF TypeOK, Time
  <1>6. InOrder(Present)
    BY <1>1, <1>2, <1>3, <1>4 DEF InOrder, Sound, Agrees, KioskReached, AdmittedIsPast
  <1>7. accepted = {}
    BY DEF Init
  <1>8. QED
    BY <1>4, <1>5, <1>6, <1>7 DEF AdmissionInv

\* Memory and both slots are in order, and what was answered as accepted is in
\* memory and in the newest slot.
THEOREM AdmissionInvariance ==
    Spec => []AdmissionInv
  <1>1. Init => AdmissionInv
    BY AdmissionStarts
  <1>2. AdmissionInv /\ [Next]_vars => AdmissionInv'
    BY AdmissionStep
  <1>3. QED
    BY <1>1, <1>2, PTL DEF Spec

\* For every value of the constants, the variables keep their types.
THEOREM AdmissionTypes == Spec => []TypeOK
  <1>1. AdmissionInv => TypeOK
    BY DEF AdmissionInv
  <1>2. QED
    BY <1>1, AdmissionInvariance, PTL

\* An accepted check-in that no start has lost is never admitted again, however
\* often it is repeated, and wherever the clock is set.
THEOREM AcceptedOnce ==
    Spec => []NeverAdmissibleAgain
  <1>1. ASSUME AdmissionInv
        PROVE  NeverAdmissibleAgain
    <2>. SUFFICES ASSUME NEW e \in accepted, NEW t \in shown
                  PROVE  ~MayAdmit(e, t)
      BY DEF NeverAdmissibleAgain
    <2>1. TypeOK /\ e \in Envelopes /\ t \in Time
      BY <1>1 DEF AdmissionInv, TypeOK
    <2>2. Past(hub, e)
      BY <1>1 DEF AdmissionInv, InOrder, AdmittedIsPast, Present
    <2>3. QED
      BY <2>1, <2>2, PastIsRefused
  <1>2. QED
    BY <1>1, AdmissionInvariance, PTL

\* The ledger and the Manifold authority agree in memory and in both slots.
THEOREM AuthoritiesStayTogether ==
    Spec => []AuthoritiesAgree
  <1>1. AdmissionInv => AuthoritiesAgree
    BY DEF AdmissionInv, InOrder, Agrees, Present, AuthoritiesAgree
  <1>2. QED
    BY <1>1, AdmissionInvariance, PTL

\* A start refuses neither slot but for a kiosk target that a check-in has left
\* behind.
THEOREM SlotsRestoreUnlessOutdated ==
    Spec => []SlotsRestore
  <1>1. ASSUME AdmissionInv
        PROVE  SlotsRestore
    <2>1. disk.newest \in Snapshot /\ disk.previous \in Snapshot
      BY <1>1 DEF AdmissionInv, TypeOK
    <2>2. /\ Sound(disk.newest) /\ Agrees(disk.newest)
          /\ Sound(disk.previous) /\ Agrees(disk.previous)
      BY <1>1 DEF AdmissionInv, InOrder
    <2>3. QED
      BY <2>1, <2>2, SoundRestores DEF SlotsRestore
  <1>2. QED
    BY <1>1, AdmissionInvariance, PTL

-----------------------------------------------------------------------------
(* A usable proof.  While the clock is not set back, no handler has read a    *)
(* time to come; the log of each headset says in which order receipts and     *)
(* proofs were committed, whatever times their handlers had read.             *)

\* The log of a headset holds its own receipts, read no later than committed.
EntriesKnown(h, d) ==
    LET log == h.log[d] IN
    \A k \in 1..Len(log) : \A q \in log[k].of :
        /\ log[k].kind = "receipt"
        /\ q \in WifiOperations /\ Wifi[q].device_id = d
        /\ h.receipts[q] # NoReceipt /\ h.receipts[q] <= log[k].at

\* Every receipt is in the log of its headset.
ReceiptsLogged(h) ==
    \A o \in WifiOperations : h.receipts[o] # NoReceipt =>
        \E i \in 1..Len(h.log[Wifi[o].device_id]) : h.log[Wifi[o].device_id][i].of = {o}

\* Entry j of the log admitted the proof b, bound to the request answered in entry
\* i: since then there were receipts only, and before it, what disables the route
\* was read before the request was.
Standing(h, b, d, i, j) ==
    LET log == h.log[d] IN
    /\ i < j /\ log[i].of = {b.operation} /\ log[j].kind = "proof"
    /\ b.accepted_at <= log[j].at
    /\ \A k \in 1..Len(log) : k > j => log[k].kind = "receipt"
    /\ \A k \in 1..Len(log) : k < j =>
          \A q \in log[k].of :
             /\ Wifi[q].action = "disable" /\ Wifi[q].route = "modern"
             /\ Wifi[q].identity_revision = b.identity_revision
             => h.receipts[q] < b.bound_at

ProofStands(h, b, d) ==
    /\ Wifi[b.operation].identity_revision = b.identity_revision
    /\ \E i, j \in 1..Len(h.log[d]) : Standing(h, b, d, i, j)

LogSound(s) ==
    /\ \A d \in Devices : EntriesKnown(s.hub, d)
    /\ ReceiptsLogged(s.hub)
    /\ \A d \in Devices : s.adapter.proofs[d] # NoProof =>
          ProofStands(s.hub, s.adapter.proofs[d], d)

UsableInv ==
    /\ AdmissionInv
    /\ setbacks = 0 =>
          /\ \A t \in shown : t <= now
          /\ LogSound(Present) /\ LogSound(disk.newest) /\ LogSound(disk.previous)

\* A log that is one entry longer.
LEMMA LongerLog ==
    ASSUME NEW S, NEW log \in Seq(S), NEW x \in S
    PROVE  /\ Len(log) \in Nat
           /\ Len(Append(log, x)) = Len(log) + 1
           /\ \A k \in 1..Len(log) : Append(log, x)[k] = log[k]
           /\ Append(log, x)[Len(log) + 1] = x
  OBVIOUS

\* The ledger g is h with one entry more in the log of d, and with the receipt that
\* the entry is of, if any.
Extends(g, h, d, entry) ==
    /\ g.log[d] = Append(h.log[d], entry)
    /\ \A x \in Devices \ {d} : g.log[x] = h.log[x]
    /\ \A q \in WifiOperations :
          IF h.receipts[q] # NoReceipt THEN g.receipts[q] = h.receipts[q]
          ELSE g.receipts[q] # NoReceipt => Wifi[q].device_id = d /\ entry.of = {q}
    /\ \A q \in entry.of :
          /\ entry.kind = "receipt"
          /\ q \in WifiOperations /\ Wifi[q].device_id = d
          /\ g.receipts[q] # NoReceipt /\ g.receipts[q] <= entry.at

\* The entries of the longer log.
LEMMA ExtendedLog ==
    ASSUME NEW h \in Hub, NEW g, NEW d \in Devices, NEW entry \in Logged,
           Extends(g, h, d, entry)
    PROVE  /\ Len(h.log[d]) \in Nat
           /\ Len(g.log[d]) = Len(h.log[d]) + 1
           /\ \A k \in 1..Len(h.log[d]) : k \in 1..Len(g.log[d]) /\ g.log[d][k] = h.log[d][k]
           /\ g.log[d][Len(h.log[d]) + 1] = entry
           /\ \A k \in 1..Len(g.log[d]) :
                 k \in 1..Len(h.log[d]) \/ k = Len(h.log[d]) + 1
  <1>1. h.log[d] \in Seq(Logged)
    BY DEF Hub
  <1>2. g.log[d] = Append(h.log[d], entry)
    BY DEF Extends
  <1>3. /\ Len(h.log[d]) \in Nat
        /\ Len(g.log[d]) = Len(h.log[d]) + 1
        /\ \A k \in 1..Len(h.log[d]) : g.log[d][k] = h.log[d][k]
        /\ g.log[d][Len(h.log[d]) + 1] = entry
    BY <1>1, <1>2, LongerLog
  <1>4. QED
    BY <1>3

\* Entries and receipts stay known when the log grows.
LEMMA ExtendedIsKnown ==
    ASSUME NEW h \in Hub, NEW g, NEW d \in Devices, NEW entry \in Logged,
           Extends(g, h, d, entry),
           \A x \in Devices : EntriesKnown(h, x), ReceiptsLogged(h)
    PROVE  (\A x \in Devices : EntriesKnown(g, x)) /\ ReceiptsLogged(g)
  <1>1. ASSUME NEW x \in Devices, NEW k \in 1..Len(h.log[x]), NEW q \in h.log[x][k].of
        PROVE  /\ h.log[x][k].kind = "receipt"
               /\ q \in WifiOperations /\ Wifi[q].device_id = x
               /\ g.receipts[q] # NoReceipt /\ g.receipts[q] <= h.log[x][k].at
    <2>1. /\ h.log[x][k].kind = "receipt"
          /\ q \in WifiOperations /\ Wifi[q].device_id = x
          /\ h.receipts[q] # NoReceipt /\ h.receipts[q] <= h.log[x][k].at
      BY DEF EntriesKnown
    <2>2. g.receipts[q] = h.receipts[q]
      BY <2>1 DEF Extends
    <2>3. QED
      BY <2>1, <2>2
  <1>2. ASSUME NEW x \in Devices PROVE EntriesKnown(g, x)
    <2>1. CASE x # d
      <3>1. g.log[x] = h.log[x]
        BY <2>1 DEF Extends
      <3>2. QED
        BY <1>1, <3>1 DEF EntriesKnown
    <2>2. CASE x = d
      <3>. SUFFICES ASSUME NEW k \in 1..Len(g.log[d]), NEW q \in g.log[d][k].of
                    PROVE  /\ g.log[d][k].kind = "receipt"
                           /\ q \in WifiOperations /\ Wifi[q].device_id = d
                           /\ g.receipts[q] # NoReceipt /\ g.receipts[q] <= g.log[d][k].at
        BY <2>2 DEF EntriesKnown
      <3>1. CASE k \in 1..Len(h.log[d])
        <4>1. g.log[d][k] = h.log[d][k]
          BY <3>1, ExtendedLog
        <4>2. q \in h.log[d][k].of
          BY <4>1
        <4>3. QED
          BY <1>1, <3>1, <4>1, <4>2
      <3>2. CASE k = Len(h.log[d]) + 1
        <4>1. g.log[d][k] = entry
          BY <3>2, ExtendedLog
        <4>2. QED
          BY <4>1 DEF Extends
      <3>3. QED
        BY <3>1, <3>2, ExtendedLog
    <2>3. QED
      BY <2>1, <2>2
  <1>3. ASSUME NEW o \in WifiOperations, g.receipts[o] # NoReceipt
        PROVE  \E i \in 1..Len(g.log[Wifi[o].device_id]) : g.log[Wifi[o].device_id][i].of = {o}
    <2>. DEFINE x == Wifi[o].device_id
    <2>1. x \in Devices
      BY OperationsAssumption DEF WifiOperation
    <2>2. CASE h.receipts[o] # NoReceipt
      <3>1. PICK i \in 1..Len(h.log[x]) : h.log[x][i].of = {o}
        BY <2>2 DEF ReceiptsLogged
      <3>2. CASE x # d
        <4>1. g.log[x] = h.log[x]
          BY <2>1, <3>2 DEF Extends
        <4>2. QED
          BY <3>1, <4>1
      <3>3. CASE x = d
        <4>. HIDE DEF x
        <4>1. i \in 1..Len(g.log[x]) /\ g.log[x][i] = h.log[x][i]
          BY <3>1, <3>3, ExtendedLog
        <4>2. QED
          BY <3>1, <4>1 DEF x
      <3>4. QED
        BY <3>2, <3>3
    <2>3. CASE h.receipts[o] = NoReceipt
      <3>1. x = d /\ entry.of = {o}
        BY <1>3, <2>3 DEF Extends
      <3>. HIDE DEF x
      <3>2. /\ Len(h.log[d]) + 1 \in 1..Len(g.log[d])
            /\ g.log[d][Len(h.log[d]) + 1] = entry
        BY ExtendedLog
      <3>3. QED
        BY <3>1, <3>2 DEF x
    <2>4. QED
      BY <2>2, <2>3
  <1>4. QED
    BY <1>2, <1>3 DEF ReceiptsLogged

\* A proof stands on when the log grows by a receipt, or at another headset.
LEMMA ExtendedStands ==
    ASSUME NEW h \in Hub, NEW g, NEW d \in Devices, NEW entry \in Logged,
           Extends(g, h, d, entry), NEW x \in Devices, x # d \/ entry.kind = "receipt",
           EntriesKnown(h, x), NEW b, ProofStands(h, b, x)
    PROVE  ProofStands(g, b, x)
  <1>1. PICK i, j \in 1..Len(h.log[x]) : Standing(h, b, x, i, j)
    BY DEF ProofStands
  <1>2. \A k \in 1..Len(h.log[x]) : \A q \in h.log[x][k].of : g.receipts[q] = h.receipts[q]
    BY DEF EntriesKnown, Extends
  <1>3. CASE x # d
    <2>1. g.log[x] = h.log[x]
      BY <1>3 DEF Extends
    <2>2. Standing(g, b, x, i, j)
      BY <1>1, <1>2, <2>1 DEF Standing
    <2>3. QED
      BY <2>1, <2>2 DEF ProofStands
  <1>4. CASE x = d
    <2>1. /\ \A k \in 1..Len(h.log[x]) : k \in 1..Len(g.log[x]) /\ g.log[x][k] = h.log[x][k]
          /\ g.log[x][Len(h.log[x]) + 1] = entry
          /\ \A k \in 1..Len(g.log[x]) : k \in 1..Len(h.log[x]) \/ k = Len(h.log[x]) + 1
          /\ Len(h.log[x]) \in Nat
      BY <1>4, ExtendedLog
    <2>2. /\ i < j /\ g.log[x][i].of = {b.operation} /\ g.log[x][j].kind = "proof"
          /\ b.accepted_at <= g.log[x][j].at
      BY <1>1, <2>1 DEF Standing
    <2>3. ASSUME NEW k \in 1..Len(g.log[x]), k > j PROVE g.log[x][k].kind = "receipt"
      <3>1. CASE k \in 1..Len(h.log[x])
        BY <1>1, <2>1, <2>3, <3>1 DEF Standing
      <3>2. CASE k = Len(h.log[x]) + 1
        BY <1>4, <2>1, <3>2
      <3>3. QED
        BY <2>1, <3>1, <3>2
    <2>4. ASSUME NEW k \in 1..Len(g.log[x]), k < j, NEW q \in g.log[x][k].of,
                 Wifi[q].action = "disable", Wifi[q].route = "modern",
                 Wifi[q].identity_revision = b.identity_revision
          PROVE  g.receipts[q] < b.bound_at
      <3>1. k \in 1..Len(h.log[x])
        BY <2>1, <2>4
      <3>2. q \in h.log[x][k].of
        BY <2>1, <2>4, <3>1
      <3>3. h.receipts[q] < b.bound_at
        BY <1>1, <2>4, <3>1, <3>2 DEF Standing
      <3>4. QED
        BY <1>2, <3>1, <3>2, <3>3
    <2>5. Standing(g, b, x, i, j)
      BY <2>2, <2>3, <2>4 DEF Standing
    <2>6. i \in 1..Len(g.log[x]) /\ j \in 1..Len(g.log[x])
      BY <2>1
    <2>7. QED
      BY <2>5, <2>6 DEF ProofStands
  <1>5. QED
    BY <1>3, <1>4

\* The parts of LogSound, for a state given by its hub and its proofs.
LEMMA LogSoundIntro ==
    ASSUME NEW s, NEW h, NEW proofs, s.hub = h, s.adapter.proofs = proofs,
           \A d \in Devices : EntriesKnown(h, d), ReceiptsLogged(h),
           \A d \in Devices : proofs[d] # NoProof => ProofStands(h, proofs[d], d)
    PROVE  LogSound(s)
  <1>1. \A d \in Devices : EntriesKnown(s.hub, d)
    OBVIOUS
  <1>2. ReceiptsLogged(s.hub)
    OBVIOUS
  <1>3. \A d \in Devices : s.adapter.proofs[d] # NoProof =>
            ProofStands(s.hub, s.adapter.proofs[d], d)
    OBVIOUS
  <1>4. QED
    BY <1>1, <1>2, <1>3, Zenon DEF LogSound

\* The log after an admission: a check-in without the proof ends it, one with
\* the proof is the newest entry, and its request is newer than what disabled
\* the route.
LEMMA AdmittedLogSound ==
    ASSUME TypeOK, LogSound(Present), NEW e \in Envelopes, NEW t \in Time, t <= now,
           MayAdmit(e, t)
    PROVE  LogSound(Admitted(e, t))
  <1>. DEFINE s == Admitted(e, t)
              h == AdmittedHub(e, t)
              d == e.device_id
              entry == Entry(IF Carries(e) THEN "proof" ELSE "check-in", {})
              proofs == AdmittedProofs(e, t)
              o == CHOOSE o \in Binding(e, t) : TRUE
              new == [identity_revision |-> e.identity_revision,
                      source_epoch |-> e.source_epoch,
                      source_revision |-> e.source_revision,
                      checkin_expires_at |-> e.expires_at,
                      fresh_until |-> e.fresh_until, accepted_at |-> t,
                      operation |-> o, bound_at |-> hub.receipts[o]]
  <1>1. /\ d \in Devices /\ now \in Time
        /\ hub \in Hub /\ adapter \in Adapter
        /\ s.hub = h /\ s.adapter.proofs = proofs
        /\ Present.hub = hub /\ Present.adapter = adapter
    BY ObservationType DEF Present, Admitted, Envelope, TypeOK, AdmittedAdapter
  <1>2. /\ \A x \in Devices : EntriesKnown(hub, x)
        /\ ReceiptsLogged(hub)
        /\ \A x \in Devices : adapter.proofs[x] # NoProof =>
              ProofStands(hub, adapter.proofs[x], x)
    BY <1>1 DEF LogSound
  <1>3. /\ h.receipts = hub.receipts
        /\ h.log = [hub.log EXCEPT ![d] = Append(hub.log[d], entry)]
    BY AdmittedHubFields, Zenon
  <1>4. /\ hub.log \in [Devices -> Seq(Logged)]
        /\ entry \in Logged /\ entry.of = {} /\ entry.at = now
        /\ Carries(e) => entry.kind = "proof"
    BY <1>1 DEF Hub, Entry, Logged
  <1>5. /\ \A x \in Devices \ {d} : proofs[x] \in {adapter.proofs[x], NoProof}
        /\ ~Carries(e) => proofs[d] = NoProof
        /\ Carries(e) => proofs[d] = new
    BY <1>1 DEF AdmittedProofs, Fresh
  <1>. HIDE DEF h, entry, proofs, s, o, new
  <1>6. Extends(h, hub, d, entry)
    BY <1>1, <1>3, <1>4 DEF Extends
  <1>7. (\A x \in Devices : EntriesKnown(h, x)) /\ ReceiptsLogged(h)
    BY <1>1, <1>2, <1>4, <1>6, ExtendedIsKnown
  <1>8. ASSUME NEW x \in Devices, proofs[x] # NoProof
        PROVE  ProofStands(h, proofs[x], x)
    <2>1. CASE x # d
      <3>1. proofs[x] = adapter.proofs[x]
        BY <1>5, <1>8, <2>1
      <3>2. ProofStands(hub, proofs[x], x) /\ EntriesKnown(hub, x)
        BY <1>2, <1>8, <3>1
      <3>3. QED
        BY <1>1, <1>4, <1>6, <2>1, <3>2, ExtendedStands
    <2>2. CASE x = d
      <3>. DEFINE j == Len(hub.log[d]) + 1
      <3>1. Carries(e) /\ proofs[d] = new
        BY <1>5, <1>8, <2>2
      <3>2. o \in Binding(e, t)
        <4>1. Binding(e, t) # {}
          BY <3>1 DEF MayAdmit, ProofAdmissible
        <4>2. QED
          BY <4>1 DEF o
      <3>3. /\ o \in WifiOperations /\ hub.receipts[o] # NoReceipt
            /\ Wifi[o].device_id = d /\ Wifi[o].identity_revision = e.identity_revision
            /\ \A q \in WifiOperations :
                  /\ Wifi[q].action = "disable" /\ Wifi[q].device_id = d
                  /\ Wifi[q].identity_revision = e.identity_revision
                  /\ hub.receipts[q] # NoReceipt /\ Wifi[q].route = "modern"
                  => hub.receipts[q] < hub.receipts[o]
        BY <3>2 DEF Binding, Received
      <3>4. /\ new.accepted_at = t /\ new.operation = o
            /\ new.identity_revision = e.identity_revision
            /\ new.bound_at = hub.receipts[o]
        BY DEF new
      <3>5. PICK i \in 1..Len(hub.log[d]) : hub.log[d][i].of = {o}
        BY <1>2, <3>3 DEF ReceiptsLogged
      <3>6. /\ i \in 1..Len(h.log[d]) /\ h.log[d][i] = hub.log[d][i]
            /\ j \in 1..Len(h.log[d]) /\ h.log[d][j] = entry
            /\ i < j /\ \A k \in 1..Len(h.log[d]) : ~(k > j)
        <4>1. /\ Len(hub.log[d]) \in Nat /\ Len(h.log[d]) = Len(hub.log[d]) + 1
              /\ \A k \in 1..Len(hub.log[d]) :
                    k \in 1..Len(h.log[d]) /\ h.log[d][k] = hub.log[d][k]
              /\ h.log[d][Len(hub.log[d]) + 1] = entry
          BY <1>1, <1>4, <1>6, ExtendedLog
        <4>. HIDE DEF d
        <4>2. i \in 1..Len(h.log[d]) /\ h.log[d][i] = hub.log[d][i]
          BY <4>1
        <4>3. QED
          BY <4>1, <4>2
      <3>. HIDE DEF j
      <3>7. ASSUME NEW k \in 1..Len(h.log[d]), k < j, NEW q \in h.log[d][k].of,
                   Wifi[q].action = "disable", Wifi[q].route = "modern",
                   Wifi[q].identity_revision = new.identity_revision
            PROVE  h.receipts[q] < new.bound_at
        <4>1. /\ q \in WifiOperations /\ Wifi[q].device_id = d
              /\ h.receipts[q] # NoReceipt
          <5>1. EntriesKnown(h, d)
            BY <1>1, <1>7
          <5>2. QED
            BY <3>7, <5>1 DEF EntriesKnown
        <4>2. hub.receipts[q] < hub.receipts[o]
          BY <1>3, <3>3, <3>4, <3>7, <4>1
        <4>3. QED
          BY <1>3, <3>4, <4>2
      <3>8. /\ h.log[d][i].of = {new.operation} /\ h.log[d][j].kind = "proof"
            /\ new.accepted_at <= h.log[d][j].at
        BY <1>4, <3>1, <3>4, <3>5, <3>6
      <3>9. Standing(h, new, d, i, j)
        BY <3>6, <3>7, <3>8 DEF Standing
      <3>10. ProofStands(h, new, d)
        BY <3>3, <3>4, <3>6, <3>9 DEF ProofStands
      <3>11. QED
        BY <2>2, <3>1, <3>10
    <2>3. QED
      BY <2>1, <2>2
  <1>9. QED
    <2>1. LogSound(s)
      BY <1>1, <1>7, <1>8, LogSoundIntro
    <2>2. QED
      BY <2>1 DEF s

\* The log after a receipt: it is the newest of its headset.
LEMMA SettledLogSound ==
    ASSUME TypeOK, LogSound(Present), NEW o \in WifiOperations, NEW t \in Time, t <= now,
           hub.receipts[o] = NoReceipt
    PROVE  LogSound([hub |-> Settled(o, t), adapter |-> adapter])
  <1>. DEFINE s == [hub |-> Settled(o, t), adapter |-> adapter]
              h == Settled(o, t)
              d == Wifi[o].device_id
              entry == Entry("receipt", {o})
  <1>1. /\ d \in Devices /\ now \in Time /\ t # NoReceipt
        /\ hub \in Hub /\ adapter \in Adapter
        /\ s.hub = h /\ s.adapter = adapter
        /\ Present.hub = hub /\ Present.adapter = adapter
    BY OperationsAssumption DEF Present, TypeOK, WifiOperation
  <1>2. /\ \A x \in Devices : EntriesKnown(hub, x)
        /\ ReceiptsLogged(hub)
        /\ \A x \in Devices : adapter.proofs[x] # NoProof =>
              ProofStands(hub, adapter.proofs[x], x)
    BY <1>1 DEF LogSound
  <1>3. /\ h.receipts = [hub.receipts EXCEPT ![o] = t]
        /\ h.log = [hub.log EXCEPT ![d] = Append(hub.log[d], entry)]
    BY SettledFields, Zenon
  <1>4. /\ hub.log \in [Devices -> Seq(Logged)]
        /\ hub.receipts \in [WifiOperations -> Time \cup {NoReceipt}]
        /\ entry \in Logged
        /\ entry.of = {o} /\ entry.kind = "receipt" /\ entry.at = now
    BY <1>1 DEF Hub, Entry, Logged
  <1>. HIDE DEF h, entry, s
  <1>5. Extends(h, hub, d, entry)
    <2>1. /\ h.log[d] = Append(hub.log[d], entry)
          /\ \A x \in Devices \ {d} : h.log[x] = hub.log[x]
      BY <1>1, <1>3, <1>4
    <2>2. /\ h.receipts[o] = t
          /\ \A q \in WifiOperations \ {o} : h.receipts[q] = hub.receipts[q]
      BY <1>3, <1>4
    <2>3. QED
      BY <1>1, <1>4, <2>1, <2>2 DEF Extends
  <1>6. (\A x \in Devices : EntriesKnown(h, x)) /\ ReceiptsLogged(h)
    BY <1>1, <1>2, <1>4, <1>5, ExtendedIsKnown
  <1>7. ASSUME NEW x \in Devices, adapter.proofs[x] # NoProof
        PROVE  ProofStands(h, adapter.proofs[x], x)
    <2>1. ProofStands(hub, adapter.proofs[x], x) /\ EntriesKnown(hub, x)
      BY <1>2, <1>7
    <2>2. QED
      BY <1>1, <1>4, <1>5, <2>1, ExtendedStands
  <1>8. QED
    <2>1. LogSound(s)
      BY <1>1, <1>6, <1>7, LogSoundIntro
    <2>2. QED
      BY <2>1 DEF s, h

\* A state with the same log and receipts, and no proof that is new.
LEMMA LogStaysSound ==
    ASSUME NEW s, NEW u, LogSound(s),
           u.hub.log = s.hub.log, u.hub.receipts = s.hub.receipts,
           \A d \in Devices : u.adapter.proofs[d] \in {s.adapter.proofs[d], NoProof}
    PROVE  LogSound(u)
  <1>1. (\A d \in Devices : EntriesKnown(u.hub, d)) /\ ReceiptsLogged(u.hub)
    <2>1. /\ \A d \in Devices : EntriesKnown(s.hub, d)
          /\ ReceiptsLogged(s.hub)
      BY DEF LogSound
    <2>2. ASSUME NEW d \in Devices PROVE EntriesKnown(u.hub, d)
      BY <2>1 DEF EntriesKnown
    <2>3. ReceiptsLogged(u.hub)
      BY <2>1 DEF ReceiptsLogged
    <2>4. QED
      BY <2>2, <2>3
  <1>2. ASSUME NEW d \in Devices, u.adapter.proofs[d] # NoProof
        PROVE  ProofStands(u.hub, u.adapter.proofs[d], d)
    <2>1. u.adapter.proofs[d] = s.adapter.proofs[d]
      BY <1>2
    <2>2. ProofStands(s.hub, u.adapter.proofs[d], d)
      BY <1>2, <2>1 DEF LogSound
    <2>3. QED
      BY <2>2 DEF ProofStands, Standing
  <1>3. QED
    BY <1>1, <1>2 DEF LogSound

\* A call that saves a state with a sound log.
LEMMA SavedLogSound ==
    ASSUME UsableInv, UsableInv => AdmissionInv', NEW s, LogSound(s),
           disk'.newest = s, disk'.previous \in {disk.newest, disk.previous},
           Present' = s \/ Present' = Present,
           setbacks = 0, UNCHANGED <<now, shown, setbacks>>
    PROVE  UsableInv'
  <1>1. /\ LogSound(Present)' /\ LogSound(disk.newest)' /\ LogSound(disk.previous)'
        /\ \A t \in shown' : t <= now'
    BY DEF UsableInv
  <1>2. QED
    BY <1>1 DEF UsableInv

\* Every step keeps the logs sound while the clock is not set back.
LEMMA UsableStep ==
    ASSUME UsableInv, [Next]_vars
    PROVE  UsableInv'
  <1>1. AdmissionInv /\ AdmissionInv' /\ TypeOK
    BY AdmissionStep DEF UsableInv, AdmissionInv
  <1>2. SUFFICES ASSUME setbacks' = 0
                 PROVE  UsableInv'
    BY <1>1 DEF UsableInv
  <1>3. /\ now \in Nat /\ setbacks \in Nat /\ shown \in SUBSET Time /\ Time \subseteq Nat
        /\ hub \in Hub /\ disk.newest \in Snapshot /\ disk.previous \in Snapshot
        /\ Present.hub = hub /\ Present.adapter = adapter
    BY <1>1, LedgerAssumption DEF TypeOK, Time, Ledger!BoundAssumption, Present
  <1>4. ASSUME UNCHANGED <<hub, adapter, disk, setbacks>>,
               \A t \in shown' : t <= now'
        PROVE  UsableInv'
    <2>1. Present' = Present
      BY <1>4 DEF Present
    <2>2. /\ LogSound(Present) /\ LogSound(disk.newest) /\ LogSound(disk.previous)
      BY <1>2, <1>4 DEF UsableInv
    <2>3. LogSound(Present)' /\ LogSound(disk.newest)' /\ LogSound(disk.previous)'
      BY <1>4, <2>1, <2>2
    <2>4. QED
      BY <1>1, <1>4, <2>3 DEF UsableInv
  <1>5. CASE Tick
    <2>1. setbacks = 0
      BY <1>2, <1>5 DEF Tick
    <2>2. \A t \in shown : t <= now /\ t \in Nat
      BY <1>3, <2>1 DEF UsableInv
    <2>3. now' = now + 1 /\ shown' = shown \cup {now + 1}
      BY <1>5 DEF Tick
    <2>4. \A t \in shown' : t <= now'
      BY <1>3, <2>2, <2>3
    <2>5. QED
      BY <1>4, <1>5, <2>4 DEF Tick
  <1>6. ASSUME NEW t \in Time, SetClockBack(t) PROVE FALSE
    BY <1>2, <1>3, <1>6 DEF SetClockBack
  <1>7. CASE Crash
    BY <1>2, <1>4, <1>7 DEF Crash, UsableInv
  <1>8. CASE UNCHANGED vars
    BY <1>2, <1>4, <1>8 DEF vars, UsableInv
  <1>9. ASSUME NEW e \in Envelopes, NEW t \in shown, NEW known \in BOOLEAN,
               CheckIn(e, t, known)
        PROVE  UsableInv'
    <2>1. /\ UNCHANGED <<now, shown, setbacks>> /\ setbacks = 0 /\ MayAdmit(e, t)
          /\ disk' = Saved(Admitted(e, t), known)
          /\ Present' = Admitted(e, t) \/ Present' = Present
      BY <1>2, <1>9 DEF CheckIn, Admitted, Present
    <2>2. LogSound(Present) /\ t <= now /\ t \in Time
      BY <1>3, <2>1 DEF UsableInv
    <2>3. LogSound(Admitted(e, t))
      BY <1>1, <2>1, <2>2, AdmittedLogSound
    <2>4. /\ disk'.newest = Admitted(e, t)
          /\ disk'.previous \in {disk.newest, disk.previous}
      BY <2>1 DEF Saved
    <2>5. QED
      BY <1>1, <2>1, <2>3, <2>4, SavedLogSound
  <1>10. ASSUME NEW h, NEW known \in BOOLEAN, Persisted(h, known),
                LogSound(Present) => LogSound([hub |-> h, adapter |-> adapter])
         PROVE  UsableInv'
    <2>. DEFINE s == [hub |-> h, adapter |-> adapter]
    <2>1. /\ UNCHANGED <<now, shown, setbacks>> /\ setbacks = 0
          /\ disk' = Saved(s, known)
          /\ Present' = s \/ Present' = Present
      BY <1>2, <1>10 DEF Persisted, Present
    <2>2. LogSound(s)
      BY <1>10, <2>1 DEF UsableInv
    <2>. HIDE DEF s
    <2>3. disk'.newest = s /\ disk'.previous \in {disk.newest, disk.previous}
      BY <2>1 DEF Saved
    <2>4. QED
      BY <1>1, <2>1, <2>2, <2>3, SavedLogSound
  <1>11. ASSUME NEW o \in WifiOperations, NEW t \in shown, NEW known \in BOOLEAN,
                WifiReceipt(o, t, known)
         PROVE  UsableInv'
    <2>1. Persisted(Settled(o, t), known) /\ hub.receipts[o] = NoReceipt
      BY <1>11 DEF WifiReceipt
    <2>2. setbacks = 0
      BY <1>2, <2>1 DEF Persisted
    <2>3. t \in Time /\ t <= now
      BY <1>3, <2>2 DEF UsableInv
    <2>4. LogSound(Present) => LogSound([hub |-> Settled(o, t), adapter |-> adapter])
      BY <1>1, <2>1, <2>3, SettledLogSound
    <2>5. QED
      BY <1>10, <2>1, <2>4
  <1>12. ASSUME NEW d \in Devices, NEW held, NEW known \in BOOLEAN,
                Persisted(WithKiosk(d, held), known)
         PROVE  UsableInv'
    <2>1. /\ WithKiosk(d, held).log = hub.log
          /\ WithKiosk(d, held).receipts = hub.receipts
      BY <1>3 DEF Hub, WithKiosk
    <2>2. LogSound(Present) => LogSound([hub |-> WithKiosk(d, held), adapter |-> adapter])
      <3>. DEFINE u == [hub |-> WithKiosk(d, held), adapter |-> adapter]
      <3>1. /\ u.hub.log = Present.hub.log /\ u.hub.receipts = Present.hub.receipts
            /\ u.adapter.proofs = Present.adapter.proofs
        BY <1>3, <2>1
      <3>. HIDE DEF u
      <3>2. LogSound(Present) => LogSound(u)
        BY <3>1, LogStaysSound
      <3>3. QED
        BY <3>2 DEF u
    <2>3. QED
      BY <1>10, <1>12, <2>2
  <1>13. ASSUME NEW d \in Devices, NEW known \in BOOLEAN, KioskPreviewed(d, known)
         PROVE  UsableInv'
    <2>1. Persisted(WithKiosk(d, hub.kiosk[d] \cup
                                 {hub.devices[d].observation.identity_revision}), known)
      BY <1>3, <1>13 DEF KioskPreviewed, WithKiosk, Hub
    <2>2. QED
      BY <1>12, <2>1
  <1>14. ASSUME NEW d \in Devices, NEW known \in BOOLEAN, KioskSettled(d, known)
         PROVE  UsableInv'
    <2>1. PICK i \in hub.kiosk[d] : Persisted(WithKiosk(d, hub.kiosk[d] \ {i}), known)
      BY <1>3, <1>14 DEF KioskSettled, WithKiosk, Hub
    <2>2. QED
      BY <1>12, <2>1
  <1>15. CASE Restart
    <2>1. PICK s \in RestoredFrom :
             /\ hub' = s.hub
             /\ adapter' = [s.adapter EXCEPT !.seen = Unexpired(@, now),
                                             !.proofs = Fresh(@, now)]
             /\ disk' = [disk EXCEPT !.ahead = s # disk.newest]
      BY <1>15 DEF Restart
    <2>2. shown' = {now} /\ now' = now /\ setbacks = 0
      BY <1>2, <1>15 DEF Restart
    <2>3. s \in {disk.newest, disk.previous}
      BY <2>1 DEF RestoredFrom
    <2>4. LogSound(disk.newest) /\ LogSound(disk.previous) /\ LogSound(s)
      BY <2>2, <2>3 DEF UsableInv
    <2>5. disk'.newest = disk.newest /\ disk'.previous = disk.previous
      BY <1>1, <2>1 DEF TypeOK
    <2>6. \A d \in Devices : adapter'.proofs[d] \in {s.adapter.proofs[d], NoProof}
      <3>1. adapter'.proofs = Fresh(s.adapter.proofs, now)
        BY <1>3, <2>1, <2>3 DEF Snapshot, Adapter
      <3>2. QED
        BY <3>1 DEF Fresh
    <2>7. Present'.hub = s.hub /\ Present'.adapter = adapter'
      BY <2>1 DEF Present
    <2>8. LogSound(Present')
      BY <2>4, <2>6, <2>7, LogStaysSound
    <2>9. \A t \in shown' : t <= now'
      BY <1>3, <2>2
    <2>10. QED
      BY <1>1, <2>4, <2>5, <2>8, <2>9 DEF UsableInv
  <1>16. QED
    BY <1>5, <1>6, <1>7, <1>8, <1>9, <1>11, <1>13, <1>14, <1>15 DEF Next

\* An operation shown as usable is proven: the request before the proof, and what
\* disables the route not read between them nor since.
LEMMA UsableMeansProven ==
    ASSUME UsableInv
    PROVE  UsableIsProven
  <1>. SUFFICES ASSUME setbacks = 0, NEW o \in WifiOperations,
                       NEW t \in shown, Usable(o, t)
                PROVE  LET log == hub.log[Wifi[o].device_id]
                           Disables(k) == {q \in log[k].of : Wifi[q].action = "disable"}
                       IN
                       \E i, j \in 1..Len(log) :
                           /\ i < j /\ log[i].of = {o} /\ log[j].kind = "proof"
                           /\ \A k \in (j + 1)..Len(log) :
                                 /\ log[k].kind = "receipt"
                                 /\ \A q \in Disables(k) : hub.receipts[q] < log[j].at
                           /\ \A k \in (i + 1)..(j - 1) : \A q \in Disables(k) :
                                 \/ hub.receipts[q] < log[i].at
                                 \/ Wifi[q].route # "modern"
                                 \/ Wifi[q].identity_revision # Wifi[o].identity_revision
    BY DEF UsableIsProven
  <1>. DEFINE d == Wifi[o].device_id
              b == adapter.proofs[d]
              log == hub.log[d]
  <1>1. /\ hub \in Hub /\ adapter \in Adapter
        /\ LogSound(Present)
        /\ Present.hub = hub /\ Present.adapter = adapter
    BY DEF UsableInv, AdmissionInv, TypeOK, Present
  <1>2. /\ d \in Devices /\ NoReceipt \notin Time /\ Time \subseteq Nat
    BY OperationsAssumption, LedgerAssumption DEF WifiOperation, Ledger!BoundAssumption, Time
  <1>3. /\ b # NoProof /\ b.operation = o /\ b.bound_at = hub.receipts[o]
        /\ \A q \in WifiOperations :
              /\ Wifi[q].action = "disable" /\ Wifi[q].device_id = d
              /\ hub.receipts[q] # NoReceipt
              => ~(hub.receipts[q] >= b.accepted_at)
    BY DEF Usable
  <1>4. EntriesKnown(hub, d) /\ ProofStands(hub, b, d)
    BY <1>1, <1>2, <1>3 DEF LogSound
  <1>5. b.accepted_at \in Nat /\ b.bound_at \in Nat
    BY <1>1, <1>2, <1>3 DEF Adapter, Proof
  <1>6. PICK i, j \in 1..Len(log) : Standing(hub, b, d, i, j)
    BY <1>4 DEF ProofStands
  <1>7. Wifi[o].identity_revision = b.identity_revision
    BY <1>3, <1>4 DEF ProofStands
  <1>8. log \in Seq(Logged) /\ Len(log) \in Nat /\ log[i] \in Logged /\ log[j] \in Logged
    <2>1. log \in Seq(Logged)
      BY <1>1, <1>2 DEF Hub
    <2>2. QED
      BY <1>6, <2>1
  <1>9. log[i].at \in Nat /\ log[j].at \in Nat
    BY <1>2, <1>8 DEF Logged
  <1>10. \A q \in WifiOperations : hub.receipts[q] # NoReceipt => hub.receipts[q] \in Nat
    BY <1>1, <1>2 DEF Hub
  <1>. HIDE DEF b, d, log
  <1>11. /\ i < j /\ log[i].of = {o} /\ log[j].kind = "proof"
         /\ b.accepted_at <= log[j].at
         /\ \A k \in 1..Len(log) : k > j => log[k].kind = "receipt"
         /\ \A k \in 1..Len(log) : k < j =>
               \A q \in log[k].of :
                  /\ Wifi[q].action = "disable" /\ Wifi[q].route = "modern"
                  /\ Wifi[q].identity_revision = b.identity_revision
                  => hub.receipts[q] < b.bound_at
    BY <1>3, <1>6 DEF Standing, log
  <1>12. \A k \in 1..Len(log) : \A q \in log[k].of :
             /\ q \in WifiOperations /\ Wifi[q].device_id = d
             /\ hub.receipts[q] # NoReceipt /\ hub.receipts[q] <= log[k].at
    BY <1>4 DEF EntriesKnown, log
  <1>13. b.bound_at <= log[i].at
    BY <1>3, <1>6, <1>11, <1>12
  <1>14. ASSUME NEW k \in (j + 1)..Len(log)
         PROVE  /\ log[k].kind = "receipt"
                /\ \A q \in {q \in log[k].of : Wifi[q].action = "disable"} :
                      hub.receipts[q] < log[j].at
    <2>1. k \in 1..Len(log) /\ k > j
      BY <1>6, <1>8
    <2>2. ASSUME NEW q \in log[k].of, Wifi[q].action = "disable"
          PROVE  hub.receipts[q] < log[j].at
      <3>1. ~(hub.receipts[q] >= b.accepted_at) /\ hub.receipts[q] \in Nat
        BY <1>3, <1>10, <1>12, <2>1, <2>2
      <3>2. QED
        BY <1>5, <1>9, <1>11, <3>1
    <2>3. QED
      BY <1>11, <2>1, <2>2
  <1>15. ASSUME NEW k \in (i + 1)..(j - 1), NEW q \in log[k].of,
                Wifi[q].action = "disable", Wifi[q].route = "modern",
                Wifi[q].identity_revision = Wifi[o].identity_revision
         PROVE  hub.receipts[q] < log[i].at
    <2>1. k \in 1..Len(log) /\ k < j
      BY <1>6, <1>8
    <2>2. hub.receipts[q] \in Nat
      BY <1>10, <1>12, <2>1
    <2>3. hub.receipts[q] < b.bound_at
      BY <1>7, <1>11, <1>15, <2>1
    <2>4. QED
      BY <1>5, <1>9, <1>13, <2>2, <2>3
  <1>16. QED
    BY <1>6, <1>11, <1>14, <1>15 DEF log, d

\* While the clock is not set back, what is shown as usable is proven, for every
\* set of operations and check-ins.
THEOREM UsableOperationsAreProven ==
    Spec => []UsableIsProven
  <1>1. Init => UsableInv
    <2>. SUFFICES ASSUME Init PROVE UsableInv
      OBVIOUS
    <2>1. AdmissionInv
      BY AdmissionStarts
    <2>2. /\ hub.log = [d \in Devices |-> <<>>]
          /\ hub.receipts = [o \in WifiOperations |-> NoReceipt]
          /\ adapter.proofs = [d \in Devices |-> NoProof]
          /\ disk.newest = Present /\ disk.previous = Present
          /\ Present.hub = hub /\ Present.adapter = adapter
          /\ \A t \in shown : t <= now
      BY DEF Init, Present
    <2>3. \A d \in Devices : EntriesKnown(hub, d)
      BY <2>2 DEF EntriesKnown
    <2>4. ReceiptsLogged(hub)
      BY <2>2 DEF ReceiptsLogged
    <2>5. QED
      BY <2>1, <2>2, <2>3, <2>4 DEF UsableInv, LogSound
  <1>2. UsableInv /\ [Next]_vars => UsableInv'
    BY UsableStep
  <1>3. UsableInv => UsableIsProven
    BY UsableMeansProven
  <1>4. QED
    BY <1>1, <1>2, <1>3, PTL DEF Spec

=============================================================================
