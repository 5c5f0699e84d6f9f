---------------------------- MODULE HubState_proofs ----------------------------
(***************************************************************************)
(* Proofs about the state the hub keeps, each for every value of the       *)
(* constants: the device ledger (DeviceDirectory), the saved views         *)
(* (SavedViews), the kiosk operations (KioskOperations) and the two slots  *)
(* that hold the whole of it (DurableStore).                               *)
(***************************************************************************)
EXTENDS DeviceDirectory, SavedViews, KioskOperations, DurableStore, FiniteSetTheorems,
        TLAPS

-----------------------------------------------------------------------------
(* DeviceDirectory: the lineage, the watch log, what a snapshot restores.     *)

\* A retained log is a sequence of the same entries, no longer than its limit.
LEMMA NewestType ==
    ASSUME NEW S, NEW log \in Seq(S), NEW limit \in Nat \ {0}
    PROVE  Newest(log, limit) \in Seq(S) /\ Len(Newest(log, limit)) <= limit
  <1>1. CASE Len(log) > limit
    <2>1. /\ Len(log) - limit + 1 \in 1..Len(log)
          /\ Len(log) \in Nat
      BY <1>1
    <2>2. SubSeq(log, Len(log) - limit + 1, Len(log)) \in Seq(S)
      BY <2>1
    <2>3. Len(SubSeq(log, Len(log) - limit + 1, Len(log))) = limit
      BY <2>1
    <2>4. QED
      BY <1>1, <2>2, <2>3 DEF Newest
  <1>2. CASE ~(Len(log) > limit)
    BY <1>2 DEF Newest
  <1>3. QED
    BY <1>1, <1>2

\* What an acceptance stores is a record of the ledger.
LEMMA AcceptedRecordType ==
    ASSUME TypeOK, NEW o \in Observation
    PROVE  AcceptedRevision \in Nat /\ AcceptedRecord(o) \in DeviceRecord
  <1>1. AcceptedRevision \in Nat
    BY DEF AcceptedRevision, TypeOK
  <1>2. History(o) \in Seq(Nat)
    <2>. DEFINE before == IF Known(o.device_id)
                          THEN devices[o.device_id].condition_history ELSE <<>>
    <2>1. before \in Seq(Nat)
      BY DEF TypeOK, Known, DeviceRecord, Observation
    <2>2. Append(before, AcceptedRevision) \in Seq(Nat)
      BY <1>1, <2>1
    <2>3. QED
      BY <2>2, NewestType, PolicyAssumption DEF History
  <1>3. SeenEpochs(o) \in SUBSET Epochs
    BY DEF SeenEpochs, TypeOK, Known, DeviceRecord, Observation
  <1>4. QED
    BY <1>1, <1>2, <1>3 DEF AcceptedRecord, DeviceRecord

\* Recording a decision keeps the log within its type and its limit.
LEMMA RecordEventType ==
    ASSUME TypeOK, NEW decision \in Decision, RecordEvent(decision)
    PROVE  /\ event_sequence' \in 0..MaxEvents
           /\ events' \in Seq([sequence : Nat, decision : Decision])
           /\ Len(events') <= EventLimit
  <1>. DEFINE Event == [sequence : Nat, decision : Decision]
              log == Append(events, [sequence |-> event_sequence + 1,
                                     decision |-> decision])
  <1>1. log \in Seq(Event)
    BY BoundAssumption DEF TypeOK
  <1>2. /\ Newest(log, EventLimit) \in Seq(Event)
        /\ Len(Newest(log, EventLimit)) <= EventLimit
    BY <1>1, NewestType, PolicyAssumption
  <1>3. QED
    BY <1>2, BoundAssumption DEF RecordEvent, TypeOK

\* No decision takes the ledger or the log out of its type.
LEMMA TypeStep ==
    ASSUME TypeOK, [Next]_vars
    PROVE  TypeOK'
  <1>1. CASE RejectInvalid
    <2>1. [kind |-> "rejected", reason |-> "ContractInvalid",
           result_revision |-> result_revision] \in Decision
      BY DEF Decision, TypeOK
    <2>2. QED
      BY <1>1, <2>1, RecordEventType DEF RejectInvalid, TypeOK
  <1>2. ASSUME NEW o \in Observation, RejectObservation(o) PROVE TypeOK'
    <2>1. PICK i \in 1..9 :
             RecordEvent([kind |-> "rejected", reason |-> Reason[i],
                          result_revision |-> result_revision])
      BY <1>2 DEF RejectObservation
    <2>2. [kind |-> "rejected", reason |-> Reason[i],
           result_revision |-> result_revision] \in Decision
      BY DEF Decision, TypeOK
    <2>3. QED
      BY <1>2, <2>1, <2>2, RecordEventType DEF RejectObservation, TypeOK
  <1>3. ASSUME NEW o \in Observation, AcceptObservation(o) PROVE TypeOK'
    <2>1. AcceptedRevision \in Nat /\ AcceptedRecord(o) \in DeviceRecord
      BY AcceptedRecordType
    <2>2. LineageOf(o) \in Lineage
      BY <2>1 DEF LineageOf, Lineage, Observation
    <2>3. [kind |-> "accepted", reason |-> "none",
           result_revision |-> AcceptedRevision] \in Decision
      BY <2>1 DEF Decision
    <2>4. QED
      BY <1>3, <2>1, <2>2, <2>3, RecordEventType DEF AcceptObservation, TypeOK
  <1>4. CASE UNCHANGED vars
    BY <1>4 DEF vars, TypeOK
  <1>5. QED
    BY <1>1, <1>2, <1>3, <1>4 DEF Next

\* The type invariant of FleetHub's device ledger: whatever observations
\* arrive, records keep their shape and the log never outgrows the policy.
THEOREM TypeCorrect == Spec => []TypeOK
  <1>1. Init => TypeOK
    BY PolicyAssumption, BoundAssumption DEF Init, TypeOK
  <1>2. TypeOK /\ [Next]_vars => TypeOK'
    BY TypeStep
  <1>3. QED
    BY <1>1, <1>2, PTL DEF Spec

-----------------------------------------------------------------------------
(* LineageAdvances and EpochNeverReturns speak of the accepted lineages; the *)
(* rules look only at the record held.  The inductive invariant says what    *)
(* the record knows of the lineages: it is at the top of their order, its    *)
(* evidence names all their epochs, and lineages of its epoch are the last.  *)

\* Acceptances are numbered by result revision, each number used once.
AcceptancesNumbered ==
    /\ \A a \in admitted : a.at <= result_revision /\ Known(a.device_id)
    /\ \A a, b \in admitted : a.at = b.at => a = b

\* The record held for a device dominates every lineage accepted for it.
RecordOnTop ==
    \A a \in admitted :
        LET r == devices[a.device_id] IN
        /\ a.identity_revision <= r.observation.identity_revision
        /\ a.source_epoch \in r.seen_source_epochs
        /\ (/\ a.identity_revision = r.observation.identity_revision
            /\ a.source_epoch = r.observation.source_epoch) =>
                /\ a.source_revision <= r.observation.source_revision
                /\ a.received_time_ms <= r.observation.received_time_ms

\* Since a lineage of the current epoch was accepted, no other epoch was.
EpochIsLast ==
    \A a, b \in admitted :
        (/\ a.device_id = b.device_id /\ a.at < b.at
         /\ a.source_epoch = devices[a.device_id].observation.source_epoch)
            => b.source_epoch = a.source_epoch

LineageInv ==
    /\ TypeOK /\ AcceptancesNumbered /\ RecordOnTop /\ EpochIsLast
    /\ LineageAdvances /\ EpochNeverReturns

\* An admitted observation of a known device breaks none of the rules.
LEMMA NoRuleBroken ==
    ASSUME NEW o \in Observation, AcceptObservation(o), Known(o.device_id)
    PROVE  LET r == devices[o.device_id] IN
           /\ ~IdentityRevisionRollback(o, r)
           /\ ~SourceEpochReplay(o, r)
           /\ ~DuplicateRevision(o, r)
           /\ ~StaleRevision(o, r)
           /\ ~ReceiveTimeRegression(o, r)
  <1>1. \A i \in 1..9 : ~Breaks(o, devices[o.device_id])[i]
    BY DEF AcceptObservation, Admissible
  <1>2. QED
    BY <1>1 DEF Breaks

\* What an acceptance of o changes, and what it leaves.
LEMMA AcceptanceStep ==
    ASSUME TypeOK, NEW o \in Observation, AcceptObservation(o)
    PROVE  /\ admitted' = admitted \cup {LineageOf(o)}
           /\ result_revision' = result_revision + 1
           /\ LineageOf(o).at = result_revision + 1
           /\ devices'[o.device_id].observation = o
           /\ devices'[o.device_id].seen_source_epochs = SeenEpochs(o)
           /\ Known(o.device_id)'
           /\ \A d \in DeviceIds \ {o.device_id} : devices'[d] = devices[d]
  <1>1. devices'[o.device_id] = AcceptedRecord(o)
    BY DEF AcceptObservation, TypeOK, Observation
  <1>2. AcceptedRecord(o) \in DeviceRecord
    BY AcceptedRecordType
  <1>3. QED
    BY <1>1, <1>2, NoDeviceAssumption
       DEF AcceptObservation, AcceptedRecord, AcceptedRevision, LineageOf, TypeOK,
           Observation, Known

\* The inductive step of LineageInv, one fact per conjunct.
LEMMA LineageStep ==
    ASSUME LineageInv, [Next]_vars
    PROVE  LineageInv'
  <1>1. TypeOK'
    BY TypeStep DEF LineageInv
  <1>2. CASE UNCHANGED <<devices, result_revision, admitted>>
    BY <1>1, <1>2 DEF LineageInv, AcceptancesNumbered, RecordOnTop, EpochIsLast,
                      LineageAdvances, EpochNeverReturns, Known
  <1>3. ASSUME NEW o \in Observation, AcceptObservation(o) PROVE LineageInv'
    <2>. DEFINE d == o.device_id
                new == LineageOf(o)
                held == devices[d]
    <2>1. /\ admitted' = admitted \cup {new}
          /\ result_revision' = result_revision + 1
          /\ new.at = result_revision + 1
          /\ devices'[d].observation = o
          /\ devices'[d].seen_source_epochs = SeenEpochs(o)
          /\ Known(d)'
          /\ \A x \in DeviceIds \ {d} : devices'[x] = devices[x]
      BY <1>3, AcceptanceStep DEF LineageInv
    <2>2. /\ new.device_id = d
          /\ new.identity_revision = o.identity_revision
          /\ new.source_epoch = o.source_epoch
          /\ new.source_revision = o.source_revision
          /\ new.received_time_ms = o.received_time_ms
      BY DEF LineageOf
    <2>3. /\ result_revision \in Nat
          /\ d \in DeviceIds /\ o.identity_revision \in Nat
          /\ o.source_revision \in Nat /\ o.received_time_ms \in Nat
          /\ \A a \in admitted : /\ a.device_id \in DeviceIds /\ a.at \in Nat
                                 /\ a.identity_revision \in Nat
                                 /\ a.source_revision \in Nat
                                 /\ a.received_time_ms \in Nat
          /\ \A a \in admitted : a.at < new.at /\ Known(a.device_id)
      BY <2>1, BoundAssumption
         DEF LineageInv, TypeOK, Observation, Lineage, AcceptancesNumbered
    <2>4. \A a \in admitted : a.device_id = d =>
             /\ a.identity_revision <= o.identity_revision
             /\ a.source_epoch \in SeenEpochs(o)
             /\ (/\ a.identity_revision = o.identity_revision
                 /\ a.source_epoch = o.source_epoch) =>
                     /\ a.source_revision < o.source_revision
                     /\ a.received_time_ms <= o.received_time_ms
      <3>. SUFFICES ASSUME NEW a \in admitted, a.device_id = d
                    PROVE  /\ a.identity_revision <= o.identity_revision
                           /\ a.source_epoch \in SeenEpochs(o)
                           /\ (/\ a.identity_revision = o.identity_revision
                               /\ a.source_epoch = o.source_epoch) =>
                                   /\ a.source_revision < o.source_revision
                                   /\ a.received_time_ms <= o.received_time_ms
        OBVIOUS
      <3>1. Known(d)
        BY <2>3
      <3>2. /\ ~IdentityRevisionRollback(o, held) /\ ~SourceEpochReplay(o, held)
            /\ ~DuplicateRevision(o, held) /\ ~StaleRevision(o, held)
            /\ ~ReceiveTimeRegression(o, held)
        BY <1>3, <3>1, NoRuleBroken
      <3>3. /\ a.identity_revision <= held.observation.identity_revision
            /\ a.source_epoch \in held.seen_source_epochs
            /\ (/\ a.identity_revision = held.observation.identity_revision
                /\ a.source_epoch = held.observation.source_epoch) =>
                    /\ a.source_revision <= held.observation.source_revision
                    /\ a.received_time_ms <= held.observation.received_time_ms
        BY DEF LineageInv, RecordOnTop
      <3>4. /\ held.observation.identity_revision \in Nat
            /\ held.observation.source_revision \in Nat
            /\ held.observation.received_time_ms \in Nat
        BY <2>3, <3>1, BoundAssumption
           DEF LineageInv, TypeOK, DeviceRecord, Observation, Known
      <3>5. a.source_epoch \in SeenEpochs(o)
        BY <3>1, <3>3 DEF SeenEpochs
      <3>6. QED
        BY <2>3, <3>2, <3>3, <3>4, <3>5
           DEF IdentityRevisionRollback, SourceEpochReplay, DuplicateRevision,
               StaleRevision, ReceiveTimeRegression, SameIdentity, SameSource
    <2>5. \A a \in admitted : a.device_id = d /\ a.source_epoch = o.source_epoch =>
             a.source_epoch = held.observation.source_epoch
      BY <1>3, <2>3, NoRuleBroken DEF LineageInv, RecordOnTop, SourceEpochReplay
    <2>6. AcceptancesNumbered'
      BY <2>1, <2>2, <2>3 DEF LineageInv, AcceptancesNumbered, Known
    <2>7. RecordOnTop'
      BY <2>1, <2>2, <2>3, <2>4 DEF LineageInv, RecordOnTop, SeenEpochs
    <2>8. EpochIsLast'
      BY <2>1, <2>2, <2>3, <2>5 DEF LineageInv, EpochIsLast
    <2>9. LineageAdvances'
      BY <2>1, <2>2, <2>3, <2>4 DEF LineageInv, LineageAdvances
    <2>10. EpochNeverReturns'
      BY <2>1, <2>2, <2>3, <2>5 DEF LineageInv, EpochIsLast, EpochNeverReturns
    <2>11. QED
      BY <1>1, <2>6, <2>7, <2>8, <2>9, <2>10 DEF LineageInv
  <1>4. QED
    BY <1>2, <1>3 DEF Next, RejectInvalid, RejectObservation, vars

\* LineageInv holds of every reachable state.
THEOREM LineageInvariant == Spec => []LineageInv
  <1>1. Init => LineageInv
    BY PolicyAssumption, BoundAssumption
       DEF Init, LineageInv, TypeOK, AcceptancesNumbered, RecordOnTop, EpochIsLast,
           LineageAdvances, EpochNeverReturns
  <1>2. LineageInv /\ [Next]_vars => LineageInv'
    BY LineageStep
  <1>3. QED
    BY <1>1, <1>2, PTL DEF Spec

\* For every number of devices, epochs and revisions: accept_observation never
\* admits a lineage twice or out of order.
THEOREM LineageIsMonotone == Spec => []LineageAdvances
  <1>1. LineageInv => LineageAdvances
    BY DEF LineageInv
  <1>2. QED
    BY <1>1, LineageInvariant, PTL

\* For every number of devices, epochs and revisions: nothing of an epoch that
\* a device has left is admitted again.
THEOREM EpochStaysLeft == Spec => []EpochNeverReturns
  <1>1. LineageInv => EpochNeverReturns
    BY DEF LineageInv
  <1>2. QED
    BY <1>1, LineageInvariant, PTL

-----------------------------------------------------------------------------
(* The watch log.                                                            *)

\* A retained log drops a prefix: entry i of it is entry k + i of the log.
LEMMA NewestEntries ==
    ASSUME NEW S, NEW log \in Seq(S), NEW limit \in Nat \ {0}
    PROVE  \E k \in Nat :
              /\ k = IF Len(log) > limit THEN Len(log) - limit ELSE 0
              /\ Len(Newest(log, limit)) = Len(log) - k
              /\ \A i \in 1..(Len(log) - k) : Newest(log, limit)[i] = log[k + i]
  <1>1. CASE Len(log) > limit
    <2>. DEFINE k == Len(log) - limit
    <2>1. k \in Nat /\ k + 1 \in 1..Len(log) /\ Len(log) \in Nat
      BY <1>1
    <2>2. Newest(log, limit) = SubSeq(log, k + 1, Len(log))
      BY <1>1 DEF Newest
    <2>3. Len(SubSeq(log, k + 1, Len(log))) = Len(log) - k
      BY <2>1
    <2>4. \A i \in 1..(Len(log) - k) : SubSeq(log, k + 1, Len(log))[i] = log[k + i]
      BY <2>1
    <2>5. QED
      BY <1>1, <2>1, <2>2, <2>3, <2>4
  <1>2. CASE ~(Len(log) > limit)
    <2>1. Newest(log, limit) = log
      BY <1>2 DEF Newest
    <2>2. 0 \in Nat /\ Len(log) \in Nat /\ \A i \in 1..(Len(log) - 0) : log[0 + i] = log[i]
      OBVIOUS
    <2>3. QED
      BY <1>2, <2>1, <2>2
  <1>3. QED
    BY <1>1, <1>2

\* Every step that decides anything records one decision, which quotes the
\* revision it leaves behind and advances it by one exactly when it accepts.
LEMMA StepRecords ==
    ASSUME TypeOK, [Next]_vars
    PROVE  \/ UNCHANGED vars
           \/ \E decision \in Decision :
                 /\ RecordEvent(decision)
                 /\ decision.result_revision = result_revision'
                 /\ result_revision' = result_revision
                       + (IF decision.kind = "accepted" THEN 1 ELSE 0)
  <1>1. CASE RejectInvalid
    <2>. DEFINE decision == [kind |-> "rejected", reason |-> "ContractInvalid",
                             result_revision |-> result_revision]
    <2>1. decision \in Decision /\ decision.kind # "accepted"
      BY DEF Decision, TypeOK
    <2>2. RecordEvent(decision) /\ result_revision' = result_revision
      BY <1>1 DEF RejectInvalid
    <2>3. QED
      BY <2>1, <2>2 DEF TypeOK
  <1>2. ASSUME NEW o \in Observation, RejectObservation(o)
        PROVE  \E decision \in Decision :
                 /\ RecordEvent(decision)
                 /\ decision.result_revision = result_revision'
                 /\ result_revision' = result_revision
                       + (IF decision.kind = "accepted" THEN 1 ELSE 0)
    <2>1. PICK i \in 1..9 :
             RecordEvent([kind |-> "rejected", reason |-> Reason[i],
                          result_revision |-> result_revision])
      BY <1>2 DEF RejectObservation
    <2>. DEFINE decision == [kind |-> "rejected", reason |-> Reason[i],
                             result_revision |-> result_revision]
    <2>2. decision \in Decision /\ decision.kind # "accepted"
      BY DEF Decision, TypeOK
    <2>3. result_revision' = result_revision
      BY <1>2 DEF RejectObservation
    <2>4. QED
      BY <2>1, <2>2, <2>3 DEF TypeOK
  <1>3. ASSUME NEW o \in Observation, AcceptObservation(o)
        PROVE  \E decision \in Decision :
                 /\ RecordEvent(decision)
                 /\ decision.result_revision = result_revision'
                 /\ result_revision' = result_revision
                       + (IF decision.kind = "accepted" THEN 1 ELSE 0)
    <2>. DEFINE decision == [kind |-> "accepted", reason |-> "none",
                             result_revision |-> AcceptedRevision]
    <2>1. AcceptedRevision \in Nat
      BY AcceptedRecordType
    <2>2. decision \in Decision /\ decision.kind = "accepted"
      BY <2>1 DEF Decision
    <2>3. RecordEvent(decision) /\ result_revision' = AcceptedRevision
      BY <1>3 DEF AcceptObservation
    <2>4. QED
      BY <2>2, <2>3 DEF AcceptedRevision
  <1>4. QED
    BY <1>1, <1>2, <1>3 DEF Next

\* A decision appended to a log that accounts for the revisions, and the log
\* cut to its limit, still accounts for them.
LEMMA WatchLogStep ==
    ASSUME TypeOK, WatchLogAccountsForRevisions, [Next]_vars
    PROVE  WatchLogAccountsForRevisions'
  <1>1. CASE UNCHANGED vars
    BY <1>1 DEF vars, WatchLogAccountsForRevisions
  <1>2. ASSUME NEW decision \in Decision, RecordEvent(decision),
               decision.result_revision = result_revision',
               result_revision' = result_revision
                  + (IF decision.kind = "accepted" THEN 1 ELSE 0)
        PROVE  WatchLogAccountsForRevisions'
    <2>. DEFINE n == Len(events)
                entry == [sequence |-> event_sequence + 1, decision |-> decision]
                log == Append(events, entry)
                Event == [sequence : Nat, decision : Decision]
    <2>1. /\ event_sequence \in Nat /\ events \in Seq(Event) /\ n \in Nat
          /\ result_revision \in Nat
      BY BoundAssumption DEF TypeOK
    <2>2. log \in Seq(Event) /\ Len(log) = n + 1
      BY <2>1
    <2>3. (\A i \in 1..n : log[i] = events[i]) /\ log[n + 1] = entry
      BY <2>1
    <2>4. /\ \A i \in 1..n : events[i].sequence = event_sequence - n + i
          /\ n > 0 => events[n].decision.result_revision = result_revision
          /\ \A i \in 2..n :
                events[i].decision.result_revision =
                   events[i - 1].decision.result_revision
                      + (IF events[i].decision.kind = "accepted" THEN 1 ELSE 0)
      BY DEF WatchLogAccountsForRevisions
    <2>5. \A i \in 1..(n + 1) : log[i].sequence = event_sequence - n + i
      BY <2>1, <2>3, <2>4
    <2>6. \A i \in 2..(n + 1) :
             log[i].decision.result_revision =
                log[i - 1].decision.result_revision
                   + (IF log[i].decision.kind = "accepted" THEN 1 ELSE 0)
      <3>. SUFFICES ASSUME NEW i \in 2..(n + 1)
                    PROVE  log[i].decision.result_revision =
                              log[i - 1].decision.result_revision
                                + (IF log[i].decision.kind = "accepted" THEN 1 ELSE 0)
        OBVIOUS
      <3>1. i - 1 \in 1..n /\ log[i - 1] = events[i - 1]
        BY <2>1, <2>3
      <3>2. CASE i = n + 1
        <4>1. log[i].decision = decision /\ i - 1 = n /\ n > 0
          BY <2>1, <2>3, <3>1, <3>2
        <4>2. log[i - 1].decision.result_revision = result_revision
          BY <2>4, <3>1, <4>1
        <4>3. QED
          BY <1>2, <4>1, <4>2
      <3>3. CASE i # n + 1
        <4>1. i \in 2..n /\ log[i] = events[i]
          BY <2>1, <2>3, <3>3
        <4>2. QED
          BY <2>4, <3>1, <4>1
      <3>4. QED
        BY <3>2, <3>3
    <2>7. events' = Newest(log, EventLimit) /\ event_sequence' = event_sequence + 1
      BY <1>2 DEF RecordEvent
    <2>. HIDE DEF log, n, entry
    <2>8. PICK k \in Nat :
             /\ k = IF Len(log) > EventLimit THEN Len(log) - EventLimit ELSE 0
             /\ Len(Newest(log, EventLimit)) = Len(log) - k
             /\ \A i \in 1..(Len(log) - k) : Newest(log, EventLimit)[i] = log[k + i]
      <3>. HIDE DEF Event
      <3>1. QED
        BY <2>2, NewestEntries, PolicyAssumption
    <2>9. /\ k < n + 1 /\ n + 1 - k \in Nat
          /\ Len(events') = n + 1 - k
          /\ \A i \in 1..(n + 1 - k) : events'[i] = log[k + i]
      BY <2>1, <2>2, <2>7, <2>8, PolicyAssumption
    <2>10. \A i \in 1..(n + 1 - k) :
              events'[i].sequence = event_sequence' - (n + 1 - k) + i
      <3>. SUFFICES ASSUME NEW i \in 1..(n + 1 - k)
                    PROVE  events'[i].sequence = event_sequence' - (n + 1 - k) + i
        OBVIOUS
      <3>1. k + i \in 1..(n + 1) /\ i \in Nat
        BY <2>1, <2>9
      <3>2. events'[i].sequence = event_sequence - n + (k + i)
        BY <2>5, <2>9, <3>1
      <3>3. event_sequence \in Nat /\ n \in Nat /\ event_sequence' = event_sequence + 1
        BY <2>1, <2>7
      <3>4. QED
        BY <3>1, <3>2, <3>3
    <2>11. events'[n + 1 - k].decision.result_revision = result_revision'
      <3>1. events'[n + 1 - k] = log[n + 1]
        BY <2>1, <2>9
      <3>2. log[n + 1].decision = decision
        BY <2>3 DEF entry
      <3>3. QED
        BY <1>2, <3>1, <3>2
    <2>12. \A i \in 2..(n + 1 - k) :
              events'[i].decision.result_revision =
                 events'[i - 1].decision.result_revision
                    + (IF events'[i].decision.kind = "accepted" THEN 1 ELSE 0)
      <3>. SUFFICES ASSUME NEW i \in 2..(n + 1 - k)
                    PROVE  events'[i].decision.result_revision =
                              events'[i - 1].decision.result_revision
                                + (IF events'[i].decision.kind = "accepted" THEN 1 ELSE 0)
        OBVIOUS
      <3>1. /\ i \in 1..(n + 1 - k) /\ i - 1 \in 1..(n + 1 - k)
            /\ k + i \in 2..(n + 1) /\ k + (i - 1) = (k + i) - 1
        BY <2>1, <2>9
      <3>2. events'[i] = log[k + i] /\ events'[i - 1] = log[(k + i) - 1]
        BY <2>9, <3>1
      <3>3. QED
        BY <2>6, <3>1, <3>2
    <2>13. QED
      BY <2>9, <2>10, <2>11, <2>12 DEF WatchLogAccountsForRevisions
  <1>3. QED
    BY <1>1, <1>2, StepRecords

\* For every policy and every stream of observations: the window of the watch
\* log is consecutive, ends at the current revision, and accounts for it.
THEOREM WatchLogAccounts == Spec => []WatchLogAccountsForRevisions
  <1>1. Init => WatchLogAccountsForRevisions
    BY DEF Init, WatchLogAccountsForRevisions
  <1>2. TypeOK /\ WatchLogAccountsForRevisions /\ [Next]_vars =>
           WatchLogAccountsForRevisions'
    BY WatchLogStep
  <1>3. QED
    BY <1>1, <1>2, TypeCorrect, PTL DEF Spec

\* Only an acceptance moves the ledger, and it moves the revision with it.
THEOREM RevisionNames == Spec => RevisionNamesLedger
  <1>1. TypeOK /\ [Next]_vars =>
           [result_revision' = result_revision => devices' = devices]_vars
    <2>. SUFFICES ASSUME TypeOK, [Next]_vars, result_revision' = result_revision
                  PROVE  devices' = devices
      OBVIOUS
    <2>1. ASSUME NEW o \in Observation, AcceptObservation(o) PROVE FALSE
      BY <2>1 DEF AcceptObservation, AcceptedRevision, TypeOK
    <2>2. QED
      BY <2>1 DEF Next, RejectInvalid, RejectObservation, vars
  <1>2. QED
    BY <1>1, TypeCorrect, PTL DEF Spec, RevisionNamesLedger

-----------------------------------------------------------------------------
(* The snapshot and the history.  FleetHub::restore checks each record by    *)
(* itself; that no acceptance builds a record it refuses needs the finite    *)
(* evidence set, and the bound the epoch rule keeps on it.                   *)

RecordsRestorable ==
    \A d \in DeviceIds : Known(d) =>
        RecordRestorable(d) /\ IsFiniteSet(devices[d].seen_source_epochs)

RestoreInv ==
    TypeOK /\ result_revision # 0 /\ RecordsRestorable

\* The evidence of an accepted epoch stays within the limit of the policy.
LEMMA EvidenceBounded ==
    ASSUME RestoreInv, NEW o \in Observation, AcceptObservation(o)
    PROVE  /\ IsFiniteSet(SeenEpochs(o))
           /\ Cardinality(SeenEpochs(o)) <= SourceEpochLimit
  <1>. DEFINE d == o.device_id
              held == devices[d]
              seen == held.seen_source_epochs
  <1>1. d \in DeviceIds
    BY DEF Observation
  <1>2. CASE ~Known(d)
    <2>1. SeenEpochs(o) = {o.source_epoch}
      BY <1>2 DEF SeenEpochs
    <2>2. IsFiniteSet({o.source_epoch}) /\ Cardinality({o.source_epoch}) = 1
      BY FS_Singleton
    <2>3. QED
      BY <2>1, <2>2, PolicyAssumption
  <1>3. CASE Known(d)
    <2>1. /\ IsFiniteSet(seen) /\ Cardinality(seen) <= SourceEpochLimit
          /\ held.observation.source_epoch \in seen
      BY <1>1, <1>3 DEF RestoreInv, RecordsRestorable, RecordRestorable
    <2>2. SeenEpochs(o) = seen \cup {o.source_epoch}
      BY <1>3 DEF SeenEpochs
    <2>3. CASE o.source_epoch \in seen
      <3>1. SeenEpochs(o) = seen
        BY <2>2, <2>3
      <3>2. QED
        BY <2>1, <3>1
    <2>4. CASE o.source_epoch \notin seen
      <3>1. \A i \in 1..9 : ~Breaks(o, held)[i]
        BY <1>3 DEF AcceptObservation, Admissible
      <3>2. ~SourceEpochEvidenceLimitExceeded(o, held)
        BY <3>1 DEF Breaks
      <3>3. ~(Cardinality(seen) >= SourceEpochLimit)
        BY <2>1, <2>4, <3>2 DEF SourceEpochEvidenceLimitExceeded
      <3>4. Cardinality(seen) \in Nat
        BY <2>1, FS_CardinalityType
      <3>5. /\ IsFiniteSet(seen \cup {o.source_epoch})
            /\ Cardinality(seen \cup {o.source_epoch}) = Cardinality(seen) + 1
        BY <2>1, <2>4, FS_AddElement
      <3>6. QED
        BY <2>2, <3>3, <3>4, <3>5, PolicyAssumption
    <2>5. QED
      BY <2>3, <2>4
  <1>4. QED
    BY <1>2, <1>3

\* What was kept of a device's history is a sequence of revisions.
Before(d) == IF Known(d) THEN devices[d].condition_history ELSE <<>>

\* With the revision of an acceptance it still is.
LEMMA BeforeType ==
    ASSUME TypeOK, NEW o \in Observation
    PROVE  /\ Append(Before(o.device_id), AcceptedRevision) \in Seq(Nat)
           /\ Before(o.device_id) \in Seq(Nat)
           /\ History(o) = Newest(Append(Before(o.device_id), AcceptedRevision),
                                  HistoryLimit)
  <1>1. AcceptedRevision \in Nat
    BY DEF AcceptedRevision, TypeOK
  <1>2. Before(o.device_id) \in Seq(Nat)
    BY DEF TypeOK, Known, DeviceRecord, Observation, Before
  <1>3. QED
    BY <1>1, <1>2 DEF History, Before

\* Every acceptance builds a record that restore accepts, and spoils no other.
LEMMA RestoreStep ==
    ASSUME RestoreInv, [Next]_vars
    PROVE  RestoreInv'
  <1>1. TypeOK'
    BY TypeStep DEF RestoreInv
  <1>2. CASE UNCHANGED <<devices, result_revision>>
    BY <1>1, <1>2 DEF RestoreInv, RecordsRestorable, RecordRestorable, Known
  <1>3. ASSUME NEW o \in Observation, AcceptObservation(o) PROVE RestoreInv'
    <2>. DEFINE d == o.device_id
    <2>1. /\ d \in DeviceIds /\ devices'[d] = AcceptedRecord(o)
          /\ \A x \in DeviceIds \ {d} : devices'[x] = devices[x]
      BY <1>3 DEF AcceptObservation, RestoreInv, TypeOK, Observation
    <2>2. result_revision \in Nat /\ result_revision' = result_revision + 1
      BY <1>3 DEF AcceptObservation, AcceptedRevision, RestoreInv, TypeOK
    <2>3. Len(History(o)) <= HistoryLimit
      BY BeforeType, NewestType, PolicyAssumption DEF RestoreInv
    <2>4. IsFiniteSet(SeenEpochs(o)) /\ Cardinality(SeenEpochs(o)) <= SourceEpochLimit
      BY <1>3, EvidenceBounded
    <2>5. o.source_epoch \in SeenEpochs(o)
      BY DEF SeenEpochs
    <2>6. /\ AcceptedRecord(o).observation = o
          /\ AcceptedRecord(o).accepted_revision = result_revision + 1
          /\ AcceptedRecord(o).condition_history = History(o)
          /\ AcceptedRecord(o).seen_source_epochs = SeenEpochs(o)
      BY DEF AcceptedRecord, AcceptedRevision
    <2>7. RecordRestorable(d)' /\ IsFiniteSet(devices'[d].seen_source_epochs)
      BY <2>1, <2>2, <2>3, <2>4, <2>5, <2>6 DEF RecordRestorable
    <2>8. ASSUME NEW x \in DeviceIds, x # d, Known(x)'
          PROVE  RecordRestorable(x)' /\ IsFiniteSet(devices'[x].seen_source_epochs)
      <3>1. devices'[x] = devices[x] /\ Known(x)
        BY <2>1, <2>8 DEF Known
      <3>2. RecordRestorable(x) /\ IsFiniteSet(devices[x].seen_source_epochs)
        BY <3>1 DEF RestoreInv, RecordsRestorable
      <3>3. QED
        BY <2>2, <3>1, <3>2 DEF RecordRestorable
    <2>9. RecordsRestorable'
      BY <2>7, <2>8 DEF RecordsRestorable
    <2>10. QED
      BY <1>1, <2>2, <2>9 DEF RestoreInv
  <1>4. QED
    BY <1>2, <1>3 DEF Next, RejectInvalid, RejectObservation, vars

\* The records part of a restorable snapshot holds of every reachable state.
THEOREM RecordsStayRestorable == Spec => []RestoreInv
  <1>1. Init => RestoreInv
    BY PolicyAssumption, BoundAssumption
       DEF Init, RestoreInv, TypeOK, RecordsRestorable, Known
  <1>2. RestoreInv /\ [Next]_vars => RestoreInv'
    BY RestoreStep
  <1>3. QED
    BY <1>1, <1>2, PTL DEF Spec

\* For every policy and every stream of observations, the snapshot FleetHub
\* would save is one its own restore accepts.
THEOREM SnapshotsRestore == Spec => []SnapshotRestorable
  <1>1. TypeOK /\ WatchLogAccountsForRevisions => EventsRestorable
    <2>. SUFFICES ASSUME TypeOK, WatchLogAccountsForRevisions
                  PROVE  EventsRestorable
      OBVIOUS
    <2>1. /\ Len(events) \in Nat /\ event_sequence \in Nat
          /\ \A i \in 1..Len(events) :
                events[i].sequence = event_sequence - Len(events) + i
      BY BoundAssumption DEF TypeOK, WatchLogAccountsForRevisions
    <2>2. \A i \in 1..Len(events) : events[i].sequence <= event_sequence
      BY <2>1
    <2>3. \A i \in 1..(Len(events) - 1) : events[i].sequence < events[i + 1].sequence
      BY <2>1
    <2>4. QED
      BY <2>2, <2>3 DEF EventsRestorable, TypeOK
  <1>2. RestoreInv /\ EventsRestorable => SnapshotRestorable
    BY DEF RestoreInv, RecordsRestorable, SnapshotRestorable, RestoreAccepts
  <1>3. QED
    BY <1>1, <1>2, TypeCorrect, WatchLogAccounts, RecordsStayRestorable, PTL

-----------------------------------------------------------------------------
(* The condition history.  HistoryKeepsTheNewest, entry by entry: the order  *)
(* is between any two entries, since a cut may bring any of them together.   *)

Entries(h, d, A) ==
    /\ \A i, j \in 1..Len(h) : i < j => h[i] < h[j]
    /\ \A i \in 1..Len(h) : \E a \in A : a.device_id = d /\ a.at = h[i]
    /\ \A a \in A : a.device_id = d =>
          \/ \E i \in 1..Len(h) : a.at = h[i]
          \/ Len(h) = HistoryLimit /\ \A i \in 1..Len(h) : a.at < h[i]

HistoryOrdered ==
    \A d \in DeviceIds : Known(d) => Entries(devices[d].condition_history, d, admitted)

HistoryInv == LineageInv /\ RestoreInv /\ HistoryOrdered

\* An acceptance appends its revision, above all earlier ones, and drops the
\* oldest entry when the history was full.
LEMMA HistoryAppends ==
    ASSUME HistoryInv, NEW o \in Observation, AcceptObservation(o)
    PROVE  Entries(History(o), o.device_id, admitted')
  <1>. DEFINE d == o.device_id
              h == Before(d)
              n == Len(h)
              top == result_revision + 1
              log == Append(h, top)
              new == History(o)
  <1>1. /\ d \in DeviceIds /\ result_revision \in Nat
        /\ \A a \in admitted : a.at \in Nat
      BY DEF HistoryInv, RestoreInv, TypeOK, Observation, Lineage
  <1>2. h \in Seq(Nat) /\ log \in Seq(Nat) /\ new = Newest(log, HistoryLimit)
    BY BeforeType DEF HistoryInv, RestoreInv, AcceptedRevision
  <1>3. n \in Nat /\ Len(log) = n + 1 /\ log[n + 1] = top
        /\ \A i \in 1..n : log[i] = h[i]
    BY <1>1, <1>2
  <1>4. n <= HistoryLimit /\ Entries(h, d, admitted)
    <2>1. CASE Known(d)
      <3>1. h = devices[d].condition_history
        BY <2>1 DEF Before
      <3>2. Entries(devices[d].condition_history, d, admitted)
        BY <1>1, <2>1 DEF HistoryInv, HistoryOrdered
      <3>3. Len(devices[d].condition_history) <= HistoryLimit
        BY <1>1, <2>1 DEF HistoryInv, RestoreInv, RecordsRestorable, RecordRestorable
      <3>4. QED
        BY <3>1, <3>2, <3>3
    <2>2. CASE ~Known(d)
      <3>1. h = <<>> /\ n = 0
        BY <2>2 DEF Before
      <3>2. \A a \in admitted : a.device_id # d
        BY <2>2 DEF HistoryInv, LineageInv, AcceptancesNumbered
      <3>3. QED
        BY <3>1, <3>2, PolicyAssumption DEF Entries
    <2>3. QED
      BY <2>1, <2>2
  <1>5. \A a \in admitted : a.at < top
    BY <1>1 DEF HistoryInv, LineageInv, AcceptancesNumbered
  <1>6. /\ admitted' = admitted \cup {LineageOf(o)}
        /\ LineageOf(o).at = top /\ LineageOf(o).device_id = d
    BY DEF AcceptObservation, LineageOf, AcceptedRevision
  <1>. HIDE DEF log, h, n, top, new, d
  <1>7. PICK k \in Nat :
           /\ k = IF Len(log) > HistoryLimit THEN Len(log) - HistoryLimit ELSE 0
           /\ Len(new) = Len(log) - k
           /\ \A i \in 1..(Len(log) - k) : new[i] = log[k + i]
    BY <1>2, NewestEntries, PolicyAssumption
  <1>8. /\ k \in {0, 1} /\ (k = 1 => Len(new) = HistoryLimit)
        /\ Len(new) = n + 1 - k /\ n + 1 - k \in Nat \ {0}
        /\ \A i \in 1..Len(new) : k + i \in 1..(n + 1) /\ new[i] = log[k + i]
    BY <1>3, <1>4, <1>7, PolicyAssumption
  <1>9. \A i \in 1..n : \E a \in admitted : a.device_id = d /\ a.at = h[i]
    BY <1>4 DEF Entries, n
  <1>10. \A i, j \in 1..(n + 1) : i < j => log[i] < log[j]
    <2>. SUFFICES ASSUME NEW i \in 1..(n + 1), NEW j \in 1..(n + 1), i < j
                  PROVE  log[i] < log[j]
      OBVIOUS
    <2>1. i \in 1..n /\ log[i] = h[i]
      BY <1>3
    <2>2. CASE j = n + 1
      BY <1>3, <1>5, <1>9, <2>1, <2>2
    <2>3. CASE j # n + 1
      <3>1. j \in 1..n /\ log[j] = h[j]
        BY <1>3, <2>3
      <3>2. QED
        BY <1>4, <2>1, <3>1 DEF Entries, n
    <2>4. QED
      BY <2>2, <2>3
  <1>11. \A i, j \in 1..Len(new) : i < j => new[i] < new[j]
    <2>. SUFFICES ASSUME NEW i \in 1..Len(new), NEW j \in 1..Len(new), i < j
                  PROVE  new[i] < new[j]
      OBVIOUS
    <2>1. k + i \in 1..(n + 1) /\ k + j \in 1..(n + 1) /\ k + i < k + j
      BY <1>8
    <2>2. QED
      BY <1>8, <1>10, <2>1
  <1>12. \A i \in 1..Len(new) : \E a \in admitted' : a.device_id = d /\ a.at = new[i]
    <2>. SUFFICES ASSUME NEW i \in 1..Len(new)
                  PROVE  \E a \in admitted' : a.device_id = d /\ a.at = new[i]
      OBVIOUS
    <2>1. CASE k + i = n + 1
      BY <1>3, <1>6, <1>8, <2>1
    <2>2. CASE k + i # n + 1
      <3>1. k + i \in 1..n
        BY <1>3, <1>8, <2>2
      <3>2. new[i] = h[k + i]
        BY <1>3, <1>8, <3>1
      <3>3. QED
        BY <1>6, <1>9, <3>1, <3>2
    <2>3. QED
      BY <2>1, <2>2
  <1>13. ASSUME NEW a \in admitted', a.device_id = d
         PROVE  \/ \E i \in 1..Len(new) : a.at = new[i]
                \/ Len(new) = HistoryLimit /\ \A i \in 1..Len(new) : a.at < new[i]
    <2>1. new[Len(new)] = top /\ Len(new) \in 1..Len(new)
      <3>1. Len(new) \in 1..Len(new) /\ k + Len(new) = n + 1
        BY <1>3, <1>8
      <3>2. QED
        BY <1>3, <1>8, <3>1
    <2>2. CASE a = LineageOf(o)
      BY <1>6, <2>1, <2>2
    <2>3. CASE a \in admitted /\ \E j \in 1..n : a.at = h[j]
      <3>1. PICK j \in 1..n : a.at = h[j]
        BY <2>3
      <3>2. CASE j > k
        <4>1. j - k \in 1..Len(new) /\ k + (j - k) = j
          BY <1>3, <1>8, <3>2
        <4>2. new[j - k] = h[j]
          BY <1>3, <1>8, <4>1
        <4>3. QED
          BY <3>1, <4>1, <4>2
      <3>3. CASE ~(j > k)
        <4>1. k = 1 /\ j = 1
          BY <1>3, <1>8, <3>3
        <4>2. \A i \in 1..Len(new) : a.at < new[i]
          <5>. SUFFICES ASSUME NEW i \in 1..Len(new) PROVE a.at < new[i]
            OBVIOUS
          <5>1. k + i \in 1..(n + 1) /\ j \in 1..(n + 1) /\ j < k + i
            BY <1>3, <1>8, <4>1
          <5>2. log[j] < log[k + i]
            BY <1>10, <5>1
          <5>3. QED
            BY <1>3, <1>8, <3>1, <5>2
        <4>3. QED
          BY <1>8, <4>1, <4>2
      <3>4. QED
        BY <3>2, <3>3
    <2>4. CASE /\ a \in admitted
               /\ n = HistoryLimit /\ \A j \in 1..n : a.at < h[j]
      <3>1. k = 1
        BY <1>3, <1>7, <2>4, PolicyAssumption
      <3>2. \A i \in 1..Len(new) : a.at < new[i]
        <4>. SUFFICES ASSUME NEW i \in 1..Len(new) PROVE a.at < new[i]
          OBVIOUS
        <4>1. CASE k + i = n + 1
          BY <1>3, <1>5, <1>8, <2>4, <4>1
        <4>2. CASE k + i # n + 1
          <5>1. k + i \in 1..n
            BY <1>3, <1>8, <4>2
          <5>2. new[i] = h[k + i]
            BY <1>3, <1>8, <5>1
          <5>3. QED
            BY <2>4, <5>1, <5>2
        <4>3. QED
          BY <4>1, <4>2
      <3>3. QED
        BY <1>8, <3>1, <3>2
    <2>5. a \in admitted => \/ \E j \in 1..n : a.at = h[j]
                            \/ n = HistoryLimit /\ \A j \in 1..n : a.at < h[j]
      BY <1>4, <1>13 DEF Entries, n
    <2>6. QED
      BY <1>6, <2>2, <2>3, <2>4, <2>5
  <1>14. QED
    BY <1>11, <1>12, <1>13 DEF Entries, new, d

\* The inductive step of HistoryInv.
LEMMA HistoryStep ==
    ASSUME HistoryInv, [Next]_vars
    PROVE  HistoryInv'
  <1>1. LineageInv' /\ RestoreInv'
    BY LineageStep, RestoreStep DEF HistoryInv
  <1>2. CASE UNCHANGED <<devices, admitted>>
    BY <1>1, <1>2 DEF HistoryInv, HistoryOrdered, Known
  <1>3. ASSUME NEW o \in Observation, AcceptObservation(o) PROVE HistoryInv'
    <2>. DEFINE d == o.device_id
    <2>1. /\ d \in DeviceIds /\ devices'[d] = AcceptedRecord(o)
          /\ \A x \in DeviceIds \ {d} : devices'[x] = devices[x]
          /\ admitted' = admitted \cup {LineageOf(o)} /\ LineageOf(o).device_id = d
      BY <1>3 DEF AcceptObservation, HistoryInv, RestoreInv, TypeOK, Observation,
                  LineageOf
    <2>2. Entries(devices'[d].condition_history, d, admitted')
      <3>1. devices'[d].condition_history = History(o)
        BY <2>1 DEF AcceptedRecord
      <3>2. Entries(History(o), d, admitted')
        BY <1>3, HistoryAppends
      <3>3. QED
        BY <3>1, <3>2
    <2>3. ASSUME NEW x \in DeviceIds, x # d, Known(x)'
          PROVE  Entries(devices'[x].condition_history, x, admitted')
      <3>1. devices'[x] = devices[x] /\ Known(x)
        BY <2>1, <2>3 DEF Known
      <3>2. Entries(devices[x].condition_history, x, admitted)
        BY <3>1 DEF HistoryInv, HistoryOrdered
      <3>3. \A a \in admitted' : a.device_id = x => a \in admitted
        BY <2>1, <2>3
      <3>4. QED
        BY <2>1, <3>1, <3>2, <3>3 DEF Entries
    <2>4. HistoryOrdered'
      BY <2>2, <2>3 DEF HistoryOrdered
    <2>5. QED
      BY <1>1, <2>4 DEF HistoryInv
  <1>4. QED
    BY <1>2, <1>3 DEF Next, RejectInvalid, RejectObservation, vars

\* For every history limit and every stream of observations, the condition
\* history of a device is the newest part of what was accepted for it, in order.
THEOREM HistoryIsNewest == Spec => []HistoryKeepsTheNewest
  <1>1. Init => HistoryInv
    BY PolicyAssumption, BoundAssumption
       DEF Init, HistoryInv, LineageInv, RestoreInv, TypeOK, AcceptancesNumbered,
           RecordOnTop, EpochIsLast, LineageAdvances, EpochNeverReturns,
           RecordsRestorable, HistoryOrdered, Known
  <1>2. HistoryInv /\ [Next]_vars => HistoryInv'
    BY HistoryStep
  <1>3. HistoryInv => HistoryKeepsTheNewest
    <2>. SUFFICES ASSUME HistoryInv, NEW d \in DeviceIds, Known(d)
                  PROVE  LET h == devices[d].condition_history
                             all == {a.at : a \in {x \in admitted : x.device_id = d}}
                             kept == {h[i] : i \in 1..Len(h)}
                         IN  /\ \A i \in 1..(Len(h) - 1) : h[i] < h[i + 1]
                             /\ kept \subseteq all
                             /\ \A x \in all \ kept, y \in kept : x < y
                             /\ all \ kept # {} => Len(h) = HistoryLimit
      BY DEF HistoryKeepsTheNewest
    <2>. DEFINE h == devices[d].condition_history
                kept == {h[i] : i \in 1..Len(h)}
                all == {a.at : a \in {x \in admitted : x.device_id = d}}
    <2>1. Len(h) \in Nat
      BY DEF HistoryInv, RestoreInv, TypeOK, Known, DeviceRecord
    <2>2. Entries(h, d, admitted)
      BY DEF HistoryInv, HistoryOrdered
    <2>. HIDE DEF h
    <2>3. \A i \in 1..(Len(h) - 1) : h[i] < h[i + 1]
      BY <2>1, <2>2 DEF Entries
    <2>4. kept \subseteq all
      BY <2>2 DEF Entries
    <2>5. ASSUME NEW x \in all \ kept
          PROVE  Len(h) = HistoryLimit /\ \A i \in 1..Len(h) : x < h[i]
      BY <2>2, <2>5 DEF Entries
    <2>6. QED
      BY <2>3, <2>4, <2>5 DEF h
  <1>4. QED
    BY <1>1, <1>2, <1>3, PTL DEF Spec

-----------------------------------------------------------------------------
(***************************************************************************)
(* SavedViews.  Nobody has heard of a revision later than the hub's, so a  *)
(* change always gets a revision that no console and no message names; and *)
(* the slot a restart takes holds the hub's collection or one of the next  *)
(* revision.                                                               *)
(***************************************************************************)

Fits(c) == IsFiniteSet(Existing(c)) /\ Cardinality(Existing(c)) <= MaxSavedViews

\* The type invariant, with what keeps the limit inductive.
ViewsTyped ==
    /\ running \in BOOLEAN /\ hub \in Collection
    /\ disk \in [newest : Collection, previous : Collection, ahead : BOOLEAN]
    /\ shown \in [Consoles -> Collection]
    /\ sent \subseteq Request /\ replies \subseteq Reply
    /\ crashes \in 0..MaxCrashes
    /\ Fits(hub) /\ Fits(disk.newest)

NobodyIsAhead == \A c \in KnownCollections : c.revision <= hub.revision

SlotIsNext == disk.newest = hub \/ disk.newest.revision = hub.revision + 1

ViewsInv == ViewsTyped /\ NobodyIsAhead /\ SlotIsNext /\ RevisionNamesCollection

\* A change is a collection of the next revision that fits
\* (upsert_saved_view and delete_saved_view).
LEMMA ChangeFits ==
    ASSUME NEW r \in Request, hub \in Collection, Fits(hub), Changes(r)
    PROVE  /\ With(hub, r) \in Collection /\ Fits(With(hub, r))
           /\ With(hub, r).revision = hub.revision + 1
           /\ With(hub, r).views = [hub.views EXCEPT ![r.view_id] = r.view]
<1> DEFINE w == With(hub, r)
<1>1. w \in Collection /\ w.revision = hub.revision + 1
      /\ w.views = [hub.views EXCEPT ![r.view_id] = r.view]
  BY BoundsAssumption DEF Changes, With, Collection, Request
<1>2. CASE r.view = NoView
  <2>1. Existing(w) = Existing(hub) \ {r.view_id}
    BY <1>1, <1>2 DEF Existing, Collection, Request
  <2>2. /\ IsFiniteSet(Existing(w))
        /\ Cardinality(Existing(w)) <= Cardinality(Existing(hub))
    BY <2>1, FS_Subset DEF Fits
  <2>3. Cardinality(Existing(hub)) \in Nat /\ Cardinality(Existing(w)) \in Nat
    BY <2>2, FS_CardinalityType DEF Fits
  <2> QED
    BY <1>1, <2>2, <2>3, BoundsAssumption DEF Fits
<1>3. CASE r.view # NoView
  <2>1. Existing(w) = Existing(hub) \cup {r.view_id}
    BY <1>1, <1>3 DEF Existing, Collection, Request
  <2>2. CASE r.view_id \in Existing(hub)
    <3>1. Existing(w) = Existing(hub)
      BY <2>1, <2>2
    <3> QED
      BY <1>1, <3>1 DEF Fits
  <2>3. CASE r.view_id \notin Existing(hub)
    <3>1. Cardinality(Existing(hub)) < MaxSavedViews
      BY <1>3, <2>3 DEF Changes
    <3>2. /\ IsFiniteSet(Existing(w))
          /\ Cardinality(Existing(w)) = Cardinality(Existing(hub)) + 1
      BY <2>1, <2>3, FS_AddElement DEF Fits
    <3>3. Cardinality(Existing(hub)) \in Nat
      BY FS_CardinalityType DEF Fits
    <3> QED
      BY <1>1, <3>1, <3>2, <3>3, BoundsAssumption DEF Fits
  <2> QED
    BY <2>2, <2>3
<1> QED
  BY <1>1, <1>2, <1>3

\* The invariant of the saved views holds at the start.
LEMMA ViewsStart == ViewsInit => ViewsInv
<1> SUFFICES ASSUME ViewsInit PROVE ViewsInv
  OBVIOUS
<1>1. Empty \in Collection
  BY BoundsAssumption DEF Empty, Collection
<1>2. Existing(Empty) = {}
  BY DEF Existing, Empty
<1>3. Fits(Empty)
  BY <1>2, FS_EmptySet, BoundsAssumption DEF Fits
<1>4. ViewsTyped
  BY <1>1, <1>3, BoundsAssumption DEF ViewsInit, ViewsTyped
<1>5. \A c \in KnownCollections : c = Empty
  BY DEF ViewsInit, KnownCollections
<1> QED
  BY <1>1, <1>4, <1>5 DEF ViewsInv, NobodyIsAhead, SlotIsNext, RevisionNamesCollection, ViewsInit,
                          Collection

\* Whatever is known is a collection with a revision.
LEMMA KnownAreCollections == ViewsTyped => KnownCollections \subseteq Collection
BY DEF ViewsTyped, KnownCollections, Request, Reply

\* When nothing becomes known but the hub's own collection, which keeps its
\* revision or gets a later one, the revisions still name the collections.
LEMMA NothingElseIsNews ==
    ASSUME ViewsInv, hub' \in Collection,
           KnownCollections' \subseteq KnownCollections \cup {hub'},
           hub' = hub \/ hub'.revision = hub.revision + 1
    PROVE  NobodyIsAhead' /\ RevisionNamesCollection'
<1>1. KnownCollections \subseteq Collection /\ hub \in KnownCollections
  BY KnownAreCollections DEF ViewsInv, KnownCollections
<1>2. \A c \in KnownCollections : c.revision <= hub.revision /\ c.revision \in Nat
  BY <1>1 DEF ViewsInv, NobodyIsAhead, Collection
<1>3. hub.revision \in Nat /\ hub'.revision \in Nat
  BY <1>1 DEF Collection
<1>4. CASE hub' = hub
  BY <1>1, <1>4 DEF ViewsInv, NobodyIsAhead, RevisionNamesCollection
<1>5. CASE hub'.revision = hub.revision + 1
  <2>1. \A c \in KnownCollections : c.revision < hub'.revision
    BY <1>2, <1>3, <1>5
  <2>2. NobodyIsAhead'
    BY <1>3, <2>1, <1>2 DEF NobodyIsAhead
  <2>3. RevisionNamesCollection'
    <3> SUFFICES ASSUME NEW c1 \in KnownCollections', NEW c2 \in KnownCollections', c1.revision = c2.revision
                 PROVE  c1.views = c2.views
      BY DEF RevisionNamesCollection
    <3>1. CASE c1 \in KnownCollections /\ c2 \in KnownCollections
      BY <3>1 DEF ViewsInv, RevisionNamesCollection
    <3>2. CASE c1 \notin KnownCollections \/ c2 \notin KnownCollections
      BY <3>2, <2>1, <1>2, <1>3
    <3> QED
      BY <3>1, <3>2
  <2> QED
    BY <2>2, <2>3
<1> QED
  BY <1>4, <1>5

\* Every step keeps it.
LEMMA ViewsStep == ViewsInv /\ [ViewsNext]_viewsVars => ViewsInv'
<1> SUFFICES ASSUME ViewsInv, [ViewsNext]_viewsVars PROVE ViewsInv'
  OBVIOUS
<1> USE DEF ViewsInv
<1>1. ASSUME NEW r \in sent, NEW outcome \in {"done", "late", "failed"}, Serve(r, outcome)
      PROVE  ViewsInv'
  <2>0. r \in Request /\ UNCHANGED <<running, shown, replies, crashes>> /\ sent' \subseteq sent
    BY <1>1 DEF Serve, ViewsTyped
  <2>1. CASE ~Changes(r)
    <3>1. UNCHANGED <<hub, disk>>
      BY <1>1, <2>1 DEF Serve
    <3>2. ViewsTyped' /\ SlotIsNext'
      BY <2>0, <3>1 DEF ViewsTyped, SlotIsNext, Fits, Existing
    <3>3. hub' \in Collection /\ KnownCollections' \subseteq KnownCollections \cup {hub'}
      BY <2>0, <3>1 DEF ViewsTyped, KnownCollections
    <3> QED
      BY <3>1, <3>2, <3>3, NothingElseIsNews
  <2>2. CASE Changes(r)
    <3> DEFINE w == With(hub, r)
    <3>1. w \in Collection /\ Fits(w) /\ w.revision = hub.revision + 1
      BY <2>0, <2>2, ChangeFits DEF ViewsTyped
    <3>2. disk' = Persisted(w, outcome) /\ hub' = IF outcome = "done" THEN w ELSE hub
      BY <1>1, <2>2 DEF Serve
    <3>3. Fits(hub') /\ hub' \in Collection
      BY <3>1, <3>2 DEF ViewsTyped
    <3>4. /\ disk' \in [newest : Collection, previous : Collection, ahead : BOOLEAN]
          /\ disk'.newest = IF outcome = "failed" THEN disk.newest ELSE w
      BY <3>1, <3>2 DEF ViewsTyped, Persisted
    <3>5. Fits(disk'.newest)
      BY <3>1, <3>4 DEF ViewsTyped
    <3>6. ViewsTyped'
      BY <2>0, <3>3, <3>4, <3>5 DEF ViewsTyped, Fits, Existing
    <3>7. SlotIsNext'
      BY <3>1, <3>2, <3>4 DEF SlotIsNext
    <3>8. KnownCollections' \subseteq KnownCollections \cup {hub'}
      BY <2>0 DEF KnownCollections
    <3> QED
      BY <3>1, <3>2, <3>3, <3>6, <3>7, <3>8, NothingElseIsNews
  <2> QED
    BY <2>1, <2>2
<1>2. ASSUME NEW c \in Consoles, NEW v \in ViewIds, NEW view \in Views \cup {NoView},
             Send(c, v, view)
      PROVE  ViewsInv'
  <2>1. UNCHANGED <<running, hub, disk, shown, replies, crashes>>
    BY <1>2 DEF Send
  <2> DEFINE request == [view_id |-> v, view |-> view, seen |-> shown[c]]
  <2>2. request \in Request /\ request.seen \in KnownCollections /\ sent' = sent \cup {request}
    BY <1>2 DEF Send, Request, ViewsTyped, KnownCollections
  <2>3. ViewsTyped' /\ SlotIsNext'
    BY <2>1, <2>2 DEF ViewsTyped, SlotIsNext, Fits, Existing
  <2>4. hub' \in Collection /\ KnownCollections' \subseteq KnownCollections \cup {hub'}
    BY <2>1, <2>2 DEF ViewsTyped, KnownCollections
  <2> QED
    BY <2>1, <2>3, <2>4, NothingElseIsNews
<1>3. ASSUME NEW c \in Consoles, Answer(c) PROVE ViewsInv'
  <2>1. UNCHANGED <<running, hub, disk, shown, sent, crashes>>
    BY <1>3 DEF Answer
  <2> DEFINE reply == [to |-> c, collection |-> hub]
  <2>2. reply \in Reply /\ reply.collection = hub /\ replies' = replies \cup {reply}
    BY <1>3 DEF Answer, Reply, ViewsTyped
  <2>3. ViewsTyped' /\ SlotIsNext'
    BY <2>1, <2>2 DEF ViewsTyped, SlotIsNext, Fits, Existing
  <2>4. hub' \in Collection /\ KnownCollections' \subseteq KnownCollections \cup {hub'}
    BY <2>1, <2>2 DEF ViewsTyped, KnownCollections
  <2> QED
    BY <2>1, <2>3, <2>4, NothingElseIsNews
<1>4. ASSUME NEW reply \in replies, Show(reply) PROVE ViewsInv'
  <2>1. UNCHANGED <<running, hub, disk, sent, crashes>> /\ replies' \subseteq replies
    BY <1>4 DEF Show
  <2>2. reply.to \in Consoles /\ reply.collection \in Collection /\ reply.collection \in KnownCollections
    BY <1>4 DEF ViewsTyped, Reply, KnownCollections
  <2>3. shown' = [shown EXCEPT ![reply.to] = reply.collection]
    BY <1>4 DEF Show
  <2>4. ViewsTyped' /\ SlotIsNext'
    BY <2>1, <2>2, <2>3 DEF ViewsTyped, SlotIsNext, Fits, Existing
  <2>5. \A c \in Consoles : shown'[c] = shown[c] \/ shown'[c] = reply.collection
    BY <2>2, <2>3 DEF ViewsTyped
  <2>6. hub' \in Collection /\ KnownCollections' \subseteq KnownCollections \cup {hub'}
    BY <2>1, <2>2, <2>5 DEF ViewsTyped, KnownCollections
  <2> QED
    BY <2>1, <2>4, <2>6, NothingElseIsNews
<1>5. ASSUME NEW message \in sent \cup replies, Lose(message) PROVE ViewsInv'
  <2>1. UNCHANGED <<running, hub, disk, shown, crashes>> /\ sent' \subseteq sent
        /\ replies' \subseteq replies
    BY <1>5 DEF Lose
  <2>2. ViewsTyped' /\ SlotIsNext'
    BY <2>1 DEF ViewsTyped, SlotIsNext, Fits, Existing
  <2>3. hub' \in Collection /\ KnownCollections' \subseteq KnownCollections \cup {hub'}
    BY <2>1 DEF ViewsTyped, KnownCollections
  <2> QED
    BY <2>1, <2>2, <2>3, NothingElseIsNews
<1>6. CASE Crash
  <2>1. UNCHANGED <<hub, disk, shown, sent, replies>>
    BY <1>6 DEF Crash
  <2>4. running' \in BOOLEAN /\ crashes' \in 0..MaxCrashes
    <3>1. crashes < MaxCrashes /\ crashes' = crashes + 1 /\ running' = FALSE
      BY <1>6, Zenon DEF Crash
    <3>2. crashes \in 0..MaxCrashes
      BY DEF ViewsTyped
    <3>3. crashes' \in 0..MaxCrashes
      BY <3>1, <3>2, BoundsAssumption
    <3> QED
      BY <3>1, <3>3
  <2>2. ViewsTyped' /\ SlotIsNext'
    BY <2>1, <2>4 DEF ViewsTyped, SlotIsNext, Fits, Existing
  <2>3. hub' \in Collection /\ KnownCollections' \subseteq KnownCollections \cup {hub'}
    BY <2>1 DEF ViewsTyped, KnownCollections
  <2> QED
    BY <2>1, <2>2, <2>3, NothingElseIsNews
<1>7. CASE Restart
  <2>1. /\ running' = TRUE /\ hub' = disk.newest /\ disk'.newest = disk.newest
        /\ disk' \in [newest : Collection, previous : Collection, ahead : BOOLEAN]
        /\ UNCHANGED <<shown, sent, replies, crashes>>
    BY <1>7 DEF Restart, ViewsTyped
  <2>2. ViewsTyped' /\ SlotIsNext'
    BY <2>1 DEF ViewsTyped, SlotIsNext, Fits, Existing
  <2>3. hub' \in Collection /\ KnownCollections' \subseteq KnownCollections \cup {hub'}
    BY <2>1 DEF ViewsTyped, KnownCollections
  <2>4. hub' = hub \/ hub'.revision = hub.revision + 1
    BY <2>1 DEF SlotIsNext
  <2> QED
    BY <2>2, <2>3, <2>4, NothingElseIsNews
<1>8. CASE UNCHANGED viewsVars
  BY <1>8 DEF viewsVars, ViewsTyped, SlotIsNext, Fits, Existing, NobodyIsAhead,
              RevisionNamesCollection, KnownCollections
<1> QED
  BY <1>1, <1>2, <1>3, <1>4, <1>5, <1>6, <1>7, <1>8 DEF ViewsNext

\* It holds in every state.
LEMMA ViewsInvariant == ViewsSpec => []ViewsInv
BY ViewsStart, ViewsStep, PTL DEF ViewsSpec

\* Every variable keeps its type and the stored views stay within their limit.
THEOREM ViewsTypeCorrect == ViewsSpec => []ViewsTypeOK
<1>1. ViewsInv => ViewsTypeOK
  BY DEF ViewsInv, ViewsTyped, Fits, ViewsTypeOK
<1> QED
  BY <1>1, ViewsInvariant, PTL

\* A revision stands for one collection, for the hub, every console and every
\* message, however many there are.
THEOREM RevisionsNameCollections == ViewsSpec => []RevisionNamesCollection
<1>1. ViewsInv => RevisionNamesCollection
  BY DEF ViewsInv
<1> QED
  BY <1>1, ViewsInvariant, PTL

\* There are no lost updates: what a console overwrites is what it was shown
\* (the expected_revision of upsert_saved_view and delete_saved_view).
THEOREM NoLostUpdate == ViewsSpec => NothingUnseenIsOverwritten
<1> DEFINE Unseen ==
      running /\ hub'.views # hub.views =>
          \E r \in sent :
              /\ r.seen.views = hub.views
              /\ hub'.views = [hub.views EXCEPT ![r.view_id] = r.view]
<1>1. ASSUME ViewsInv, [ViewsNext]_viewsVars PROVE Unseen
  <2> SUFFICES ASSUME running, hub'.views # hub.views
               PROVE  \E r \in sent :
                        /\ r.seen.views = hub.views
                        /\ hub'.views = [hub.views EXCEPT ![r.view_id] = r.view]
    OBVIOUS
  <2>1. \E r \in sent, outcome \in {"done", "late", "failed"} : Serve(r, outcome)
    BY <1>1 DEF ViewsNext, viewsVars, Send, Answer, Show, Lose, Crash, Restart
  <2>2. PICK r \in sent, outcome \in {"done", "late", "failed"} : Serve(r, outcome)
    BY <2>1
  <2>3. Changes(r) /\ hub' = With(hub, r)
    BY <2>2 DEF Serve
  <2>4. hub'.views = [hub.views EXCEPT ![r.view_id] = r.view]
    BY <2>3 DEF With
  <2>5. r.seen \in KnownCollections /\ hub \in KnownCollections /\ r.seen.revision = hub.revision
    BY <2>3 DEF KnownCollections, Changes
  <2>6. r.seen.views = hub.views
    BY <1>1, <2>5 DEF ViewsInv, RevisionNamesCollection
  <2> QED
    BY <2>4, <2>6
<1>2. ViewsInv /\ [ViewsNext]_viewsVars => [Unseen]_viewsVars
  BY <1>1
<1> QED
  BY <1>2, ViewsInvariant, PTL DEF ViewsSpec, NothingUnseenIsOverwritten

\* The revision of the collection never goes back, not by a restart either.
THEOREM RevisionOnlyGrows == ViewsSpec => RevisionNeverGoesBack
<1>1. ASSUME ViewsInv, [ViewsNext]_viewsVars PROVE hub'.revision >= hub.revision
  <2>0. hub.revision \in Nat
    BY <1>1 DEF ViewsInv, ViewsTyped, Collection
  <2>1. CASE \E r \in sent, outcome \in {"done", "late", "failed"} : Serve(r, outcome)
    BY <2>0, <2>1 DEF Serve, With
  <2>2. CASE Restart
    BY <1>1, <2>0, <2>2 DEF Restart, ViewsInv, SlotIsNext
  <2>3. CASE UNCHANGED hub
    BY <2>0, <2>3
  <2> QED
    BY <1>1, <2>1, <2>2, <2>3 DEF ViewsNext, viewsVars, Send, Answer, Show, Lose, Crash
<1>2. ViewsInv /\ [ViewsNext]_viewsVars => [hub'.revision >= hub.revision]_viewsVars
  BY <1>1
<1> QED
  BY <1>2, ViewsInvariant, PTL DEF ViewsSpec, RevisionNeverGoesBack

-----------------------------------------------------------------------------
(***************************************************************************)
(* DurableStore implements AcknowledgedState, for every set of states,     *)
(* every largest generation and any number of damaged files.               *)
(***************************************************************************)

\* The state open would restore from the slots t.
Restores(t, v) ==
    IF Found(t) THEN \E s \in NewestSlots(t) : t[s].value = v ELSE v = Fresh

\* Slots written by persist: each file is whole and in the slot of its parity,
\* and the generations of two files follow one another.
WellKept(t) ==
    /\ \A s \in 0..1 : t[s] # NoFile => t[s].synced /\ Slot(t[s].generation) = s
    /\ t[0] # NoFile /\ t[1] # NoFile =>
          \/ t[0].generation = t[1].generation + 1
          \/ t[1].generation = t[0].generation + 1

\* The slots t hold generation g of value v, which the other slot does not
\* depend on: it is removed next.
Holds(t, g, v) ==
    IF g = 0 THEN t[0] = NoFile /\ v = Fresh /\ (t[1] # NoFile => t[1].generation = 1)
    ELSE t[Slot(g)] # NoFile /\ t[Slot(g)].generation = g /\ t[Slot(g)].value = v

TemporaryIs(synced) ==
    temporary = [generation |-> generation + 1, value |-> candidate, synced |-> synced]

\* What the steps of a persist have done so far.
PersistProgress ==
    /\ step = "sync" => TemporaryIs(FALSE)
    /\ step \in {"remove", "rename"} => TemporaryIs(TRUE)
    /\ step = "rename" => slots[TargetSlot] = NoFile
    /\ step = "flush" =>
          slots[TargetSlot] = [generation |-> generation + 1, value |-> candidate,
                           synced |-> TRUE]
    /\ step # "idle" => up /\ candidate \in possible

RestoresPossible(t) == \A v \in Values : Restores(t, v) => v \in possible

-----------------------------------------------------------------------------
\* The slots of two generations that follow one another are the two slots.
LEMMA Alternate == \A g \in Nat : Slot(g) \in 0..1 /\ Slot(g + 1) = 1 - Slot(g)
BY DEF Slot

\* A file is none of the values that stand for its absence.
LEMMA FileFields ==
    ASSUME NEW f \in File \cup {NoFile}, f # NoFile
    PROVE  /\ f \in File
           /\ f.generation \in 1..MaxGeneration /\ f.value \in Values
           /\ f.synced \in BOOLEAN
BY DEF File

\* The file a persist writes.
LEMMA WrittenFile ==
    ASSUME generation + 1 \in 1..MaxGeneration, candidate \in Values,
           NEW f, f = [generation |-> generation + 1, value |-> candidate,
                       synced |-> TRUE]
    PROVE  /\ f \in File /\ f # NoFile
           /\ f.generation = generation + 1 /\ f.value = candidate /\ f.synced = TRUE
<1>1. f \in File
  BY DEF File
<1>2. f # NoFile
  BY <1>1, NoFileAssumption
<1>3. f.generation = generation + 1 /\ f.value = candidate /\ f.synced = TRUE
  OBVIOUS
<1> QED BY <1>1, <1>2, <1>3

\* What a slot holds is what the slots of every survivor may hold.
LEMMA SlotsHold ==
    ASSUME NEW t \in Slots, NEW s \in 0..1
    PROVE  t[s] \in File \cup {NoFile}
BY DEF Slots

\* Of well kept slots the newest one is the only one, or the later one.
LEMMA NewestOf ==
    ASSUME NEW t \in Slots, WellKept(t),
           NEW s \in 0..1, t[s] # NoFile,
           \/ t[1 - s] = NoFile
           \/ t[s].generation = t[1 - s].generation + 1
    PROVE  NewestSlots(t) = {s} /\ Found(t)
<1> s = 0 \/ s = 1
  OBVIOUS
<1>1. \A r \in 0..1 : t[r] # NoFile => t[r].generation \in 1..MaxGeneration
  BY SlotsHold, FileFields
<1>2. Readable(t) = {r \in 0..1 : t[r] # NoFile}
  BY DEF WellKept, Readable
<1>3. Found(t)
  BY DEF Found
<1> QED
  BY <1>1, <1>2, <1>3, GenerationAssumption DEF NewestSlots

\* Well kept slots have a newest state, or there is none.
LEMMA SomeNewest ==
    ASSUME NEW t \in Slots, WellKept(t), Found(t)
    PROVE  \E s \in 0..1 :
              /\ t[s] # NoFile /\ NewestSlots(t) = {s}
              /\ t[1 - s] = NoFile \/ t[s].generation = t[1 - s].generation + 1
<1>1. CASE t[0] # NoFile /\ t[1] # NoFile
  <2>1. t[0].generation = t[1].generation + 1 \/ t[1].generation = t[0].generation + 1
    BY <1>1 DEF WellKept
  <2>2. CASE t[0].generation = t[1].generation + 1
    BY <1>1, <2>2, NewestOf
  <2>3. CASE t[1].generation = t[0].generation + 1
    BY <1>1, <2>3, NewestOf
  <2> QED BY <2>1, <2>2, <2>3
<1>2. CASE t[0] # NoFile /\ t[1] = NoFile
  BY <1>2, NewestOf
<1>3. CASE t[0] = NoFile /\ t[1] # NoFile
  BY <1>3, NewestOf
<1> QED
  BY <1>1, <1>2, <1>3 DEF Found

-----------------------------------------------------------------------------
(* Types.                                                                    *)

\* A temporary that is about to be synced has been written, and only a running
\* process persists.
StoreTyped ==
    /\ StoreTypeOK
    /\ step = "sync" => temporary # NoFile
    /\ step # "idle" => up

\* Every step of the store keeps the types.
LEMMA StoreTypeStep == StoreTyped /\ [StoreNext]_storeVars => StoreTyped'
<1> SUFFICES ASSUME StoreTyped, [StoreNext]_storeVars PROVE StoreTyped'
  OBVIOUS
<1> USE GenerationAssumption, DamagesAssumption, ValuesAssumption
<1>0. /\ TargetSlot \in 0..1
      /\ \A s \in 0..1 : slots[s] \in File \cup {NoFile}
  BY Alternate, SlotsHold DEF StoreTyped, StoreTypeOK, TargetSlot
<1>1. ASSUME NEW v \in Values, Begin(v) PROVE StoreTyped'
  BY <1>1 DEF Begin, files, StoreTyped, StoreTypeOK, Steps
<1>2. CASE WriteTemporary
  <2>1. temporary' \in File
    BY <1>2 DEF WriteTemporary, At, StoreTyped, StoreTypeOK, File
  <2>2. temporary' # NoFile
    BY <2>1, NoFileAssumption
  <2> QED BY <1>2, <2>1, <2>2 DEF WriteTemporary, At, StoreTyped, StoreTypeOK, Steps
<1>3. CASE SyncTemporary
  <2>1. temporary \in File
    BY <1>3 DEF SyncTemporary, At, StoreTyped, StoreTypeOK
  <2>2. temporary' \in File
    BY <1>3, <2>1 DEF SyncTemporary, File
  <2> QED BY <1>3, <2>2 DEF SyncTemporary, At, StoreTyped, StoreTypeOK, Steps
<1>4. CASE RemoveTarget
  <2>1. slots' \in Slots
    BY <1>0, <1>4 DEF RemoveTarget, StoreTyped, StoreTypeOK, Slots
  <2> QED BY <1>4, <2>1 DEF RemoveTarget, At, StoreTyped, StoreTypeOK, Steps
<1>5. CASE RenameTemporary
  <2>1. slots' \in Slots
    BY <1>0, <1>5 DEF RenameTemporary, StoreTyped, StoreTypeOK, Slots
  <2> QED BY <1>5, <2>1 DEF RenameTemporary, At, StoreTyped, StoreTypeOK, Steps
<1>6. CASE FlushAndAcknowledge
  BY <1>6 DEF FlushAndAcknowledge, StoreTyped, StoreTypeOK, Steps
<1>7. CASE PersistFails
  BY <1>7 DEF PersistFails, files, StoreTyped, StoreTypeOK, Steps
<1>8. CASE Killed
  BY <1>8 DEF Killed, files, StoreTyped, StoreTypeOK, Steps
<1>9. CASE PowerLoss
  BY <1>9 DEF PowerLoss, StoreTyped, StoreTypeOK, Steps
<1>10. ASSUME NEW s \in 0..1, Damage(s) PROVE StoreTyped'
  <2>1. ASSUME NEW t \in Slots, t[s] = slots[s] PROVE Damaged(t, s) \in Slots
    <3>1. t[s] \in File
      BY <1>0, <1>10, <2>1 DEF Damage
    <3>2. [t[s] EXCEPT !.synced = FALSE] \in File
      BY <3>1 DEF File
    <3> QED BY <3>2 DEF Damaged, Slots
  <2>2. slots' \in Slots
    BY <1>10, <2>1 DEF Damage, StoreTyped, StoreTypeOK
  <2>3. survivors' \subseteq Slots
    BY <1>10, <2>1 DEF Damage, StoreTyped, StoreTypeOK
  <2> QED BY <1>10, <2>2, <2>3 DEF Damage, StoreTyped, StoreTypeOK
<1>11. CASE Start
  <2>1. generation' \in 0..MaxGeneration /\ visible' \in Values
    <3>1. CASE StartFresh
      BY <3>1 DEF StartFresh
    <3>2. ASSUME NEW s \in NewestSlots(slots), generation' = slots[s].generation,
                 visible' = slots[s].value
          PROVE  generation' \in 0..MaxGeneration /\ visible' \in Values
      <4>1. s \in 0..1 /\ slots[s] # NoFile
        BY DEF NewestSlots, Readable
      <4> QED BY <1>0, <3>2, <4>1, FileFields
    <3> QED BY <1>11, <3>1, <3>2 DEF Start, StartRestored
  <2> QED BY <1>11, <2>1 DEF Start, files, StoreTyped, StoreTypeOK
<1>12. CASE UNCHANGED storeVars
  BY <1>12 DEF storeVars, StoreTyped, StoreTypeOK
<1> QED
  BY <1>1, <1>2, <1>3, <1>4, <1>5, <1>6, <1>7, <1>8, <1>9, <1>10, <1>11, <1>12 DEF StoreNext

\* Every variable keeps its type: no persist writes a generation beyond the
\* largest, and no start reads a file that is not there.
THEOREM StoreTypeCorrect == StoreSpec => []StoreTypeOK
<1>1. StoreInit => StoreTyped
  BY ValuesAssumption, GenerationAssumption, DamagesAssumption
     DEF StoreInit, StoreTyped, StoreTypeOK, Steps, Slots, File
<1>2. StoreTyped => StoreTypeOK
  BY DEF StoreTyped
<1> QED BY <1>1, <1>2, StoreTypeStep, PTL DEF StoreSpec

-----------------------------------------------------------------------------
(* Contents.                                                                 *)

StoreInv ==
    /\ StoreTyped
    /\ damages = 0
    /\ \A t \in survivors \cup {slots} : WellKept(t) /\ RestoresPossible(t)
    /\ up => Holds(slots, generation, visible) /\ visible \in possible
    /\ PersistProgress

\* What a start shows is a state that slots may restore.
LEMMA StartShows ==
    ASSUME StoreInv, Start
    PROVE  /\ visible' \in possible
           /\ Holds(slots, generation', visible')
<1>1. slots \in Slots /\ WellKept(slots) /\ RestoresPossible(slots)
  BY DEF StoreInv, StoreTyped, StoreTypeOK
<1>2. CASE StartFresh
  <2>1. visible' = Fresh /\ generation' = 0 /\ slots[0] = NoFile /\ slots[1] = NoFile
    BY <1>2 DEF StartFresh, Found
  <2>2. Fresh \in possible
    BY <1>1, <1>2, ValuesAssumption DEF StartFresh, RestoresPossible, Restores
  <2> QED BY <2>1, <2>2 DEF Holds
<1>3. CASE StartRestored
  <2>1. PICK s \in NewestSlots(slots) : generation' = slots[s].generation /\ visible' = slots[s].value
    BY <1>3 DEF StartRestored
  <2>2. s \in 0..1 /\ slots[s] # NoFile /\ Slot(slots[s].generation) = s /\ Found(slots)
    BY <2>1 DEF NewestSlots, Readable, Found
  <2>3. slots[s].value \in Values /\ slots[s].generation \in 1..MaxGeneration
    BY <1>1, <2>2, SlotsHold, FileFields
  <2>4. visible' \in possible
    BY <1>1, <2>1, <2>2, <2>3 DEF RestoresPossible, Restores
  <2>5. Holds(slots, generation', visible')
    BY <2>1, <2>2, <2>3, GenerationAssumption DEF Holds
  <2> QED BY <2>4, <2>5
<1> QED BY <1>2, <1>3 DEF Start

\* The slots once the target is removed: the generation held remains.
LEMMA RemovalKeeps ==
    ASSUME StoreInv, RemoveTarget
    PROVE  /\ slots' \in Slots /\ WellKept(slots') /\ RestoresPossible(slots)'
           /\ Holds(slots', generation, visible)
           /\ slots'[TargetSlot] = NoFile
<1>1. /\ slots \in Slots /\ WellKept(slots) /\ Holds(slots, generation, visible)
      /\ generation \in Nat /\ TargetSlot \in 0..1 /\ Slot(generation) \in 0..1
      /\ TargetSlot = 1 - Slot(generation)
      /\ visible \in possible /\ possible' = possible
  BY Alternate, GenerationAssumption
     DEF StoreInv, StoreTyped, StoreTypeOK, RemoveTarget, At, TargetSlot
<1>2. slots' = [slots EXCEPT ![TargetSlot] = NoFile]
  BY DEF RemoveTarget
<1>3. slots' \in Slots /\ slots'[TargetSlot] = NoFile
      /\ slots'[1 - TargetSlot] = slots[1 - TargetSlot]
  BY <1>1, <1>2 DEF Slots
<1>4. WellKept(slots')
  BY <1>1, <1>3 DEF WellKept
<1>5. CASE generation = 0
  <2>1. TargetSlot = 1 /\ slots'[0] = NoFile /\ slots'[1] = NoFile /\ visible = Fresh
    BY <1>1, <1>3, <1>5 DEF Holds, Slot
  <2>2. Holds(slots', generation, visible)
    BY <1>5, <2>1 DEF Holds
  <2>3. ~Found(slots')
    BY <2>1 DEF Found
  <2>4. RestoresPossible(slots)'
    BY <1>1, <2>1, <2>3 DEF RestoresPossible, Restores, Found
  <2> QED BY <1>3, <1>4, <2>2, <2>4
<1>6. CASE generation # 0
  <2> DEFINE s == Slot(generation)
  <2>1. s \in 0..1 /\ slots'[s] = slots[s] /\ slots'[1 - s] = NoFile
        /\ slots[s] # NoFile /\ slots[s].value = visible
    BY <1>1, <1>3, <1>6 DEF Holds
  <2>2. Holds(slots', generation, visible)
    BY <1>1, <1>6, <2>1 DEF Holds
  <2>3. NewestSlots(slots') = {s} /\ Found(slots')
    BY <1>3, <1>4, <2>1, NewestOf
  <2>4. RestoresPossible(slots)'
    BY <1>1, <2>1, <2>3 DEF RestoresPossible, Restores, Found, NewestSlots, Readable
  <2> QED BY <1>3, <1>4, <2>2, <2>4
<1> QED BY <1>5, <1>6

\* The slots once the file is renamed: the new generation follows the one held.
LEMMA RenameKeeps ==
    ASSUME StoreInv, RenameTemporary
    PROVE  /\ slots' \in Slots /\ WellKept(slots') /\ RestoresPossible(slots)'
           /\ Holds(slots', generation, visible)
           /\ slots'[TargetSlot] = [generation |-> generation + 1, value |-> candidate,
                                synced |-> TRUE]
<1>1. /\ slots \in Slots /\ WellKept(slots) /\ Holds(slots, generation, visible)
      /\ generation \in Nat /\ TargetSlot \in 0..1 /\ Slot(generation) \in 0..1
      /\ TargetSlot = 1 - Slot(generation) /\ TargetSlot = Slot(generation + 1)
      /\ candidate \in possible /\ possible' = possible
      /\ temporary \in File \cup {NoFile} /\ TemporaryIs(TRUE)
      /\ generation + 1 \in 1..MaxGeneration /\ candidate \in Values
  <2>1. /\ StoreTypeOK /\ up /\ step = "rename" /\ possible' = possible
        /\ WellKept(slots) /\ Holds(slots, generation, visible)
        /\ candidate \in possible /\ TemporaryIs(TRUE)
    BY DEF StoreInv, StoreTyped, RenameTemporary, At, PersistProgress
  <2>2. generation \in Nat /\ generation + 1 \in 1..MaxGeneration
    BY <2>1, GenerationAssumption DEF StoreTypeOK
  <2>3. /\ TargetSlot \in 0..1 /\ Slot(generation) \in 0..1
        /\ TargetSlot = 1 - Slot(generation) /\ TargetSlot = Slot(generation + 1)
    BY <2>2, Alternate DEF TargetSlot
  <2> QED BY <2>1, <2>2, <2>3 DEF StoreTypeOK
<1>2. temporary # NoFile
  BY <1>1, WrittenFile DEF TemporaryIs
<1>3. slots' = [slots EXCEPT ![TargetSlot] = temporary]
  BY DEF RenameTemporary
<1>4. slots' \in Slots /\ slots'[TargetSlot] = temporary
      /\ slots'[1 - TargetSlot] = slots[1 - TargetSlot]
  BY <1>1, <1>3 DEF Slots
<1>5. temporary.generation = generation + 1 /\ temporary.value = candidate
      /\ temporary.synced = TRUE
  BY <1>1, WrittenFile DEF TemporaryIs
<1>6. Holds(slots', generation, visible)
  <2>1. CASE generation = 0
    BY <1>1, <1>4, <1>5, <2>1 DEF Holds, Slot
  <2>2. CASE generation # 0
    BY <1>1, <1>4, <2>2 DEF Holds
  <2> QED BY <2>1, <2>2
<1>7. \/ slots'[1 - TargetSlot] = NoFile
      \/ slots'[TargetSlot].generation = slots'[1 - TargetSlot].generation + 1
  <2>1. CASE generation = 0
    BY <1>1, <1>4, <2>1 DEF Holds, Slot
  <2>2. CASE generation # 0
    BY <1>1, <1>4, <1>5, <2>2 DEF Holds
  <2> QED BY <2>1, <2>2
<1>8. WellKept(slots')
  <2>1. \A s \in 0..1 : s = TargetSlot \/ s = 1 - TargetSlot
    BY <1>1
  <2>2. slots'[0] # NoFile /\ slots'[1] # NoFile =>
           \/ slots'[0].generation = slots'[1].generation + 1
           \/ slots'[1].generation = slots'[0].generation + 1
    BY <1>1, <1>7
  <2> QED BY <1>1, <1>4, <1>5, <2>1, <2>2 DEF WellKept
<1>9. NewestSlots(slots') = {TargetSlot} /\ Found(slots')
  BY <1>1, <1>2, <1>4, <1>7, <1>8, NewestOf
<1>10. RestoresPossible(slots)'
  BY <1>1, <1>4, <1>5, <1>9 DEF RestoresPossible, Restores, Found, NewestSlots, Readable
<1> QED BY <1>1, <1>4, <1>6, <1>8, <1>10 DEF TemporaryIs

\* The survivors a step adds are the slots it leaves.
LEMMA AddSlots ==
    ASSUME StoreInv, slots' \in Slots, WellKept(slots'), RestoresPossible(slots)',
           survivors' = survivors \cup {slots'}, possible' = possible
    PROVE  \A t \in (survivors \cup {slots})' : WellKept(t) /\ RestoresPossible(t)'
BY DEF StoreInv, RestoresPossible

\* A step that damages nothing keeps what the slots hold.
LEMMA ContentStep == StoreInv /\ [StoreNext]_storeVars /\ damages' = 0 => StoreInv'
<1> SUFFICES ASSUME StoreInv, [StoreNext]_storeVars, damages' = 0 PROVE StoreInv'
  OBVIOUS
<1> DEFINE Kept == \A t \in (survivors \cup {slots})' : WellKept(t) /\ RestoresPossible(t)'
           Shown == up' => Holds(slots', generation', visible') /\ visible' \in possible'
<1>a. StoreTyped'
  BY StoreTypeStep DEF StoreInv
<1>b. ASSUME damages' = 0, Kept, Shown, PersistProgress' PROVE StoreInv'
  BY <1>a, <1>b DEF StoreInv
<1>1. ASSUME NEW v \in Values, Begin(v) PROVE StoreInv'
  <2>1. Kept /\ Shown
    BY <1>1 DEF Begin, files, StoreInv, RestoresPossible
  <2>2. PersistProgress' /\ damages' = 0
    BY <1>1 DEF Begin, files, StoreInv, PersistProgress
  <2> QED BY <1>b, <2>1, <2>2
<1>2. CASE WriteTemporary
  <2>1. Kept /\ Shown
    BY <1>2 DEF WriteTemporary, At, StoreInv, RestoresPossible
  <2>2. PersistProgress' /\ damages' = 0
    BY <1>2 DEF WriteTemporary, At, StoreInv, PersistProgress, TemporaryIs
  <2> QED BY <1>b, <2>1, <2>2
<1>3. CASE SyncTemporary
  <2>1. Kept /\ Shown
    BY <1>3 DEF SyncTemporary, At, StoreInv, RestoresPossible
  <2>2. PersistProgress' /\ damages' = 0
    <3>1. TemporaryIs(TRUE)'
      <4>1. /\ temporary' = [temporary EXCEPT !.synced = TRUE]
            /\ generation' = generation /\ candidate' = candidate
            /\ temporary = [generation |-> generation + 1, value |-> candidate,
                            synced |-> FALSE]
        BY <1>3 DEF SyncTemporary, At, StoreInv, PersistProgress, TemporaryIs
      <4>2. temporary' = [generation |-> generation + 1, value |-> candidate,
                          synced |-> TRUE]
        BY <4>1, Zenon
      <4> QED BY <4>1, <4>2 DEF TemporaryIs
    <3> QED BY <1>3, <3>1 DEF SyncTemporary, At, StoreInv, PersistProgress
  <2> QED BY <1>b, <2>1, <2>2
<1>4. CASE RemoveTarget
  <2>1. Kept
    BY <1>4, RemovalKeeps, AddSlots DEF RemoveTarget, At
  <2>2. Shown
    BY <1>4, RemovalKeeps DEF RemoveTarget, At, StoreInv
  <2>3. PersistProgress' /\ damages' = 0
    BY <1>4, RemovalKeeps DEF RemoveTarget, At, StoreInv, PersistProgress, TemporaryIs, TargetSlot
  <2> QED BY <1>b, <2>1, <2>2, <2>3
<1>5. CASE RenameTemporary
  <2>1. Kept
    BY <1>5, RenameKeeps, AddSlots DEF RenameTemporary, At
  <2>2. Shown
    BY <1>5, RenameKeeps DEF RenameTemporary, At, StoreInv
  <2>3. PersistProgress' /\ damages' = 0
    BY <1>5, RenameKeeps DEF RenameTemporary, At, StoreInv, PersistProgress, TemporaryIs, TargetSlot
  <2> QED BY <1>b, <2>1, <2>2, <2>3
<1>6. CASE FlushAndAcknowledge
  <2>1. /\ slots \in Slots /\ WellKept(slots) /\ Holds(slots, generation, visible)
        /\ generation \in Nat /\ Slot(generation) \in 0..1 /\ TargetSlot \in 0..1
        /\ Slot(generation) = 1 - TargetSlot /\ TargetSlot = Slot(generation + 1)
        /\ slots[TargetSlot] = [generation |-> generation + 1, value |-> candidate,
                            synced |-> TRUE]
    BY <1>6, Alternate, GenerationAssumption
       DEF StoreInv, StoreTyped, StoreTypeOK, FlushAndAcknowledge, TargetSlot, PersistProgress
  <2>2. slots[TargetSlot] # NoFile /\ slots[TargetSlot].generation = generation + 1
        /\ slots[TargetSlot].value = candidate
    <3>1. generation + 1 \in 1..MaxGeneration /\ candidate \in Values
      BY <1>6, GenerationAssumption DEF StoreInv, StoreTyped, StoreTypeOK, FlushAndAcknowledge
    <3> QED BY <2>1, <3>1, WrittenFile
  <2>3. \/ slots[1 - TargetSlot] = NoFile
        \/ slots[TargetSlot].generation = slots[1 - TargetSlot].generation + 1
    <3>1. CASE generation = 0
      BY <2>1, <3>1 DEF Holds, Slot
    <3>2. CASE generation # 0
      BY <2>1, <2>2, <3>2 DEF Holds
    <3> QED BY <3>1, <3>2
  <2>4. NewestSlots(slots) = {TargetSlot} /\ Found(slots)
    BY <2>1, <2>2, <2>3, NewestOf
  <2>5. Kept
    BY <1>6, <2>1, <2>2, <2>4 DEF FlushAndAcknowledge, RestoresPossible, Restores
  <2>6. Shown
    BY <1>6, <2>1, <2>2 DEF FlushAndAcknowledge, Holds
  <2>7. PersistProgress' /\ damages' = 0
    BY <1>6 DEF FlushAndAcknowledge, StoreInv, PersistProgress
  <2> QED BY <1>b, <2>5, <2>6, <2>7
<1>7. CASE PersistFails
  <2>1. Kept /\ Shown
    BY <1>7 DEF PersistFails, files, StoreInv, RestoresPossible
  <2>2. PersistProgress' /\ damages' = 0
    BY <1>7 DEF PersistFails, files, StoreInv, PersistProgress
  <2> QED BY <1>b, <2>1, <2>2
<1>8. CASE Killed
  <2>1. Kept /\ Shown
    BY <1>8 DEF Killed, files, StoreInv, RestoresPossible
  <2>2. PersistProgress' /\ damages' = 0
    BY <1>8 DEF Killed, files, StoreInv, PersistProgress
  <2> QED BY <1>b, <2>1, <2>2
<1>9. CASE PowerLoss
  <2>1. Kept /\ Shown
    BY <1>9 DEF PowerLoss, StoreInv, RestoresPossible
  <2>2. PersistProgress' /\ damages' = 0
    BY <1>9 DEF PowerLoss, StoreInv, PersistProgress
  <2> QED BY <1>b, <2>1, <2>2
<1>10. ASSUME NEW s \in 0..1, Damage(s) PROVE StoreInv'
  BY <1>10 DEF Damage, StoreInv
<1>11. CASE Start
  <2>1. Kept
    BY <1>11 DEF Start, files, StoreInv, RestoresPossible
  <2>2. Shown
    BY <1>11, StartShows DEF Start, files
  <2>3. PersistProgress' /\ damages' = 0
    BY <1>11 DEF Start, files, StoreInv, PersistProgress
  <2> QED BY <1>b, <2>1, <2>2, <2>3
<1>12. CASE UNCHANGED storeVars
  <2>1. Kept /\ Shown
    BY <1>12 DEF storeVars, StoreInv, RestoresPossible
  <2>2. PersistProgress' /\ damages' = 0
    BY <1>12 DEF storeVars, StoreInv, PersistProgress, TemporaryIs, TargetSlot
  <2> QED BY <1>b, <2>1, <2>2
<1> QED
  BY <1>1, <1>2, <1>3, <1>4, <1>5, <1>6, <1>7, <1>8, <1>9, <1>10, <1>11, <1>12 DEF StoreNext

\* The slots are right at the start.
LEMMA ContentInit == StoreInit => StoreInv
<1> SUFFICES ASSUME StoreInit PROVE StoreInv
  OBVIOUS
<1>1. StoreTyped
  BY ValuesAssumption, GenerationAssumption, DamagesAssumption
     DEF StoreInit, StoreTyped, StoreTypeOK, Steps, Slots, File
<1>2. slots[0] = NoFile /\ slots[1] = NoFile
  BY DEF StoreInit
<1>3. WellKept(slots) /\ RestoresPossible(slots)
  BY <1>2 DEF WellKept, RestoresPossible, Restores, Found, StoreInit
<1> QED BY <1>1, <1>2, <1>3 DEF StoreInit, StoreInv, Holds, PersistProgress

\* The invariant with damaged files: what is left then is that the state a
\* persist writes was requested.
StoreDamagedInv ==
    /\ StoreTyped
    /\ step # "idle" => candidate \in possible
    /\ damages = 0 => StoreInv

\* With damage or without, every step keeps what can be said of the store.
LEMMA DamageStep == StoreDamagedInv /\ [StoreNext]_storeVars => StoreDamagedInv'
<1> SUFFICES ASSUME StoreDamagedInv, [StoreNext]_storeVars PROVE StoreDamagedInv'
  OBVIOUS
<1>1. StoreTyped'
  BY StoreTypeStep DEF StoreDamagedInv
<1>2. step' # "idle" => candidate' \in possible'
  BY DEF StoreDamagedInv, StoreNext, storeVars, files, Begin, At, WriteTemporary, SyncTemporary, RemoveTarget,
         RenameTemporary, FlushAndAcknowledge, PersistFails, Killed, PowerLoss, Damage, Start
<1>3. damages' = damages \/ damages' = damages + 1
  BY DEF StoreNext, storeVars, files, Begin, At, WriteTemporary, SyncTemporary, RemoveTarget,
         RenameTemporary, FlushAndAcknowledge, PersistFails, Killed, PowerLoss, Damage, Start
<1>4. damages \in Nat
  BY DamagesAssumption DEF StoreDamagedInv, StoreTyped, StoreTypeOK
<1>5. damages' = 0 => StoreInv'
  BY <1>3, <1>4, ContentStep DEF StoreDamagedInv
<1> QED
  BY <1>1, <1>2, <1>5 DEF StoreDamagedInv

\* The slots are right in every state.
LEMMA ContentInvariant == StoreSpec => []StoreDamagedInv
<1>1. StoreInit => StoreDamagedInv
  BY ContentInit DEF StoreDamagedInv, StoreInv, StoreInit
<1> QED BY <1>1, DamageStep, PTL DEF StoreSpec

\* At whatever step of a persist the process is killed or the power fails, the
\* files can be opened: "ambiguous duplicate generation" and "no fully valid
\* durable state slot" never stop a hub whose files were not damaged.
THEOREM StoreAlwaysOpens == StoreSpec => []AlwaysOpens
<1>1. StoreDamagedInv => AlwaysOpens
  <2> SUFFICES ASSUME StoreInv, NEW t \in survivors \cup {slots}
               PROVE  IF Found(t) THEN Cardinality(NewestSlots(t)) = 1 ELSE Fresh \in possible
    BY DEF StoreDamagedInv, AlwaysOpens
  <2>1. t \in Slots /\ WellKept(t) /\ RestoresPossible(t)
    BY DEF StoreInv, StoreTyped, StoreTypeOK
  <2>2. CASE Found(t)
    BY <2>1, <2>2, SomeNewest, FS_Singleton
  <2>3. CASE ~Found(t)
    BY <2>1, <2>3, ValuesAssumption DEF RestoresPossible, Restores
  <2> QED BY <2>2, <2>3
<1> QED BY <1>1, ContentInvariant, PTL

\* Every step of the store is one AcknowledgedState allows: a restart shows the
\* state acknowledged last or one requested since, whatever was interrupted.
THEOREM StoreKeepsItsPromise == StoreSpec => KeepsItsPromise
<1>1. StoreInit => Promise!Init
  BY DEF StoreInit, Promise!Init
<1>2. StoreDamagedInv /\ [StoreNext]_storeVars => [Promise!Next]_Promise!vars
  <2> SUFFICES ASSUME StoreDamagedInv, [StoreNext]_storeVars PROVE [Promise!Next]_Promise!vars
    OBVIOUS
  <2> USE DEF Promise!Next, Promise!vars
  <2>1. ASSUME NEW v \in Values, Begin(v) PROVE Promise!Request(v)
    BY <2>1 DEF Begin, Promise!Request
  <2>2. CASE FlushAndAcknowledge
    <3>1. candidate \in Values /\ Promise!Acknowledge(candidate)
      BY <2>2 DEF FlushAndAcknowledge, StoreDamagedInv, StoreTyped, StoreTypeOK, Promise!Acknowledge
    <3> QED BY <3>1
  <2>3. CASE Killed \/ PowerLoss
    BY <2>3 DEF Killed, PowerLoss, Promise!Stop
  <2>4. CASE Start
    <3>1. visible' \in Values
      BY StoreTypeStep DEF StoreDamagedInv, StoreTyped, StoreTypeOK
    <3>2. damages = 0 => visible' \in possible
      BY <2>4, StartShows DEF StoreDamagedInv
    <3> QED BY <2>4, <3>1, <3>2 DEF Start, files, Promise!Start
  <2>5. CASE WriteTemporary \/ SyncTemporary \/ RemoveTarget \/ RenameTemporary
    BY <2>5 DEF WriteTemporary, SyncTemporary, RemoveTarget, RenameTemporary, At
  <2>6. CASE PersistFails
    BY <2>6 DEF PersistFails
  <2>7. ASSUME NEW s \in 0..1, Damage(s) PROVE Promise!Damage
    <3>1. damages \in Nat
      BY DamagesAssumption DEF StoreDamagedInv, StoreTyped, StoreTypeOK
    <3> QED BY <2>7, <3>1 DEF Damage, Promise!Damage
  <2>8. CASE UNCHANGED storeVars
    BY <2>8 DEF storeVars
  <2> QED BY <2>1, <2>2, <2>3, <2>4, <2>5, <2>6, <2>7, <2>8 DEF StoreNext
<1> QED BY <1>1, <1>2, ContentInvariant, PTL DEF StoreSpec, KeepsItsPromise, Promise!Spec

-----------------------------------------------------------------------------
(* KioskOperations: the contract keeps every operation together.           *)

\* A preflight of a device record is a preflight record.
LEMMA PreflightType ==
    ASSUME NEW o \in Observed, NEW now \in Nat
    PROVE  Preflight(o, now) \in PreflightRecord
  <1>1. Freshness(o, now) \in {"fresh", "stale", "offline"}
    BY DEF Freshness
  <1>2. QED
    BY <1>1 DEF Preflight, PreflightRecord, Observed

\* What a preview stores is an operation whose eligible targets are Proposed.
LEMMA PreviewedType ==
    ASSUME NEW T \in SUBSET Devices, NEW view \in [Devices -> Observed],
           NEW now \in Nat, NEW p \in Nat \ {0}, NEW a \in Nat \ {0}
    PROVE  LET op == Previewed(T, view, now, Lifetime, p, a) IN
           /\ op \in Operation
           /\ \A d \in Eligible(op) : op.targets[d].lifecycle = "Proposed"
  <1>. DEFINE op == Previewed(T, view, now, Lifetime, p, a)
  <1>1. \A d \in Devices : NewTarget(view[d], now) \in Target
    <2>. SUFFICES ASSUME NEW d \in Devices
                  PROVE  NewTarget(view[d], now) \in Target
      OBVIOUS
    <2>1. Preflight(view[d], now) \in PreflightRecord
      BY PreflightType
    <2>2. (IF Preflight(view[d], now).eligible THEN "Proposed" ELSE "Rejected")
             \in Lifecycle
      BY DEF Lifecycle, Terminal
    <2>3. <<>> \in Seq(Requests)
      OBVIOUS
    <2>4. QED
      BY <2>1, <2>2, <2>3 DEF NewTarget, Target
  <1>2. op.targets \in [Devices -> Target \cup {NoTarget}]
    BY <1>1 DEF Previewed
  <1>3. op \in Operation
    BY <1>2, CallAssumption DEF Previewed, Operation
  <1>4. ASSUME NEW d \in Eligible(op)
        PROVE  op.targets[d].lifecycle = "Proposed"
    <2>1. d \in Devices /\ op.targets[d] # NoTarget /\ op.targets[d].preflight.eligible
      BY <1>4 DEF Eligible, TargetIds
    <2>2. op.targets[d] = NewTarget(view[d], now)
      BY <2>1 DEF Previewed
    <2>3. QED
      BY <2>1, <2>2 DEF NewTarget
  <1>5. QED
    BY <1>3, <1>4

\* Confirmation keeps everything but the lifecycle of the eligible targets and
\* leaves none of them Proposed.
LEMMA ConfirmedType ==
    ASSUME NEW op \in Operation, NEW now \in Nat
    PROVE  LET new == Confirmed(op, now) IN
           /\ new \in Operation
           /\ new.expires = op.expires /\ new.max_parallelism = op.max_parallelism
           /\ TargetIds(new) = TargetIds(op)
           /\ \A d \in TargetIds(op) :
                 /\ new.targets[d].preflight = op.targets[d].preflight
                 /\ new.targets[d].request_ids = op.targets[d].request_ids
                 /\ IF d \in Eligible(op) THEN new.targets[d].lifecycle = "Accepted"
                                          ELSE new.targets[d] = op.targets[d]
  <1>. DEFINE new == Confirmed(op, now)
              moved(d) == [op.targets[d] EXCEPT !.lifecycle = "Accepted"]
  <1>1. \A d \in TargetIds(op) : op.targets[d] \in Target /\ d \in Devices
    BY DEF TargetIds, Operation
  <1>2. \A d \in TargetIds(op) :
           /\ moved(d) \in Target
           /\ moved(d).preflight = op.targets[d].preflight
           /\ moved(d).request_ids = op.targets[d].request_ids
           /\ moved(d).lifecycle = "Accepted"
    BY <1>1 DEF Target, Lifecycle
  <1>3. Eligible(op) \subseteq TargetIds(op)
    BY DEF Eligible
  <1>4. /\ new.targets = [d \in Devices |-> IF d \in Eligible(op) THEN moved(d)
                                                               ELSE op.targets[d]]
        /\ new.last_transition = now
        /\ new.created = op.created /\ new.expires = op.expires
        /\ new.max_parallelism = op.max_parallelism
        /\ new.max_attempts = op.max_attempts
    <2>1. \A d \in TargetIds(op) :
             d \in Eligible(op) <=> op.targets[d].preflight.eligible
      BY DEF Eligible
    <2>2. QED
      BY <2>1 DEF Confirmed, Operation
  <1>5. new.targets \in [Devices -> Target \cup {NoTarget}]
    BY <1>2, <1>3, <1>4 DEF Operation
  <1>6. new \in Operation
    BY <1>4, <1>5 DEF Confirmed, Operation
  <1>7. \A d \in Devices : new.targets[d] = NoTarget <=> op.targets[d] = NoTarget
    BY <1>2, <1>3, <1>4, NoTargetAssumption DEF TargetIds
  <1>8. TargetIds(new) = TargetIds(op)
    BY <1>7 DEF TargetIds
  <1>9. QED
    BY <1>1, <1>2, <1>4, <1>6, <1>8

\* A call that moves one target leaves every other part of the operation alone.
LEMMA MovedType ==
    ASSUME NEW op \in Operation, NEW d \in TargetIds(op), NEW now \in Nat,
           NEW t \in Target
    PROVE  LET new == Moved(op, d, now, t) IN
           /\ new \in Operation
           /\ new.expires = op.expires /\ new.max_parallelism = op.max_parallelism
           /\ TargetIds(new) = TargetIds(op)
           /\ new.targets[d] = t
           /\ \A e \in Devices : e # d => new.targets[e] = op.targets[e]
  <1>. DEFINE new == Moved(op, d, now, t)
  <1>1. d \in Devices
    BY DEF TargetIds
  <1>2. /\ new.targets = [op.targets EXCEPT ![d] = t]
        /\ new.last_transition = now
        /\ new.created = op.created /\ new.expires = op.expires
        /\ new.max_parallelism = op.max_parallelism
        /\ new.max_attempts = op.max_attempts
    BY DEF Moved, Operation
  <1>3. new \in Operation
    BY <1>1 DEF Moved, Operation
  <1>4. /\ new.targets[d] = t
        /\ \A e \in Devices : e # d => new.targets[e] = op.targets[e]
    BY <1>1, <1>2 DEF Operation
  <1>5. TargetIds(new) = TargetIds(op)
    BY <1>1, <1>4, NoTargetAssumption DEF TargetIds
  <1>6. QED
    BY <1>2, <1>3, <1>4, <1>5

\* What the calls that concern one target have in common: an eligible target,
\* confirmed and not settled for good, moves to another state of its life, keeps
\* its preflight, and its request history is kept or grows by one.
Kept(was, is) ==
    /\ is.preflight = was.preflight
    /\ \/ is.request_ids = was.request_ids
       \/ \E request \in Requests : is.request_ids = Append(was.request_ids, request)

MovesFrom == {"Accepted", "Dispatched", "Running", "Failed", "Expired",
              "CancellationRequested"}
MovesTo == MovesFrom \cup {"Applied", "Cancelled"}

\* A call moves one target, within these lifecycles.
LEMMA TargetCallMoves ==
    ASSUME KioskTypeOK, NEW id \in OperationIds, NEW d \in Devices, NEW now \in Times,
           TargetCall(id, d, now)
    PROVE  /\ Exists(id) /\ operations[id] \in Operation
           /\ d \in TargetIds(operations[id])
           /\ observed' = observed
           /\ \E t \in Target :
                 /\ Store(id, Moved(operations[id], d, now, t))
                 /\ Kept(operations[id].targets[d], t)
                 /\ operations[id].targets[d].lifecycle \in MovesFrom
                 /\ t.lifecycle \in MovesTo
  <1>. DEFINE op == operations[id]
              was == op.targets[d]
              Moves == \E t \in Target :
                          /\ Store(id, Moved(op, d, now, t))
                          /\ Kept(was, t)
                          /\ was.lifecycle \in MovesFrom /\ t.lifecycle \in MovesTo
  <1>1. Exists(id) /\ d \in TargetIds(op) /\ observed' = observed
    BY DEF TargetCall, Dispatch, ApplyReceipt, MarkRunning, Finish,
           RequestCancellation, CompleteCancellation, Store
  <1>2. op \in Operation
    BY <1>1 DEF KioskTypeOK, Exists
  <1>3. was \in Target
    BY <1>1, <1>2 DEF TargetIds, Operation
  <1>4. now \in Nat
    BY CallAssumption
  <1>5. ASSUME NEW request \in Requests, Dispatch(id, d, request, now)
        PROVE  Moves
    <2>. DEFINE t == [was EXCEPT !.lifecycle = "Dispatched", !.dispatched_at = now,
                                 !.request_ids = Append(@, request),
                                 !.receipt = NoRequest]
    <2>1. Append(was.request_ids, request) \in Seq(Requests)
      BY <1>3 DEF Target
    <2>2. /\ t \in Target /\ t.preflight = was.preflight
          /\ t.request_ids = Append(was.request_ids, request)
          /\ t.lifecycle = "Dispatched"
      BY <1>3, <1>4, <2>1 DEF Target, Lifecycle, InFlight
    <2>3. Store(id, Moved(op, d, now, t)) /\ was.lifecycle \in MovesFrom
      BY <1>5 DEF Dispatch, MayDispatch, Dispatched, MovesFrom
    <2>4. QED
      BY <2>2, <2>3 DEF Kept, MovesTo, MovesFrom
  <1>6. ASSUME NEW state \in MovesTo, NEW receipt \in Requests \cup {NoRequest},
               was.lifecycle \in MovesFrom,
               Store(id, Moved(op, d, now, [was EXCEPT !.lifecycle = state,
                                                       !.receipt = receipt]))
        PROVE  Moves
    <2>. DEFINE t == [was EXCEPT !.lifecycle = state, !.receipt = receipt]
    <2>1. /\ t \in Target /\ t.preflight = was.preflight
          /\ t.request_ids = was.request_ids /\ t.lifecycle = state
      BY <1>3, <1>6 DEF Target, Lifecycle, InFlight, Terminal, MovesTo, MovesFrom
    <2>2. QED
      BY <1>6, <2>1 DEF Kept
  <1>7. ASSUME NEW state \in MovesTo, was.lifecycle \in MovesFrom,
               Store(id, Moved(op, d, now, [was EXCEPT !.lifecycle = state]))
        PROVE  Moves
    <2>. DEFINE t == [was EXCEPT !.lifecycle = state]
    <2>1. /\ t \in Target /\ t.preflight = was.preflight
          /\ t.request_ids = was.request_ids /\ t.lifecycle = state
      BY <1>3, <1>7 DEF Target, Lifecycle, InFlight, Terminal, MovesTo, MovesFrom
    <2>2. QED
      BY <1>7, <2>1 DEF Kept
  <1>8. ASSUME NEW request \in Requests, NEW revision \in 1..MaxIdentity[d],
               ApplyReceipt(id, d, revision, request, now)
        PROVE  Moves
    BY <1>6, <1>8 DEF ApplyReceipt, MayApply, Applied, InFlight, MovesFrom, MovesTo
  <1>9. ASSUME MarkRunning(id, d, now) PROVE Moves
    BY <1>7, <1>9 DEF MarkRunning, MayMarkRunning, MarkedRunning, MovesFrom, MovesTo
  <1>10. ASSUME NEW outcome \in {"Failed", "Expired"}, Finish(id, d, outcome, now)
         PROVE  Moves
    BY <1>7, <1>10 DEF Finish, MayFinish, Finished, InFlight, MovesFrom, MovesTo
  <1>11. ASSUME RequestCancellation(id, d, now) PROVE Moves
    BY <1>7, <1>11 DEF RequestCancellation, MayRequestCancellation,
                       CancellationRequested, MovesFrom, MovesTo
  <1>12. ASSUME CompleteCancellation(id, d, now) PROVE Moves
    BY <1>7, <1>12 DEF CompleteCancellation, MayCompleteCancellation,
                       CancellationCompleted, MovesFrom, MovesTo
  <1>13. Moves
    BY <1>5, <1>8, <1>9, <1>10, <1>11, <1>12 DEF TargetCall
  <1>14. QED
    BY <1>1, <1>2, <1>13

\* Storing changes one operation.
LEMMA Stored ==
    ASSUME KioskTypeOK, NEW id \in OperationIds, NEW op, Store(id, op)
    PROVE  /\ operations'[id] = op /\ OperationValid(op)
           /\ \A i \in OperationIds : i # id => operations'[i] = operations[i]
           /\ op \in Operation => operations' \in
                 [OperationIds -> Operation \cup {NoOperation}]
  BY DEF Store, KioskTypeOK

\* The steps of the hub, as far as the operations are concerned.
LEMMA StepCases ==
    ASSUME KioskTypeOK, [KioskNext]_kioskVars
    PROVE  \/ /\ operations' = operations
              /\ observed' \in [Devices -> Observed]
           \/ /\ observed' = observed
              /\ \E id \in OperationIds, now \in Times :
                    \/ \E T \in SUBSET Devices, p \in Parallelism, a \in AttemptLimits :
                          ~Exists(id) /\ Store(id, Previewed(T, observed, now, Lifetime, p, a))
                    \/ Exists(id) /\ Store(id, Confirmed(operations[id], now))
                    \/ \E d \in Devices : TargetCall(id, d, now)
  <1>1. CASE UNCHANGED kioskVars
    BY <1>1 DEF kioskVars, KioskTypeOK
  <1>2. ASSUME NEW now \in Times, NEW d \in Devices, NEW revision \in 1..MaxIdentity[d],
               NEW ready \in BOOLEAN, Observe(d, revision, ready, now)
        PROVE  operations' = operations /\ observed' \in [Devices -> Observed]
    <2>1. observed[d] \in Observed /\ now \in Nat
      BY CallAssumption DEF KioskTypeOK
    <2>2. revision \in Nat /\ now + FreshFor \in Nat /\ observed[d].evidence + 1 \in Nat
      BY <1>2, <2>1, CallAssumption DEF Observe, Observed
    <2>3. [identity_revision |-> revision, evidence |-> observed[d].evidence + 1,
           ready |-> ready, fresh_until |-> now + FreshFor, accepted_at |-> now]
             \in Observed
      BY <2>1, <2>2 DEF Observed
    <2>4. QED
      BY <1>2, <2>3 DEF Observe, KioskTypeOK
  <1>6. ASSUME NEW now \in Times, NEW d \in Devices, NEW revision \in 1..MaxIdentity[d],
               ObserveAgain(d, revision, now)
        PROVE  operations' = operations /\ observed' \in [Devices -> Observed]
    <2>1. /\ observed \in [Devices -> Observed]
          /\ observed[d] \in Observed /\ now \in Nat
      BY CallAssumption DEF KioskTypeOK
    <2>2. revision \in Nat
      BY <1>6, <2>1, CallAssumption DEF ObserveAgain, Observed
    <2>3. [observed[d] EXCEPT !.identity_revision = revision, !.accepted_at = now]
             \in Observed
      BY <2>1, <2>2 DEF Observed
    <2>4. observed' = [observed EXCEPT ![d] =
             [observed[d] EXCEPT !.identity_revision = revision, !.accepted_at = now]]
      BY <1>6, <2>1 DEF ObserveAgain, Observed
    <2>5. QED
      BY <1>6, <2>1, <2>3, <2>4 DEF ObserveAgain
  <1>3. ASSUME NEW now \in Times, NEW id \in OperationIds,
               NEW T \in SUBSET Devices, NEW p \in Parallelism, NEW a \in AttemptLimits,
               Preview(id, T, p, a, now)
        PROVE  /\ observed' = observed
               /\ ~Exists(id) /\ Store(id, Previewed(T, observed, now, Lifetime, p, a))
    BY <1>3 DEF Preview, Store
  <1>4. ASSUME NEW now \in Times, NEW id \in OperationIds, Confirm(id, now)
        PROVE  observed' = observed /\ Exists(id) /\ Store(id, Confirmed(operations[id], now))
    BY <1>4 DEF Confirm, Store
  <1>5. ASSUME NEW now \in Times, NEW id \in OperationIds, NEW d \in Devices,
               TargetCall(id, d, now)
        PROVE  observed' = observed
    BY <1>5, TargetCallMoves
  <1>7. QED
    BY <1>1, <1>2, <1>3, <1>4, <1>5, <1>6 DEF KioskNext

\* Every step keeps the types.
LEMMA KioskTypeStep ==
    ASSUME KioskTypeOK, [KioskNext]_kioskVars
    PROVE  KioskTypeOK'
  <1>. SUFFICES ASSUME NEW id \in OperationIds, NEW now \in Times,
                       observed' = observed,
                       \/ \E T \in SUBSET Devices, p \in Parallelism, a \in AttemptLimits :
                             ~Exists(id) /\ Store(id, Previewed(T, observed, now, Lifetime, p, a))
                       \/ Exists(id) /\ Store(id, Confirmed(operations[id], now))
                       \/ \E d \in Devices : TargetCall(id, d, now)
                PROVE  operations' \in [OperationIds -> Operation \cup {NoOperation}]
    BY StepCases DEF KioskTypeOK
  <1>1. now \in Nat
    BY CallAssumption
  <1>2. ASSUME NEW T \in SUBSET Devices, NEW p \in Parallelism, NEW a \in AttemptLimits,
               Store(id, Previewed(T, observed, now, Lifetime, p, a))
        PROVE  operations' \in [OperationIds -> Operation \cup {NoOperation}]
    <2>1. p \in Nat \ {0} /\ a \in Nat \ {0} /\ observed \in [Devices -> Observed]
      BY CallAssumption DEF KioskTypeOK
    <2>2. Previewed(T, observed, now, Lifetime, p, a) \in Operation
      BY <1>1, <2>1, PreviewedType
    <2>3. QED
      BY <1>2, <2>2, Stored
  <1>3. ASSUME Exists(id), Store(id, Confirmed(operations[id], now))
        PROVE  operations' \in [OperationIds -> Operation \cup {NoOperation}]
    <2>1. operations[id] \in Operation
      BY <1>3 DEF KioskTypeOK, Exists
    <2>2. Confirmed(operations[id], now) \in Operation
      BY <1>1, <2>1, ConfirmedType
    <2>3. QED
      BY <1>3, <2>2, Stored
  <1>4. ASSUME NEW d \in Devices, TargetCall(id, d, now)
        PROVE  operations' \in [OperationIds -> Operation \cup {NoOperation}]
    <2>1. PICK t \in Target : Store(id, Moved(operations[id], d, now, t))
      BY <1>4, TargetCallMoves
    <2>2. operations[id] \in Operation /\ d \in TargetIds(operations[id])
      BY <1>4, TargetCallMoves
    <2>3. Moved(operations[id], d, now, t) \in Operation
      BY <1>1, <2>2, MovedType
    <2>4. QED
      BY <2>1, <2>3, Stored
  <1>5. QED
    BY <1>2, <1>3, <1>4

\* The observations and the operations keep their types.
THEOREM KioskTypeCorrect == KioskSpec => []KioskTypeOK
  <1>1. KioskInit => KioskTypeOK
    BY CallAssumption DEF KioskInit, KioskTypeOK, Observed
  <1>2. KioskTypeOK /\ [KioskNext]_kioskVars => KioskTypeOK'
    BY KioskTypeStep
  <1>3. QED
    BY <1>1, <1>2, PTL DEF KioskSpec

\* The contract holds of every operation: each call validates what it stores.
AllValid == \A id \in OperationIds : Exists(id) => OperationValid(operations[id])

\* The invariant the other properties follow from.
LedgerInv == KioskTypeOK /\ AllValid /\ ConfirmedTogether

\* Of a valid operation, a target in a state that is not Rejected is eligible.
LEMMA EligibleUnlessRejected ==
    ASSUME NEW op \in Operation, OperationValid(op)
    PROVE  /\ \A d \in TargetIds(op) :
                d \in Eligible(op) <=> op.targets[d].lifecycle # "Rejected"
           /\ \A d \in TargetIds(op) : op.targets[d] \in Target /\ d \in Devices
  BY DEF OperationValid, TargetValid, Eligible, TargetIds, Operation

\* The derived lifecycle is final exactly when every target is settled.
LEMMA FinalIffSettled ==
    ASSUME NEW op \in Operation, OperationValid(op)
    PROVE  DerivedLifecycle(op) \in Terminal <=> TargetIds(op) = InState(op, Terminal)
  <1>. DEFINE held == {op.targets[d].lifecycle : d \in Eligible(op)}
  <1>1. \A d \in TargetIds(op) : op.targets[d].lifecycle \in Lifecycle
    BY EligibleUnlessRejected DEF Target
  <1>2. Eligible(op) \subseteq TargetIds(op) /\ InState(op, Terminal) \subseteq TargetIds(op)
    BY DEF Eligible, InState
  <1>3. ASSUME TargetIds(op) # InState(op, Terminal)
        PROVE  DerivedLifecycle(op) \notin Terminal
    <2>1. PICK d \in TargetIds(op) : op.targets[d].lifecycle \notin Terminal
      BY <1>2, <1>3 DEF InState
    <2>2. d \in Eligible(op)
      BY <2>1, EligibleUnlessRejected DEF Terminal
    <2>3. op.targets[d].lifecycle \in held
      BY <2>2
    <2>4. op.targets[d].lifecycle \in
             InFlight \cup {"CancellationRequested", "Proposed", "Accepted"}
      BY <1>1, <2>1 DEF Lifecycle
    <2>5. QED
      BY <2>3, <2>4 DEF DerivedLifecycle, Terminal
  <1>4. ASSUME TargetIds(op) = InState(op, Terminal)
        PROVE  DerivedLifecycle(op) \in Terminal
    <2>1. \A d \in Eligible(op) : op.targets[d].lifecycle \in Terminal
      BY <1>2, <1>4 DEF InState
    <2>2. held \subseteq Terminal
      BY <2>1
    <2>3. held \cap InFlight = {} /\ held \cap {"CancellationRequested", "Proposed",
                                                "Accepted"} = {}
      BY <2>2 DEF Terminal, InFlight
    <2>4. QED
      BY <2>3 DEF DerivedLifecycle, Terminal
  <1>5. QED
    BY <1>3, <1>4

\* Confirmed together, of one operation.
Together(op) == \/ Eligible(op) \subseteq InState(op, {"Proposed"})
                \/ Eligible(op) \cap InState(op, {"Proposed"}) = {}

\* Every step keeps the invariant.
LEMMA LedgerStep ==
    ASSUME LedgerInv, [KioskNext]_kioskVars
    PROVE  LedgerInv'
  <1>. USE DEF LedgerInv
  <1>1. KioskTypeOK'
    BY KioskTypeStep
  <1>2. \A id \in OperationIds : Exists(id) =>
           /\ operations[id] \in Operation /\ OperationValid(operations[id])
           /\ Together(operations[id])
    BY DEF KioskTypeOK, Exists, AllValid, ConfirmedTogether, Together
  <1>. SUFFICES ASSUME NEW id \in OperationIds, operations'[id] # NoOperation
                PROVE  OperationValid(operations'[id]) /\ Together(operations'[id])
    BY <1>1 DEF AllValid, ConfirmedTogether, Together, Exists
  <1>3. CASE operations'[id] = operations[id]
    BY <1>2, <1>3 DEF Exists
  <1>4. ASSUME NEW i \in OperationIds, NEW now \in Times,
               observed' = observed, operations'[id] # operations[id],
               \/ \E T \in SUBSET Devices, p \in Parallelism, a \in AttemptLimits :
                     ~Exists(i) /\ Store(i, Previewed(T, observed, now, Lifetime, p, a))
               \/ Exists(i) /\ Store(i, Confirmed(operations[i], now))
               \/ \E d \in Devices : TargetCall(i, d, now)
        PROVE  OperationValid(operations'[id]) /\ Together(operations'[id])
    <2>1. now \in Nat /\ observed \in [Devices -> Observed]
      BY CallAssumption DEF KioskTypeOK
    <2>2. ASSUME NEW T \in SUBSET Devices, NEW p \in Parallelism, NEW a \in AttemptLimits,
                 Store(i, Previewed(T, observed, now, Lifetime, p, a))
          PROVE  OperationValid(operations'[id]) /\ Together(operations'[id])
      <3>. DEFINE new == Previewed(T, observed, now, Lifetime, p, a)
      <3>1. i = id /\ operations'[id] = new /\ OperationValid(new)
        BY <1>4, <2>2, Stored
      <3>2. p \in Nat \ {0} /\ a \in Nat \ {0}
        BY CallAssumption
      <3>3. \A d \in Eligible(new) : new.targets[d].lifecycle = "Proposed"
        BY <2>1, <3>2, PreviewedType
      <3>4. QED
        BY <3>1, <3>3 DEF Together, InState, Eligible
    <2>3. ASSUME Exists(i), Store(i, Confirmed(operations[i], now))
          PROVE  OperationValid(operations'[id]) /\ Together(operations'[id])
      <3>. DEFINE op == operations[i]
                  new == Confirmed(operations[i], now)
      <3>1. i = id /\ operations'[id] = new /\ OperationValid(new)
        BY <1>4, <2>3, Stored
      <3>2. op \in Operation
        BY <1>2, <2>3
      <3>3. /\ TargetIds(new) = TargetIds(op)
            /\ \A d \in TargetIds(op) :
                 /\ new.targets[d].preflight = op.targets[d].preflight
                 /\ d \in Eligible(op) => new.targets[d].lifecycle = "Accepted"
        BY <2>1, <3>2, ConfirmedType
      <3>4. Eligible(new) = Eligible(op) /\ Eligible(op) \subseteq TargetIds(op)
        BY <3>3 DEF Eligible
      <3>5. QED
        BY <3>1, <3>3, <3>4 DEF Together, InState
    <2>4. ASSUME NEW d \in Devices, TargetCall(i, d, now)
          PROVE  OperationValid(operations'[id]) /\ Together(operations'[id])
      <3>. DEFINE op == operations[i]
      <3>1. PICK t \in Target :
               /\ Store(i, Moved(op, d, now, t))
               /\ Kept(op.targets[d], t)
               /\ op.targets[d].lifecycle \in MovesFrom /\ t.lifecycle \in MovesTo
        BY <2>4, TargetCallMoves
      <3>. DEFINE new == Moved(op, d, now, t)
      <3>2. Exists(i) /\ d \in TargetIds(op) /\ op \in Operation
        BY <2>4, TargetCallMoves
      <3>3. i = id /\ operations'[id] = new /\ OperationValid(new)
        BY <1>4, <3>1, Stored
      <3>4. /\ TargetIds(new) = TargetIds(op) /\ new.targets[d] = t
            /\ \A e \in Devices : e # d => new.targets[e] = op.targets[e]
        BY <2>1, <3>2, MovedType
      <3>5. Eligible(new) = Eligible(op) /\ TargetIds(op) \subseteq Devices
        BY <3>1, <3>4 DEF Eligible, Kept, TargetIds
      <3>6. d \in Eligible(op) /\ op.targets[d].lifecycle # "Proposed"
            /\ t.lifecycle # "Proposed"
        BY <1>2, <3>1, <3>2, EligibleUnlessRejected DEF MovesFrom, MovesTo
      <3>7. Eligible(op) \cap InState(op, {"Proposed"}) = {}
        BY <1>2, <3>2, <3>6 DEF Together, InState
      <3>8. Eligible(new) \cap InState(new, {"Proposed"}) = {}
        BY <3>4, <3>5, <3>6, <3>7 DEF InState
      <3>9. QED
        BY <3>3, <3>8 DEF Together
    <2>5. QED
      BY <1>4, <2>2, <2>3, <2>4
  <1>5. QED
    BY <1>3, <1>4, StepCases

\* The invariant holds of every reachable state.
THEOREM LedgerInvariant == KioskSpec => []LedgerInv
  <1>1. KioskInit => LedgerInv
    BY CallAssumption DEF KioskInit, LedgerInv, KioskTypeOK, AllValid, ConfirmedTogether, Exists,
       Observed
  <1>2. LedgerInv /\ [KioskNext]_kioskVars => LedgerInv'
    BY LedgerStep
  <1>3. QED
    BY <1>1, <1>2, PTL DEF KioskSpec

\* Confirmation is of the whole preview or of nothing, for any number of
\* operations, targets, attempts and slots.
THEOREM ConfirmationIsWhole == KioskSpec => []ConfirmedTogether
  <1>1. LedgerInv => ConfirmedTogether
    BY DEF LedgerInv
  <1>2. QED
    BY <1>1, LedgerInvariant, PTL

\* The lifecycle shown for an operation is final exactly when it is settled.
THEOREM FinalIsSettled == KioskSpec => []FinalMeansSettled
  <1>1. LedgerInv => FinalMeansSettled
    <2>. SUFFICES ASSUME LedgerInv, NEW id \in OperationIds, Exists(id)
                  PROVE  DerivedLifecycle(operations[id]) \in Terminal <=>
                            TargetIds(operations[id]) = InState(operations[id], Terminal)
      BY DEF FinalMeansSettled
    <2>1. operations[id] \in Operation /\ OperationValid(operations[id])
      BY DEF LedgerInv, KioskTypeOK, AllValid, Exists
    <2>2. QED
      BY <2>1, FinalIffSettled
  <1>2. QED
    BY <1>1, LedgerInvariant, PTL

-----------------------------------------------------------------------------
(* HistoryIsKept and StartsOnlyWhatWasPreviewed: what one step may do to an  *)
(* operation the hub already holds.                                          *)

\* A confirmation finds every eligible target Proposed, hence unsent.
LEMMA ConfirmedFromProposed ==
    ASSUME NEW op \in Operation, OperationValid(op), Together(op),
           DerivedLifecycle(op) = "Proposed"
    PROVE  \A d \in Eligible(op) :
              /\ d \in TargetIds(op) /\ op.targets[d].lifecycle = "Proposed"
              /\ Attempts(op.targets[d]) = 0
  <1>. DEFINE held == {op.targets[d].lifecycle : d \in Eligible(op)}
  <1>1. "Proposed" \in held
    BY DEF DerivedLifecycle
  <1>2. PICK e \in Eligible(op) : op.targets[e].lifecycle = "Proposed"
    BY <1>1
  <1>3. Eligible(op) \subseteq InState(op, {"Proposed"})
    BY <1>2 DEF Together, InState, Eligible
  <1>4. \A d \in Eligible(op) :
           d \in TargetIds(op) /\ op.targets[d].lifecycle = "Proposed"
    BY <1>3 DEF InState
  <1>5. QED
    BY <1>4 DEF OperationValid, TargetValid, NeverSent

\* What HistoryIsKept promises of one operation.
OperationKept(old, new) ==
    /\ new.expires = old.expires
    /\ new.max_parallelism = old.max_parallelism
    /\ TargetIds(new) = TargetIds(old)
    /\ \A d \in TargetIds(old) :
        LET was == old.targets[d]
            is == new.targets[d]
        IN  /\ is.preflight = was.preflight
            /\ was.lifecycle \in {"Applied", "Cancelled", "Rejected"} => is = was
            /\ Attempts(is) >= Attempts(was)
            /\ SubSeq(is.request_ids, 1, Attempts(was)) = was.request_ids

\* Request histories that are kept, or grow by one, keep their prefix.
LEMMA PrefixKept ==
    ASSUME NEW was \in Target, NEW is \in Target,
           \/ is.request_ids = was.request_ids
           \/ \E request \in Requests : is.request_ids = Append(was.request_ids, request)
    PROVE  /\ Attempts(is) >= Attempts(was)
           /\ SubSeq(is.request_ids, 1, Attempts(was)) = was.request_ids
  <1>. DEFINE r == was.request_ids
  <1>1. r \in Seq(Requests) /\ Len(r) \in Nat
    BY DEF Target
  <1>2. CASE is.request_ids = r
    <2>1. SubSeq(r, 1, Len(r)) = r
      BY <1>1
    <2>2. QED
      BY <1>1, <1>2, <2>1 DEF Attempts
  <1>3. ASSUME NEW request \in Requests, is.request_ids = Append(r, request)
        PROVE  /\ Attempts(is) >= Attempts(was)
               /\ SubSeq(is.request_ids, 1, Attempts(was)) = r
    <2>1. /\ Append(r, request) \in Seq(Requests)
          /\ Len(Append(r, request)) = Len(r) + 1
      BY <1>1
    <2>2. \A i \in 1..Len(r) : Append(r, request)[i] = r[i]
      BY <1>1
    <2>3. SubSeq(Append(r, request), 1, Len(r)) = r
      BY <1>1, <2>1, <2>2
    <2>4. QED
      BY <1>1, <1>3, <2>1, <2>3 DEF Attempts
  <1>4. QED
    BY <1>2, <1>3

\* An operation as it was is kept.
LEMMA SameIsKept ==
    ASSUME NEW op \in Operation
    PROVE  OperationKept(op, op)
  <1>1. \A d \in TargetIds(op) : op.targets[d] \in Target
    BY DEF TargetIds, Operation
  <1>2. QED
    BY <1>1, PrefixKept DEF OperationKept

\* No call reopens, rewrites or forgets what an operation holds.
LEMMA EveryStepKeeps ==
    ASSUME LedgerInv, [KioskNext]_kioskVars, NEW id \in OperationIds, Exists(id)
    PROVE  OperationKept(operations[id], operations'[id])
  <1>. DEFINE op == operations[id]
  <1>1. op \in Operation /\ OperationValid(op) /\ Together(op) /\ KioskTypeOK
    BY DEF LedgerInv, KioskTypeOK, Exists, AllValid, ConfirmedTogether, Together
  <1>2. CASE operations'[id] = op
    BY <1>1, <1>2, SameIsKept
  <1>3. ASSUME NEW i \in OperationIds, NEW now \in Times, operations'[id] # op,
               NEW T \in SUBSET Devices, NEW p \in Parallelism, NEW a \in AttemptLimits,
               Preview(i, T, p, a, now)
        PROVE  OperationKept(op, operations'[id])
    BY <1>1, <1>3, Stored DEF Preview
  <1>4. ASSUME NEW i \in OperationIds, NEW now \in Times, operations'[id] # op,
               Confirm(i, now)
        PROVE  OperationKept(op, operations'[id])
    <2>. DEFINE new == Confirmed(op, now)
    <2>1. Store(i, Confirmed(operations[i], now))
      BY <1>4 DEF Confirm
    <2>2. i = id /\ operations'[id] = new
      BY <1>1, <1>4, <2>1, Stored
    <2>3. MayConfirm(op, observed, now) /\ now \in Nat
      BY <1>4, <2>2, CallAssumption DEF Confirm
    <2>4. DerivedLifecycle(op) = "Proposed"
      BY <2>3 DEF MayConfirm
    <2>5. \A d \in Eligible(op) : op.targets[d].lifecycle = "Proposed"
      BY <1>1, <2>4, ConfirmedFromProposed
    <2>6. /\ new \in Operation
          /\ new.expires = op.expires /\ new.max_parallelism = op.max_parallelism
          /\ TargetIds(new) = TargetIds(op)
          /\ \A d \in TargetIds(op) :
                /\ new.targets[d].preflight = op.targets[d].preflight
                /\ new.targets[d].request_ids = op.targets[d].request_ids
                /\ d \notin Eligible(op) => new.targets[d] = op.targets[d]
      BY <1>1, <2>3, ConfirmedType
    <2>7. \A d \in TargetIds(op) : op.targets[d] \in Target /\ new.targets[d] \in Target
      BY <1>1, <2>6 DEF TargetIds, Operation
    <2>. HIDE DEF new
    <2>8. QED
      BY <2>2, <2>5, <2>6, <2>7, PrefixKept DEF OperationKept
  <1>5. ASSUME NEW i \in OperationIds, NEW now \in Times, operations'[id] # op,
               NEW d \in Devices, TargetCall(i, d, now)
        PROVE  OperationKept(op, operations'[id])
    <2>1. PICK t \in Target :
             /\ Store(i, Moved(operations[i], d, now, t))
             /\ Kept(operations[i].targets[d], t)
             /\ operations[i].targets[d].lifecycle \in MovesFrom
      BY <1>1, <1>5, TargetCallMoves
    <2>. DEFINE new == Moved(op, d, now, t)
    <2>2. i = id /\ operations'[id] = new
      BY <1>1, <1>5, <2>1, Stored
    <2>3. d \in TargetIds(op) /\ now \in Nat
      BY <1>1, <1>5, <2>2, TargetCallMoves, CallAssumption
    <2>4. /\ new.expires = op.expires /\ new.max_parallelism = op.max_parallelism
          /\ TargetIds(new) = TargetIds(op)
          /\ new.targets[d] = t
          /\ \A e \in Devices : e # d => new.targets[e] = op.targets[e]
      BY <1>1, <2>3, MovedType
    <2>5. \A e \in TargetIds(op) : op.targets[e] \in Target /\ e \in Devices
      BY <1>1 DEF TargetIds, Operation
    <2>6. Kept(op.targets[d], t) /\ op.targets[d].lifecycle \in MovesFrom
      BY <2>1, <2>2
    <2>7. \A e \in TargetIds(op) :
             \/ new.targets[e] = op.targets[e]
             \/ e = d /\ new.targets[e] = t
      BY <2>4, <2>5
    <2>. HIDE DEF new
    <2>8. \A e \in TargetIds(op) :
             /\ new.targets[e].preflight = op.targets[e].preflight
             /\ op.targets[e].lifecycle \in {"Applied", "Cancelled", "Rejected"} =>
                   new.targets[e] = op.targets[e]
      BY <2>6, <2>7 DEF Kept, MovesFrom
    <2>9. \A e \in TargetIds(op) :
             /\ Attempts(new.targets[e]) >= Attempts(op.targets[e])
             /\ SubSeq(new.targets[e].request_ids, 1, Attempts(op.targets[e])) =
                   op.targets[e].request_ids
      BY <2>5, <2>6, <2>7, PrefixKept DEF Kept
    <2>10. QED
      BY <2>2, <2>4, <2>8, <2>9 DEF OperationKept
  <1>6. ASSUME NEW d \in Devices, NEW revision \in 1..MaxIdentity[d],
               NEW ready \in BOOLEAN, NEW now \in Times,
               Observe(d, revision, ready, now) \/ ObserveAgain(d, revision, now)
        PROVE  operations'[id] = op
    BY <1>6 DEF Observe, ObserveAgain
  <1>7. QED
    BY <1>2, <1>3, <1>4, <1>5, <1>6 DEF KioskNext, kioskVars

\* For any number of operations, targets and calls: previews stay frozen,
\* settled targets stay as they are, attempts are only ever added.
THEOREM HistoryStays == KioskSpec => HistoryIsKept
  <1>1. LedgerInv /\ [KioskNext]_kioskVars =>
          [\A id \in OperationIds : Exists(id) =>
            LET old == operations[id]
                new == operations'[id]
            IN  /\ new.expires = old.expires
                /\ new.max_parallelism = old.max_parallelism
                /\ TargetIds(new) = TargetIds(old)
                /\ \A d \in TargetIds(old) :
                    LET was == old.targets[d]
                        is == new.targets[d]
                    IN  /\ is.preflight = was.preflight
                        /\ was.lifecycle \in {"Applied", "Cancelled", "Rejected"} =>
                              is = was
                        /\ Attempts(is) >= Attempts(was)
                        /\ SubSeq(is.request_ids, 1, Attempts(was)) =
                              was.request_ids]_kioskVars
    BY EveryStepKeeps DEF OperationKept
  <1>2. QED
    BY <1>1, LedgerInvariant, PTL DEF KioskSpec, HistoryIsKept

\* Of the calls that concern a target, only a dispatch adds to its requests.
LEMMA OnlyDispatchStarts ==
    ASSUME KioskTypeOK, NEW id \in OperationIds, NEW d \in Devices, NEW now \in Times,
           TargetCall(id, d, now)
    PROVE  \/ operations'[id].targets[d].request_ids = operations[id].targets[d].request_ids
           \/ \E request \in Requests : Dispatch(id, d, request, now)
  <1>. DEFINE op == operations[id]
              was == op.targets[d]
              Same == operations'[id].targets[d].request_ids = was.request_ids
  <1>1. Exists(id) /\ op \in Operation /\ d \in TargetIds(op) /\ now \in Nat
    BY TargetCallMoves, CallAssumption
  <1>2. was \in Target
    BY <1>1 DEF TargetIds, Operation
  <1>3. ASSUME NEW t \in Target, Store(id, Moved(op, d, now, t)),
               t.request_ids = was.request_ids
        PROVE  Same
    <2>1. operations'[id] = Moved(op, d, now, t)
      BY <1>3, Stored
    <2>2. Moved(op, d, now, t).targets[d] = t
      BY <1>1, MovedType
    <2>3. QED
      BY <1>3, <2>1, <2>2
  <1>4. ASSUME NEW state \in Lifecycle, NEW receipt \in Requests \cup {NoRequest}
        PROVE  /\ [was EXCEPT !.lifecycle = state, !.receipt = receipt] \in Target
               /\ [was EXCEPT !.lifecycle = state, !.receipt = receipt].request_ids
                     = was.request_ids
               /\ [was EXCEPT !.lifecycle = state] \in Target
               /\ [was EXCEPT !.lifecycle = state].request_ids = was.request_ids
    BY <1>2 DEF Target
  <1>5. ASSUME NEW request \in Requests, NEW revision \in 1..MaxIdentity[d],
               ApplyReceipt(id, d, revision, request, now)
        PROVE  Same
    BY <1>3, <1>4, <1>5 DEF ApplyReceipt, Applied, Lifecycle, Terminal
  <1>6. ASSUME MarkRunning(id, d, now) PROVE Same
    BY <1>3, <1>4, <1>6 DEF MarkRunning, MarkedRunning, Lifecycle, InFlight
  <1>7. ASSUME NEW outcome \in {"Failed", "Expired"}, Finish(id, d, outcome, now)
        PROVE  Same
    BY <1>3, <1>4, <1>7 DEF Finish, Finished, Lifecycle, Terminal
  <1>8. ASSUME RequestCancellation(id, d, now) PROVE Same
    BY <1>3, <1>4, <1>8 DEF RequestCancellation, CancellationRequested, Lifecycle
  <1>9. ASSUME CompleteCancellation(id, d, now) PROVE Same
    BY <1>3, <1>4, <1>9 DEF CompleteCancellation, CancellationCompleted, Lifecycle,
                            Terminal
  <1>10. QED
    BY <1>5, <1>6, <1>7, <1>8, <1>9 DEF TargetCall

\* What a dispatch finds: the device as the preview froze it, and ready.
LEMMA DispatchFindsPreview ==
    ASSUME LedgerInv, NEW id \in OperationIds, NEW d \in Devices, NEW now \in Times,
           NEW request \in Requests, Dispatch(id, d, request, now)
    PROVE  LET was == operations[id].targets[d] IN
           /\ observed[d].identity_revision = was.preflight.identity_revision
           /\ observed[d].evidence = was.preflight.evidence
           /\ observed[d].ready
  <1>. DEFINE op == operations[id]
              was == op.targets[d]
              now_seen == Preflight(observed[d], now)
  <1>1. Exists(id) /\ d \in TargetIds(op) /\ was.lifecycle \in {"Accepted", "Failed", "Expired"}
    BY DEF Dispatch, MayDispatch
  <1>2. op \in Operation /\ OperationValid(op)
    BY <1>1 DEF LedgerInv, KioskTypeOK, Exists, AllValid
  <1>3. was.preflight = now_seen
    BY DEF Dispatch, MayDispatch, TargetCurrent
  <1>4. d \in Eligible(op)
    BY <1>1, <1>2, EligibleUnlessRejected
  <1>5. now_seen.eligible
    BY <1>3, <1>4 DEF Eligible
  <1>6. observed[d].ready
    BY <1>5 DEF Preflight
  <1>7. QED
    BY <1>3, <1>6 DEF Preflight

\* A target gains an attempt only in a step that finds its device as previewed.
LEMMA StartsFindPreview ==
    ASSUME LedgerInv, [KioskNext]_kioskVars, NEW id \in OperationIds, Exists(id),
           NEW d \in TargetIds(operations[id]),
           Attempts(operations'[id].targets[d]) > Attempts(operations[id].targets[d])
    PROVE  LET was == operations[id].targets[d] IN
           /\ observed[d].identity_revision = was.preflight.identity_revision
           /\ observed[d].evidence = was.preflight.evidence
           /\ observed[d].ready
  <1>. DEFINE op == operations[id]
              was == op.targets[d]
              Shown == /\ observed[d].identity_revision = was.preflight.identity_revision
                       /\ observed[d].evidence = was.preflight.evidence
                       /\ observed[d].ready
  <1>1. op \in Operation /\ KioskTypeOK /\ d \in Devices /\ was \in Target
    BY DEF LedgerInv, KioskTypeOK, Exists, TargetIds, Operation
  <1>2. Attempts(was) \in Nat
    BY <1>1 DEF Attempts, Target
  <1>3. operations'[id].targets[d].request_ids # was.request_ids
    <2>1. ASSUME operations'[id].targets[d].request_ids = was.request_ids
          PROVE  Attempts(operations'[id].targets[d]) = Attempts(was)
      BY <2>1 DEF Attempts
    <2>2. ~(Attempts(was) > Attempts(was))
      BY <1>2
    <2>3. QED
      BY <2>1, <2>2
  <1>4. ASSUME NEW i \in OperationIds, NEW now \in Times, Confirm(i, now)
        PROVE  FALSE
    <2>1. Store(i, Confirmed(operations[i], now)) /\ now \in Nat
      BY <1>4, CallAssumption DEF Confirm
    <2>2. operations'[id] = Confirmed(op, now)
      BY <1>1, <1>3, <2>1, Stored
    <2>3. QED
      BY <1>1, <1>3, <2>1, <2>2, ConfirmedType
  <1>5. ASSUME NEW i \in OperationIds, NEW now \in Times, NEW T \in SUBSET Devices,
               NEW p \in Parallelism, NEW a \in AttemptLimits, Preview(i, T, p, a, now)
        PROVE  FALSE
    BY <1>1, <1>3, <1>5, Stored DEF Preview
  <1>6. ASSUME NEW i \in OperationIds, NEW now \in Times, NEW e \in Devices,
               TargetCall(i, e, now)
        PROVE  Shown
    <2>1. PICK t \in Target : Store(i, Moved(operations[i], e, now, t))
      BY <1>1, <1>6, TargetCallMoves
    <2>2. i = id /\ operations'[id] = Moved(op, e, now, t)
      BY <1>1, <1>3, <2>1, Stored
    <2>3. e \in TargetIds(op) /\ now \in Nat
      BY <1>1, <1>6, <2>2, TargetCallMoves, CallAssumption
    <2>4. \A x \in Devices : x # e => operations'[id].targets[x] = op.targets[x]
      BY <1>1, <2>2, <2>3, MovedType
    <2>5. e = d
      BY <1>1, <1>3, <2>4
    <2>6. PICK request \in Requests : Dispatch(id, d, request, now)
      BY <1>1, <1>3, <1>6, <2>2, <2>5, OnlyDispatchStarts
    <2>7. QED
      BY <1>1, <2>6, DispatchFindsPreview
  <1>7. ASSUME NEW e \in Devices, NEW revision \in 1..MaxIdentity[e],
               NEW ready \in BOOLEAN, NEW now \in Times,
               Observe(e, revision, ready, now) \/ ObserveAgain(e, revision, now)
        PROVE  FALSE
    BY <1>3, <1>7 DEF Observe, ObserveAgain
  <1>8. ~UNCHANGED kioskVars
    BY <1>3 DEF kioskVars
  <1>9. QED
    BY <1>4, <1>5, <1>6, <1>7, <1>8 DEF KioskNext

\* For any number of operations, devices and check-ins in between: an attempt
\* starts only for the identity and the evidence that the preview showed.
THEOREM StartsWhatWasPreviewed == KioskSpec => StartsOnlyWhatWasPreviewed
  <1>1. LedgerInv /\ [KioskNext]_kioskVars =>
          [\A id \in OperationIds : Exists(id) =>
            \A d \in TargetIds(operations[id]) :
                LET was == operations[id].targets[d]
                    is == operations'[id].targets[d]
                IN  Attempts(is) > Attempts(was) =>
                        /\ observed[d].identity_revision = was.preflight.identity_revision
                        /\ observed[d].evidence = was.preflight.evidence
                        /\ observed[d].ready]_kioskVars
    BY StartsFindPreview
  <1>2. QED
    BY <1>1, LedgerInvariant, PTL DEF KioskSpec, StartsOnlyWhatWasPreviewed

-----------------------------------------------------------------------------
(* GuardsSuffice.  The contract check of a call never refuses what its guard *)
(* lets through, so each new record is shown valid from the guard and the    *)
(* validity of the old one.  A dispatch is dated after the creation only     *)
(* because the last transition is, which no contract says: CreatedFirst.     *)

CreatedFirst ==
    \A id \in OperationIds : Exists(id) =>
        operations[id].created <= operations[id].last_transition

GuardsInv == LedgerInv /\ CreatedFirst

\* Every call on a target is made at a time not before the last transition.
LEMMA TargetCallMonotonic ==
    ASSUME NEW id \in OperationIds, NEW d \in Devices, NEW now \in Times,
           TargetCall(id, d, now)
    PROVE  Monotonic(operations[id], now)
  BY DEF TargetCall, Dispatch, MayDispatch, ApplyReceipt, MayApply, MarkRunning,
         MayMarkRunning, Finish, MayFinish, RequestCancellation,
         MayRequestCancellation, CompleteCancellation, MayCompleteCancellation

\* No step dates a transition before the creation of its operation.
LEMMA CreatedFirstStep ==
    ASSUME GuardsInv, [KioskNext]_kioskVars
    PROVE  CreatedFirst'
  <1>. SUFFICES ASSUME NEW id \in OperationIds, operations'[id] # NoOperation
                PROVE  operations'[id].created <= operations'[id].last_transition
    BY DEF CreatedFirst, Exists
  <1>1. KioskTypeOK
    BY DEF GuardsInv, LedgerInv
  <1>2. CASE operations'[id] = operations[id]
    BY <1>2 DEF GuardsInv, CreatedFirst, Exists
  <1>3. ASSUME NEW i \in OperationIds, NEW now \in Times, NEW T \in SUBSET Devices,
               NEW p \in Parallelism, NEW a \in AttemptLimits,
               operations'[id] # operations[id], Preview(i, T, p, a, now)
        PROVE  operations'[id].created <= operations'[id].last_transition
    <2>1. operations'[id] = Previewed(T, observed, now, Lifetime, p, a) /\ now \in Nat
      BY <1>1, <1>3, Stored, CallAssumption DEF Preview
    <2>2. QED
      BY <2>1 DEF Previewed
  <1>4. ASSUME NEW i \in OperationIds, NEW now \in Times,
               operations'[id] # operations[id], Confirm(i, now)
        PROVE  operations'[id].created <= operations'[id].last_transition
    <2>1. /\ i = id /\ Exists(id) /\ Monotonic(operations[id], now) /\ now \in Nat
          /\ operations'[id] = Confirmed(operations[id], now)
      BY <1>1, <1>4, Stored, CallAssumption DEF Confirm, MayConfirm
    <2>2. operations[id] \in Operation
      BY <1>1, <2>1 DEF KioskTypeOK, Exists
    <2>3. /\ Confirmed(operations[id], now).created = operations[id].created
          /\ Confirmed(operations[id], now).last_transition = now
      BY <2>2 DEF Confirmed, Operation
    <2>4. QED
      BY <2>1, <2>2, <2>3 DEF Monotonic, GuardsInv, CreatedFirst, Operation
  <1>5. ASSUME NEW i \in OperationIds, NEW now \in Times, NEW d \in Devices,
               operations'[id] # operations[id], TargetCall(i, d, now)
        PROVE  operations'[id].created <= operations'[id].last_transition
    <2>1. PICK t \in Target : Store(i, Moved(operations[i], d, now, t))
      BY <1>1, <1>5, TargetCallMoves
    <2>2. i = id /\ operations'[id] = Moved(operations[id], d, now, t)
      BY <1>1, <1>5, <2>1, Stored
    <2>3. /\ Exists(id) /\ operations[id] \in Operation
          /\ Monotonic(operations[id], now) /\ now \in Nat
      BY <1>1, <1>5, <2>2, TargetCallMoves, TargetCallMonotonic, CallAssumption
    <2>4. /\ Moved(operations[id], d, now, t).created = operations[id].created
          /\ Moved(operations[id], d, now, t).last_transition = now
      BY <2>3 DEF Moved, Operation
    <2>5. QED
      BY <2>2, <2>3, <2>4 DEF Monotonic, GuardsInv, CreatedFirst, Operation
  <1>6. ASSUME NEW d \in Devices, NEW revision \in 1..MaxIdentity[d],
               NEW ready \in BOOLEAN, NEW now \in Times,
               Observe(d, revision, ready, now) \/ ObserveAgain(d, revision, now)
        PROVE  operations'[id] = operations[id]
    BY <1>6 DEF Observe, ObserveAgain
  <1>7. QED
    BY <1>2, <1>3, <1>4, <1>5, <1>6 DEF KioskNext, kioskVars

\* The invariant behind GuardsSuffice.
THEOREM GuardsInvariant == KioskSpec => []GuardsInv
  <1>1. KioskInit => GuardsInv
    BY CallAssumption DEF KioskInit, GuardsInv, LedgerInv, KioskTypeOK, AllValid,
       ConfirmedTogether, CreatedFirst, Exists, Observed
  <1>2. GuardsInv /\ [KioskNext]_kioskVars => GuardsInv'
    BY LedgerStep, CreatedFirstStep DEF GuardsInv
  <1>3. QED
    BY <1>1, <1>2, PTL DEF KioskSpec

\* A target that stays valid under a later last transition.
LEMMA LaterKeepsValid ==
    ASSUME NEW op \in Operation, NEW new \in Operation, NEW t \in Target,
           TargetValid(op, t),
           new.created = op.created, new.expires = op.expires,
           new.max_attempts = op.max_attempts,
           op.last_transition <= new.last_transition
    PROVE  TargetValid(new, t)
  BY DEF TargetValid, Operation, Target, NoTime

\* Moving one target of a valid operation to a valid target keeps it valid, as
\* long as a target that is put in flight finds a free slot.
LEMMA MovedValid ==
    ASSUME NEW op \in Operation, OperationValid(op), NEW d \in TargetIds(op),
           NEW now \in Nat, Monotonic(op, now), NEW t \in Target,
           TargetValid(Moved(op, d, now, t), t),
           t.lifecycle \in InFlight =>
              \/ op.targets[d].lifecycle \in InFlight
              \/ Cardinality(InState(op, InFlight)) < op.max_parallelism
    PROVE  OperationValid(Moved(op, d, now, t))
  <1>. DEFINE new == Moved(op, d, now, t)
              before == InState(op, InFlight)
              after == InState(new, InFlight)
  <1>1. /\ new \in Operation
        /\ new.expires = op.expires /\ new.max_parallelism = op.max_parallelism
        /\ TargetIds(new) = TargetIds(op)
        /\ new.targets[d] = t
        /\ \A e \in Devices : e # d => new.targets[e] = op.targets[e]
    BY MovedType
  <1>2. /\ new.created = op.created /\ new.max_attempts = op.max_attempts
        /\ new.last_transition = now
    BY DEF Moved, Operation
  <1>3. \A e \in TargetIds(op) : e \in Devices /\ op.targets[e] \in Target
    BY DEF TargetIds, Operation
  <1>4. op.last_transition <= new.last_transition
    BY <1>2 DEF Monotonic
  <1>. HIDE DEF new
  <1>5. ASSUME NEW e \in TargetIds(new)
        PROVE  TargetValid(new, new.targets[e])
    <2>1. CASE e = d
      BY <1>1, <2>1 DEF new
    <2>2. CASE e # d
      <3>1. new.targets[e] = op.targets[e] /\ op.targets[e] \in Target
        BY <1>1, <1>3, <2>2
      <3>2. TargetValid(op, op.targets[e])
        BY <1>1 DEF OperationValid
      <3>3. QED
        BY <1>1, <1>2, <1>4, <3>1, <3>2, LaterKeepsValid
    <2>3. QED
      BY <2>1, <2>2
  <1>6. before \subseteq Devices /\ IsFiniteSet(before) /\ Cardinality(before) \in Nat
    <2>1. before \subseteq Devices
      BY DEF InState, TargetIds
    <2>2. QED
      BY <2>1, LedgerAssumption, FS_Subset, FS_CardinalityType
  <1>7. after \subseteq before \cup {d}
    BY <1>1, <1>3 DEF InState
  <1>8. Cardinality(before) <= op.max_parallelism /\ op.max_parallelism \in Nat
    BY DEF OperationValid, Operation
  <1>9. CASE t.lifecycle \in InFlight /\ op.targets[d].lifecycle \notin InFlight
    <2>1. d \notin before
      BY <1>9 DEF InState
    <2>2. /\ IsFiniteSet(before \cup {d})
          /\ Cardinality(before \cup {d}) = Cardinality(before) + 1
      BY <1>6, <2>1, FS_AddElement
    <2>3. Cardinality(after) <= Cardinality(before \cup {d})
      BY <1>7, <2>2, FS_Subset
    <2>4. Cardinality(after) \in Nat
      BY <1>7, <2>2, FS_Subset, FS_CardinalityType
    <2>5. Cardinality(after) <= new.max_parallelism
      BY <1>1, <1>6, <1>8, <1>9, <2>2, <2>3, <2>4
    <2>6. QED
      BY <1>1, <1>2, <1>5, <2>5 DEF OperationValid, new
  <1>10. CASE ~(t.lifecycle \in InFlight /\ op.targets[d].lifecycle \notin InFlight)
    <2>1. after \subseteq before
      BY <1>1, <1>3, <1>7, <1>10 DEF InState
    <2>2. Cardinality(after) <= Cardinality(before) /\ Cardinality(after) \in Nat
      BY <1>6, <2>1, FS_Subset, FS_CardinalityType
    <2>3. Cardinality(after) <= new.max_parallelism
      BY <1>1, <1>6, <1>8, <2>2
    <2>4. QED
      BY <1>1, <1>2, <1>5, <2>3 DEF OperationValid, new
  <1>11. QED
    BY <1>9, <1>10 DEF new

\* A target that leaves its state without being sent again, and keeps being one
\* that was sent or was not, stays valid.
LEMMA UnsentMoveValid ==
    ASSUME NEW op \in Operation, OperationValid(op), NEW d \in TargetIds(op),
           NEW now \in Nat, Monotonic(op, now), NEW t \in Target,
           t.preflight = op.targets[d].preflight,
           t.request_ids = op.targets[d].request_ids,
           t.dispatched_at = op.targets[d].dispatched_at,
           op.targets[d].lifecycle # "Rejected", t.lifecycle # "Rejected",
           op.targets[d].lifecycle \in NeverSent <=> t.lifecycle \in NeverSent,
           t.lifecycle \in InFlight => op.targets[d].lifecycle \in InFlight,
           t.receipt = IF t.lifecycle = "Applied" THEN CurrentRequest(t) ELSE NoRequest
    PROVE  OperationValid(Moved(op, d, now, t))
  <1>. DEFINE new == Moved(op, d, now, t)
              was == op.targets[d]
  <1>1. /\ new.created = op.created /\ new.expires = op.expires
        /\ new.max_attempts = op.max_attempts /\ new.last_transition = now
    BY DEF Moved, Operation
  <1>2. was \in Target /\ TargetValid(op, was)
    BY DEF OperationValid, TargetIds, Operation
  <1>3. Attempts(t) = Attempts(was)
    BY DEF Attempts
  <1>4. op.last_transition <= now /\ op.last_transition \in Nat
    BY DEF Monotonic, Operation
  <1>. HIDE DEF new
  <1>5. TargetValid(new, t)
    <2>1. Attempts(t) <= new.max_attempts /\ Distinct(t.request_ids)
      BY <1>1, <1>2, <1>3 DEF TargetValid
    <2>2. t.preflight.eligible <=> t.lifecycle # "Rejected"
      BY <1>2 DEF TargetValid
    <2>3. (t.lifecycle \in NeverSent \cup {"Rejected"}) <=> Attempts(t) = 0
      BY <1>2, <1>3 DEF TargetValid
    <2>4. IF Attempts(t) = 0
          THEN t.dispatched_at = NoTime
          ELSE /\ new.created <= t.dispatched_at
               /\ t.dispatched_at <= new.last_transition
               /\ t.dispatched_at < new.expires
      <3>1. CASE Attempts(was) = 0
        BY <1>2, <1>3, <3>1 DEF TargetValid
      <3>2. CASE Attempts(was) # 0
        <4>1. /\ op.created <= was.dispatched_at
              /\ was.dispatched_at <= op.last_transition
              /\ was.dispatched_at < op.expires
          BY <1>2, <3>2 DEF TargetValid
        <4>2. was.dispatched_at \in Int
          BY <1>2 DEF Target, NoTime
        <4>3. QED
          BY <1>1, <1>3, <1>4, <3>2, <4>1, <4>2
      <3>3. QED
        BY <3>1, <3>2
    <2>5. QED
      BY <2>1, <2>2, <2>3, <2>4 DEF TargetValid
  <1>6. QED
    BY <1>5, MovedValid DEF new

\* Confirming a valid operation that is Proposed as a whole keeps it valid:
\* none of its targets is in flight.
LEMMA ConfirmedValid ==
    ASSUME NEW op \in Operation, OperationValid(op), Together(op), NEW now \in Nat,
           DerivedLifecycle(op) = "Proposed", Monotonic(op, now)
    PROVE  OperationValid(Confirmed(op, now))
  <1>. DEFINE new == Confirmed(op, now)
  <1>1. /\ new \in Operation
        /\ new.expires = op.expires /\ new.max_parallelism = op.max_parallelism
        /\ TargetIds(new) = TargetIds(op)
        /\ \A d \in TargetIds(op) :
              /\ new.targets[d].preflight = op.targets[d].preflight
              /\ new.targets[d].request_ids = op.targets[d].request_ids
              /\ IF d \in Eligible(op) THEN new.targets[d].lifecycle = "Accepted"
                                       ELSE new.targets[d] = op.targets[d]
    BY ConfirmedType
  <1>2. /\ new.created = op.created /\ new.max_attempts = op.max_attempts
        /\ new.last_transition = now
    BY DEF Confirmed, Operation
  <1>3. \A d \in Eligible(op) :
           new.targets[d] = [op.targets[d] EXCEPT !.lifecycle = "Accepted"]
    BY DEF Confirmed, Operation, Eligible, TargetIds
  <1>4. \A d \in TargetIds(op) : op.targets[d] \in Target /\ TargetValid(op, op.targets[d])
    BY DEF OperationValid, TargetIds, Operation
  <1>5. op.last_transition <= new.last_transition
    BY <1>2 DEF Monotonic
  <1>6. \A d \in TargetIds(op) :
           d \in Eligible(op) <=> op.targets[d].lifecycle # "Rejected"
    BY EligibleUnlessRejected
  <1>. HIDE DEF new
  <1>7. ASSUME NEW d \in TargetIds(op), d \in Eligible(op)
        PROVE  TargetValid(new, new.targets[d])
    <2>. DEFINE was == op.targets[d]
                is == new.targets[d]
    <2>1. was.lifecycle = "Proposed" /\ Attempts(was) = 0
      BY <1>7, ConfirmedFromProposed
    <2>2. /\ is.lifecycle = "Accepted" /\ is.preflight = was.preflight
          /\ is.request_ids = was.request_ids
          /\ is.dispatched_at = was.dispatched_at /\ is.receipt = was.receipt
      BY <1>3, <1>4, <1>7 DEF Target
    <2>3. TargetValid(op, was)
      BY <1>4
    <2>4. Attempts(is) = 0 /\ Attempts(is) <= new.max_attempts
      BY <1>2, <2>1, <2>2, <2>3 DEF Attempts, TargetValid
    <2>5. was.receipt = NoRequest /\ was.dispatched_at = NoTime
      BY <2>1, <2>3 DEF TargetValid
    <2>6. is.preflight.eligible /\ Distinct(is.request_ids)
      BY <2>1, <2>2, <2>3 DEF TargetValid
    <2>. HIDE DEF is, was
    <2>7. QED
      BY <2>2, <2>4, <2>5, <2>6 DEF TargetValid, NeverSent, is
  <1>8. ASSUME NEW d \in TargetIds(op), d \notin Eligible(op)
        PROVE  TargetValid(new, new.targets[d])
    <2>1. new.targets[d] = op.targets[d] /\ op.targets[d] \in Target
      BY <1>1, <1>4, <1>8
    <2>2. QED
      BY <1>1, <1>2, <1>4, <1>5, <2>1, LaterKeepsValid
  <1>9. InState(new, InFlight) = {}
    <2>1. \A d \in TargetIds(op) : new.targets[d].lifecycle \in {"Accepted", "Rejected"}
      BY <1>1, <1>6
    <2>2. QED
      BY <1>1, <2>1 DEF InState, InFlight
  <1>10. Cardinality(InState(new, InFlight)) <= new.max_parallelism
    BY <1>1, <1>9, FS_EmptySet DEF Operation
  <1>11. op.created < op.expires
    BY DEF OperationValid
  <1>12. QED
    BY <1>1, <1>2, <1>7, <1>8, <1>10, <1>11 DEF OperationValid, new

\* A dispatch, other than at the instant of expiry, leaves a valid operation.
LEMMA DispatchedValid ==
    ASSUME NEW op \in Operation, OperationValid(op), NEW d \in TargetIds(op),
           op.created <= op.last_transition,
           NEW now \in Nat, NEW request \in Requests, NEW view,
           MayDispatch(op, d, request, view, now), now # op.expires
    PROVE  OperationValid(Dispatched(op, d, request, now))
  <1>. DEFINE was == op.targets[d]
              t == [was EXCEPT !.lifecycle = "Dispatched", !.dispatched_at = now,
                               !.request_ids = Append(@, request),
                               !.receipt = NoRequest]
              new == Moved(op, d, now, t)
  <1>1. /\ new.created = op.created /\ new.expires = op.expires
        /\ new.max_attempts = op.max_attempts /\ new.last_transition = now
    BY DEF Moved, Operation
  <1>2. was \in Target /\ TargetValid(op, was)
    BY DEF OperationValid, TargetIds, Operation
  <1>3. /\ was.request_ids \in Seq(Requests) /\ Attempts(was) \in Nat
        /\ Attempts(was) = Len(was.request_ids)
    BY <1>2 DEF Target, Attempts
  <1>4. /\ t \in Target /\ t.preflight = was.preflight /\ t.lifecycle = "Dispatched"
        /\ t.dispatched_at = now /\ t.receipt = NoRequest
        /\ t.request_ids = Append(was.request_ids, request)
    <2>1. Append(was.request_ids, request) \in Seq(Requests)
      BY <1>3
    <2>2. QED
      BY <1>2, <2>1 DEF Target, Lifecycle, InFlight
  <1>5. /\ op.last_transition <= now /\ now <= op.expires
        /\ was.lifecycle \in {"Accepted", "Failed", "Expired"}
        /\ Attempts(was) < op.max_attempts
        /\ \A i \in 1..Attempts(was) : was.request_ids[i] # request
        /\ Cardinality(InState(op, InFlight)) < op.max_parallelism
    BY DEF MayDispatch, Monotonic
  <1>6. op.created \in Nat /\ op.last_transition \in Nat /\ op.expires \in Nat
        /\ op.max_attempts \in Nat
    BY DEF Operation
  <1>. HIDE DEF t
  <1>7. Attempts(t) = Attempts(was) + 1
    BY <1>3, <1>4 DEF Attempts
  <1>8. Distinct(t.request_ids)
    <2>1. Distinct(was.request_ids)
      BY <1>2 DEF TargetValid
    <2>. DEFINE r == was.request_ids
                s == Append(r, request)
    <2>2. Len(s) = Len(r) + 1 /\ s[Len(r) + 1] = request /\ Len(r) \in Nat
      BY <1>3
    <2>3. \A i \in 1..Len(r) : s[i] = r[i] /\ r[i] # request
      BY <1>3, <1>5
    <2>4. \A i, j \in 1..Len(r) : r[i] = r[j] => i = j
      BY <2>1 DEF Distinct
    <2>. HIDE DEF r, s
    <2>5. Distinct(s)
      BY <2>2, <2>3, <2>4 DEF Distinct
    <2>6. QED
      BY <1>4, <2>5 DEF r, s
  <1>9. was.preflight.eligible
    BY <1>2, <1>5 DEF TargetValid
  <1>10. TargetValid(new, t)
    <2>1. /\ op.created <= now /\ now <= new.last_transition /\ now < op.expires
      BY <1>1, <1>5, <1>6
    <2>2. Attempts(t) # 0 /\ Attempts(t) <= op.max_attempts
      BY <1>3, <1>5, <1>6, <1>7
    <2>3. t.lifecycle \notin NeverSent \cup {"Rejected"}
      BY <1>4 DEF NeverSent
    <2>. HIDE DEF new
    <2>4. QED
      BY <1>1, <1>4, <1>8, <1>9, <2>1, <2>2, <2>3 DEF TargetValid
  <1>11. OperationValid(new)
    BY <1>4, <1>5, <1>10, MovedValid DEF Monotonic
  <1>12. QED
    BY <1>11 DEF Dispatched, t

\* The other calls on a target leave a valid operation.
LEMMA OtherCallsValid ==
    ASSUME NEW op \in Operation, OperationValid(op), NEW d \in TargetIds(op),
           NEW now \in Nat
    PROVE  /\ \A request \in Requests :
                 MayApply(op, d, op.targets[d].preflight.identity_revision,
                          request, now) =>
                    OperationValid(Applied(op, d, request, now))
           /\ MayMarkRunning(op, d, now) => OperationValid(MarkedRunning(op, d, now))
           /\ MayFinish(op, d, now) => OperationValid(Finished(op, d, "Failed", now))
           /\ MayRequestCancellation(op, d, now) =>
                 OperationValid(CancellationRequested(op, d, now))
           /\ MayCompleteCancellation(op, d, now) =>
                 OperationValid(CancellationCompleted(op, d, now))
  <1>. DEFINE was == op.targets[d]
              with(state) == [was EXCEPT !.lifecycle = state]
  <1>1. was \in Target /\ TargetValid(op, was)
    BY DEF OperationValid, TargetIds, Operation
  <1>2. ASSUME NEW state \in Lifecycle \ {"Applied", "Rejected"}, Monotonic(op, now),
               was.lifecycle \notin {"Applied", "Rejected"},
               was.lifecycle \in NeverSent <=> state \in NeverSent,
               state \in InFlight => was.lifecycle \in InFlight
        PROVE  OperationValid(Moved(op, d, now, with(state)))
    <2>. DEFINE t == with(state)
    <2>1. /\ t \in Target /\ t.preflight = was.preflight /\ t.lifecycle = state
          /\ t.dispatched_at = was.dispatched_at /\ t.request_ids = was.request_ids
          /\ t.receipt = was.receipt
      BY <1>1 DEF Target
    <2>2. was.receipt = NoRequest
      BY <1>1, <1>2 DEF TargetValid
    <2>. HIDE DEF t
    <2>3. OperationValid(Moved(op, d, now, t))
      BY <1>2, <2>1, <2>2, UnsentMoveValid
    <2>4. QED
      BY <2>3 DEF t
  <1>3. ASSUME NEW request \in Requests,
               MayApply(op, d, was.preflight.identity_revision, request, now)
        PROVE  OperationValid(Applied(op, d, request, now))
    <2>. DEFINE t == [was EXCEPT !.lifecycle = "Applied", !.receipt = request]
    <2>1. /\ t \in Target /\ t.preflight = was.preflight /\ t.lifecycle = "Applied"
          /\ t.dispatched_at = was.dispatched_at /\ t.request_ids = was.request_ids
          /\ t.receipt = request
      BY <1>1 DEF Target, Lifecycle, Terminal
    <2>2. /\ Monotonic(op, now) /\ was.lifecycle \in InFlight
          /\ request = CurrentRequest(was)
      BY <1>3 DEF MayApply
    <2>. HIDE DEF t
    <2>3. CurrentRequest(t) = CurrentRequest(was)
      BY <2>1 DEF CurrentRequest
    <2>4. OperationValid(Moved(op, d, now, t))
      BY <2>1, <2>2, <2>3, UnsentMoveValid DEF InFlight, NeverSent
    <2>5. QED
      BY <2>4 DEF t, Applied
  <1>4. MayMarkRunning(op, d, now) => OperationValid(MarkedRunning(op, d, now))
    BY <1>2 DEF MayMarkRunning, MarkedRunning, Lifecycle, InFlight, NeverSent
  <1>5. MayFinish(op, d, now) => OperationValid(Finished(op, d, "Failed", now))
    BY <1>2 DEF MayFinish, Finished, Lifecycle, InFlight, Terminal, NeverSent
  <1>6. MayRequestCancellation(op, d, now) =>
           OperationValid(CancellationRequested(op, d, now))
    BY <1>2 DEF MayRequestCancellation, CancellationRequested, Lifecycle, InFlight,
                NeverSent
  <1>7. MayCompleteCancellation(op, d, now) =>
           OperationValid(CancellationCompleted(op, d, now))
    BY <1>2 DEF MayCompleteCancellation, CancellationCompleted, Lifecycle, InFlight,
                Terminal, NeverSent
  <1>8. QED
    BY <1>3, <1>4, <1>5, <1>6, <1>7

\* For any number of operations, targets, slots and attempts: the contract
\* check at the end of a call refuses nothing that its guard lets through, but
\* for a dispatch at the very instant the preview expires.
THEOREM GuardsAreEnough == KioskSpec => []GuardsSuffice
  <1>1. ASSUME GuardsInv, NEW id \in OperationIds, Exists(id), NEW now \in Times
        PROVE  LET op == operations[id] IN
            /\ MayConfirm(op, observed, now) => OperationValid(Confirmed(op, now))
            /\ \A d \in TargetIds(op) :
                /\ \A request \in Requests :
                    /\ MayDispatch(op, d, request, observed[d], now)
                          /\ now # op.expires =>
                             OperationValid(Dispatched(op, d, request, now))
                    /\ MayApply(op, d, op.targets[d].preflight.identity_revision,
                                request, now) =>
                          OperationValid(Applied(op, d, request, now))
                /\ MayMarkRunning(op, d, now) =>
                      OperationValid(MarkedRunning(op, d, now))
                /\ MayFinish(op, d, now) =>
                      OperationValid(Finished(op, d, "Failed", now))
                /\ MayRequestCancellation(op, d, now) =>
                      OperationValid(CancellationRequested(op, d, now))
                /\ MayCompleteCancellation(op, d, now) =>
                      OperationValid(CancellationCompleted(op, d, now))
    <2>. DEFINE op == operations[id]
    <2>1. /\ op \in Operation /\ OperationValid(op) /\ Together(op)
          /\ op.created <= op.last_transition /\ now \in Nat
      BY <1>1, CallAssumption DEF GuardsInv, LedgerInv, KioskTypeOK, Exists, AllValid,
         ConfirmedTogether, Together, CreatedFirst
    <2>2. MayConfirm(op, observed, now) => OperationValid(Confirmed(op, now))
      BY <2>1, ConfirmedValid DEF MayConfirm
    <2>3. ASSUME NEW d \in TargetIds(op), NEW request \in Requests,
                 MayDispatch(op, d, request, observed[d], now), now # op.expires
          PROVE  OperationValid(Dispatched(op, d, request, now))
      BY <2>1, <2>3, DispatchedValid
    <2>. HIDE DEF op
    <2>4. QED
      BY <2>1, <2>2, <2>3, OtherCallsValid DEF op
  <1>2. GuardsInv => GuardsSuffice
    BY <1>1 DEF GuardsSuffice
  <1>3. QED
    BY <1>2, GuardsInvariant, PTL
=============================================================================
