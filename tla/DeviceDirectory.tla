-------------------------- MODULE DeviceDirectory --------------------------
(***************************************************************************)
(* The device ledger of FleetHub (crates/fleet-hub/src/lib.rs): which      *)
(* observations of a headset are accepted, which are rejected and why, and *)
(* the bounded watch log that records every decision.                      *)
(*                                                                         *)
(* A headset names its identity revision, the epoch of the process that    *)
(* produced the observation and a revision that counts within the epoch.   *)
(* Those three are the lineage.  `admitted` is a history variable: the     *)
(* lineages ever accepted, each with the result revision it was given.     *)
(***************************************************************************)
EXTENDS Integers, Sequences, FiniteSets

CONSTANTS
    DeviceIds,           \* device_id values
    Profiles,          \* display name, model and hardware class, as one value
    Epochs,            \* source_epoch values
    MaxIdentityRevision,
    MaxSourceRevision,
    MaxReceivedTime,
    SourceEpochLimit,  \* policy.source_epoch_limit_per_device
    HistoryLimit,      \* policy.history_limit_per_device
    EventLimit,        \* policy.event_limit
    MaxEvents,         \* bound of the model on event_sequence
    NoDevice           \* the record of a device the hub has never accepted

\* FleetHub::new refuses a policy without positive limits.
ASSUME PolicyAssumption ==
    /\ SourceEpochLimit \in Nat \ {0}
    /\ HistoryLimit \in Nat \ {0}
    /\ EventLimit \in Nat \ {0}

ASSUME BoundAssumption ==
    /\ MaxIdentityRevision \in Nat \ {0}
    /\ MaxSourceRevision \in Nat \ {0}
    /\ MaxReceivedTime \in Nat
    /\ MaxEvents \in Nat

Observation ==
    [device_id : DeviceIds, identity_revision : 1..MaxIdentityRevision,
     profile : Profiles, source_epoch : Epochs,
     source_revision : 1..MaxSourceRevision,
     received_time_ms : 0..MaxReceivedTime]

Lineage ==
    [device_id : DeviceIds, identity_revision : 1..MaxIdentityRevision,
     source_epoch : Epochs, source_revision : 1..MaxSourceRevision,
     received_time_ms : 0..MaxReceivedTime, at : Nat]

DeviceRecord ==
    [observation : Observation, accepted_revision : Nat,
     condition_history : Seq(Nat), seen_source_epochs : SUBSET Epochs]

ASSUME NoDeviceAssumption == NoDevice \notin DeviceRecord

VARIABLES
    devices,          \* device_id -> DeviceRecord or NoDevice
    result_revision,  \* advances with every accepted observation
    event_sequence,   \* sequence of the newest watch event
    events,           \* the retained window of the watch log
    admitted          \* history: accepted lineages

vars == <<devices, result_revision, event_sequence, events, admitted>>

Known(d) == devices[d] # NoDevice

-----------------------------------------------------------------------------
(* The admission rules, each a condition on the observation o and the record *)
(* r held for its device, in the order accept_observation tests them.        *)

SameIdentity(o, r) == o.identity_revision = r.observation.identity_revision
SameSource(o, r) ==
    SameIdentity(o, r) /\ o.source_epoch = r.observation.source_epoch

NoRule(o, r) == FALSE    \* mutant: the rule is missing

IdentityConflict(o, r) ==
    SameIdentity(o, r) /\ o.profile # r.observation.profile

IdentityRevisionRollback(o, r) ==
    o.identity_revision < r.observation.identity_revision

IdentityRevisionChangedWithoutRestart(o, r) ==
    /\ o.identity_revision > r.observation.identity_revision
    /\ o.source_revision # 1

SourceEpochReplay(o, r) ==
    /\ o.source_epoch # r.observation.source_epoch
    /\ o.source_epoch \in r.seen_source_epochs

SourceEpochEvidenceLimitExceeded(o, r) ==
    /\ o.source_epoch # r.observation.source_epoch
    /\ Cardinality(r.seen_source_epochs) >= SourceEpochLimit

SourceEpochChangedWithoutRestart(o, r) ==
    /\ SameIdentity(o, r)
    /\ o.source_epoch # r.observation.source_epoch
    /\ o.source_revision # 1

DuplicateRevision(o, r) ==
    SameSource(o, r) /\ o.source_revision = r.observation.source_revision

StaleRevision(o, r) ==
    SameSource(o, r) /\ o.source_revision < r.observation.source_revision

ReceiveTimeRegression(o, r) ==
    SameSource(o, r) /\ o.received_time_ms < r.observation.received_time_ms

Reason == <<"IdentityConflict", "IdentityRevisionRollback",
            "IdentityRevisionChangedWithoutRestart", "SourceEpochReplay",
            "SourceEpochEvidenceLimitExceeded", "SourceEpochChangedWithoutRestart",
            "DuplicateRevision", "StaleRevision", "ReceiveTimeRegression">>

Breaks(o, r) ==
    <<IdentityConflict(o, r), IdentityRevisionRollback(o, r),
      IdentityRevisionChangedWithoutRestart(o, r), SourceEpochReplay(o, r),
      SourceEpochEvidenceLimitExceeded(o, r), SourceEpochChangedWithoutRestart(o, r),
      DuplicateRevision(o, r), StaleRevision(o, r), ReceiveTimeRegression(o, r)>>

\* A device the hub does not know breaks no rule; otherwise the first broken
\* rule is the reason of the rejection.
Admissible(o) ==
    Known(o.device_id) => \A i \in 1..9 : ~Breaks(o, devices[o.device_id])[i]

FirstBroken(o, i) ==
    /\ Known(o.device_id)
    /\ Breaks(o, devices[o.device_id])[i]
    /\ \A j \in 1..(i - 1) : ~Breaks(o, devices[o.device_id])[j]

-----------------------------------------------------------------------------
KeepsAll(log, limit) == log                         \* mutant: never drops
KeepsOldest(log, limit) == IF Len(log) > limit        \* mutant: drops the
                           THEN SubSeq(log, 1, limit) \* wrong end
                           ELSE log

\* Retained logs keep their newest entries.
Newest(log, limit) == IF Len(log) > limit
                      THEN SubSeq(log, Len(log) - limit + 1, Len(log))
                      ELSE log

RecordEvent(decision) ==
    /\ event_sequence < MaxEvents
    /\ event_sequence' = event_sequence + 1
    /\ events' = Newest(Append(events, [sequence |-> event_sequence + 1,
                                        decision |-> decision]), EventLimit)

SameRevision == result_revision      \* mutant: the revision does not advance
AcceptedRevision == result_revision + 1

OnlyNewEpoch(o) == {o.source_epoch}  \* mutant: earlier evidence is dropped
SeenEpochs(o) ==
    {o.source_epoch} \cup
        IF Known(o.device_id) THEN devices[o.device_id].seen_source_epochs ELSE {}

\* The conditions an observation carries are abstracted to the revision that
\* accepts it.
History(o) ==
    Newest(Append(IF Known(o.device_id) THEN devices[o.device_id].condition_history
                                        ELSE <<>>, AcceptedRevision), HistoryLimit)

AcceptedRecord(o) ==
    [observation |-> o, accepted_revision |-> AcceptedRevision,
     condition_history |-> History(o), seen_source_epochs |-> SeenEpochs(o)]

LineageOf(o) ==
    [device_id |-> o.device_id, identity_revision |-> o.identity_revision,
     source_epoch |-> o.source_epoch, source_revision |-> o.source_revision,
     received_time_ms |-> o.received_time_ms, at |-> AcceptedRevision]

\* accept_observation of an observation that breaks its own contract.
RejectInvalid ==
    /\ RecordEvent([kind |-> "rejected", reason |-> "ContractInvalid",
                    result_revision |-> result_revision])
    /\ UNCHANGED <<devices, result_revision, admitted>>

\* accept_observation of an observation the ledger refuses.
RejectObservation(o) ==
    /\ \E i \in 1..9 :
          /\ FirstBroken(o, i)
          /\ RecordEvent([kind |-> "rejected", reason |-> Reason[i],
                          result_revision |-> result_revision])
    /\ UNCHANGED <<devices, result_revision, admitted>>

\* accept_observation of an observation the ledger admits.
AcceptObservation(o) ==
    /\ Admissible(o)
    /\ result_revision' = AcceptedRevision
    /\ devices' = [devices EXCEPT ![o.device_id] = AcceptedRecord(o)]
    /\ admitted' = admitted \cup {LineageOf(o)}
    /\ RecordEvent([kind |-> "accepted", reason |-> "none",
                    result_revision |-> AcceptedRevision])

Init ==
    /\ devices = [d \in DeviceIds |-> NoDevice]
    /\ result_revision = 1
    /\ event_sequence = 0
    /\ events = <<>>
    /\ admitted = {}

Next ==
    \/ RejectInvalid
    \/ \E o \in Observation : RejectObservation(o) \/ AcceptObservation(o)

Spec == Init /\ [][Next]_vars

-----------------------------------------------------------------------------
(* What FleetHub::restore demands of a snapshot of this state.               *)
RecordRestorable(d) ==
    LET r == devices[d] IN
    /\ r.observation.device_id = d
    /\ r.accepted_revision \in 1..result_revision
    /\ Len(r.condition_history) <= HistoryLimit
    /\ r.observation.source_epoch \in r.seen_source_epochs
    /\ Cardinality(r.seen_source_epochs) <= SourceEpochLimit

EventsRestorable ==
    /\ Len(events) <= EventLimit
    /\ \A i \in 1..Len(events) : events[i].sequence <= event_sequence
    /\ \A i \in 1..(Len(events) - 1) : events[i].sequence < events[i + 1].sequence

RestoreAccepts ==
    /\ result_revision # 0
    /\ EventsRestorable
    /\ \A d \in DeviceIds : Known(d) => RecordRestorable(d)

-----------------------------------------------------------------------------
(* Properties.                                                               *)

Decision ==
    [kind : {"accepted", "rejected"},
     reason : {Reason[i] : i \in 1..9} \cup {"ContractInvalid", "none"},
     result_revision : Nat]

\* Every variable has its type; the ledger and the log stay within the policy.
TypeOK ==
    /\ devices \in [DeviceIds -> DeviceRecord \cup {NoDevice}]
    /\ result_revision \in Nat
    /\ event_sequence \in 0..MaxEvents
    /\ events \in Seq([sequence : Nat, decision : Decision])
    /\ Len(events) <= EventLimit
    /\ admitted \subseteq Lineage

\* What accept_observation admits of one device only moves forward: identity
\* revisions never fall, and within one identity and epoch source revisions
\* rise and receive times never fall.  In particular no lineage is admitted
\* twice, whatever is replayed or reordered on the way.
LineageAdvances ==
    \A a, b \in admitted :
        a.device_id = b.device_id /\ a.at < b.at =>
            /\ a.identity_revision <= b.identity_revision
            /\ (a.identity_revision = b.identity_revision
                  /\ a.source_epoch = b.source_epoch) =>
                    /\ a.source_revision < b.source_revision
                    /\ a.received_time_ms <= b.received_time_ms

\* Once a device has moved on from an epoch, nothing of that epoch is admitted
\* again (the SourceEpochReplay rule, with the evidence never dropped).
EpochNeverReturns ==
    \A a, b, c \in admitted :
        (/\ a.device_id = b.device_id /\ b.device_id = c.device_id
         /\ a.at < b.at /\ b.at < c.at
         /\ a.source_epoch = c.source_epoch) => b.source_epoch = a.source_epoch

\* The watch log retains consecutive sequences up to the newest, and read in
\* order its decisions account for every advance of result_revision: a reader
\* that has the window can tell what it missed and what the ledger did.
WatchLogAccountsForRevisions ==
    LET n == Len(events) IN
    /\ \A i \in 1..n : events[i].sequence = event_sequence - n + i
    /\ n > 0 => events[n].decision.result_revision = result_revision
    /\ \A i \in 2..n :
          events[i].decision.result_revision =
             events[i - 1].decision.result_revision
                + (IF events[i].decision.kind = "accepted" THEN 1 ELSE 0)

\* The condition history of a device is the newest part of what was admitted
\* for it, oldest first: a rejection adds nothing and nothing is skipped.
HistoryKeepsTheNewest ==
    \A d \in DeviceIds : Known(d) =>
        LET h == devices[d].condition_history
            all == {a.at : a \in {x \in admitted : x.device_id = d}}
            kept == {h[i] : i \in 1..Len(h)}
        IN  /\ \A i \in 1..(Len(h) - 1) : h[i] < h[i + 1]
            /\ kept \subseteq all
            /\ \A x \in all \ kept, y \in kept : x < y
            /\ all \ kept # {} => Len(h) = HistoryLimit

\* Whatever sequence of observations arrives, the snapshot the hub would save
\* is one its own restore accepts.
SnapshotRestorable == RestoreAccepts

\* A decision that leaves result_revision alone leaves every device alone, so
\* the revision a query result quotes identifies the ledger it was read from.
RevisionNamesLedger ==
    [][result_revision' = result_revision => devices' = devices]_vars

=============================================================================
