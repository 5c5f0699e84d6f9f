--------------------------- MODULE CheckInAdmission ---------------------------
(***************************************************************************)
(* Admission of signed check-ins: the checkin handler of the local hub     *)
(* (apps/fleet-hub-local/src/lib.rs) and FleetManifoldAdapter::accept      *)
(* (crates/fleet-manifold-adapter/src/lib.rs), over the device ledger of   *)
(* DeviceDirectory and the two durable slots.                              *)
(*                                                                         *)
(* The network delivers any signed envelope at any time, any number of     *)
(* times.  A handler reads the clock, waits for the lock, and under the    *)
(* lock is one action, which works with the time it read: it admits into a *)
(* copy of the ledger and of the authority, persists both, and only then   *)
(* swaps them in and answers.  A refusal changes neither, so it is a       *)
(* stuttering step, and so is one by the rate limiter.  The Manifold       *)
(* authority is external: it may refuse any proposal, and nothing here     *)
(* relies on it to refuse one.                                             *)
(*                                                                         *)
(* A check-in may carry the proof that a shell of the headset is reachable *)
(* over wireless ADB (a capability of its Termux).  It is bound to the     *)
(* receipt of the operation that asked for wireless ADB (QuestWifiAdb),    *)
(* and the operation is shown as usable while the proof stands.            *)
(*                                                                         *)
(* A kiosk operation (KioskDispatch) holds its targets to the identity     *)
(* revision they had when it was previewed.  A check-in may raise the      *)
(* identity of a headset whose target is not terminal yet, and a start     *)
(* refuses the slot that holds both.                                       *)
(***************************************************************************)
EXTENDS Integers, Sequences, FiniteSets

CONSTANTS
    Devices, Profiles, Epochs, MaxIdentityRevision, MaxSourceRevision,
    SourceEpochLimit,  \* as in DeviceDirectory
    NoDevice,
    Keys, NoKey,
    ActiveKey,         \* device -> its active credential, from the configuration
    KeyValidFrom,      \* key -> when its validity begins
    KeyExpires,        \* key -> when it ends
    Ids,               \* checkin_id values
    Envelopes,         \* the check-ins the headsets sign
    WifiOperations,    \* wireless ADB operations, each for one headset
    Wifi,              \* operation -> its headset, what it asks for, and the route
                       \* its receipt names
    KioskCapable,      \* the headsets with the kiosk capability
    NoProof, NoReceipt,
    SeenLimit,         \* MAX_SEEN_CHECKINS
    MaxTime,           \* bound of the model on the clock
    MaxEvents          \* bound of the model on crashes, failed persists, corrections
                       \* of the clock and kiosk operations, taken together

Time == 0..MaxTime

Envelope ==
    [checkin_id : Ids, key_id : Keys, issued_at : Nat, expires_at : Nat,
     device_id : Devices, identity_revision : 1..MaxIdentityRevision,
     profile : Profiles, source_epoch : Epochs, source_revision : 1..MaxSourceRevision,
     fresh_until : Nat]

WifiOperation ==
    [device_id : Devices, identity_revision : 1..MaxIdentityRevision,
     action : {"request", "disable"}, route : {"modern", "none"}]

\* fresh_until is that of the proof, 0 if the check-in carries none; the receipt
\* of a request is not valid without the modern route.
ASSUME EnvelopesAssumption ==
    /\ Envelopes \subseteq Envelope
    /\ \A e \in Envelopes :
          /\ e.issued_at < e.expires_at
          /\ e.fresh_until # 0 => e.issued_at < e.fresh_until /\ e.fresh_until <= e.expires_at
ASSUME OperationsAssumption ==
    /\ Wifi \in [WifiOperations -> WifiOperation]
    /\ \A o \in WifiOperations : Wifi[o].action = "request" => Wifi[o].route = "modern"
    /\ NoReceipt \notin Time
ASSUME KeysAssumption ==
    /\ ActiveKey \in [Devices -> Keys]
    /\ KeyValidFrom \in [Keys -> Nat] /\ KeyExpires \in [Keys -> Nat]
    /\ NoKey \notin Keys

VARIABLES
    now,               \* the hub's wall clock
    shown,             \* what it has shown since the process started: a handler that
                       \* waits for the lock may have read any of it
    up,
    hub,               \* runtime.hub; when down, what it was
    adapter,           \* runtime.adapter; when down, what it was
    disk,              \* the durable slots
    accepted,          \* history: the envelopes answered as accepted, but for those
                       \* that a start lost because it refused the newest slot
    setbacks,          \* how often the clock has been set back
    events

vars == <<now, shown, up, hub, adapter, disk, accepted, setbacks, events>>

\* The ledger of the hub: its rules and what an admission writes.  The watch
\* log plays no part in admission.
Ledger == INSTANCE DeviceDirectory WITH
    DeviceIds <- Devices, devices <- hub.devices, result_revision <- hub.result_revision,
    event_sequence <- 0, events <- <<>>, admitted <- {},
    MaxReceivedTime <- MaxTime, HistoryLimit <- 1, EventLimit <- 1, MaxEvents <- 1

\* The policy of the ledger and the bounds.
ASSUME LedgerAssumption ==
    /\ Ledger!PolicyAssumption /\ Ledger!BoundAssumption /\ Ledger!NoDeviceAssumption
    /\ SeenLimit \in Nat \ {0} /\ MaxEvents \in Nat

Seen == [checkin_id : Ids, expires_at : Nat]

\* The admitted proof of a headset, bound to the receipt of an operation.
Proof ==
    [identity_revision : 1..MaxIdentityRevision, source_epoch : Epochs,
     source_revision : 1..MaxSourceRevision, checkin_expires_at : Nat,
     fresh_until : Nat, accepted_at : Time, operation : WifiOperations, bound_at : Time]

-----------------------------------------------------------------------------
(* FleetManifoldAdapter::accept, in the order of its tests.                  *)

\* The observation of the envelope, with the time t that its handler has read.
ObservationOf(e, t) ==
    [device_id |-> e.device_id, identity_revision |-> e.identity_revision,
     profile |-> e.profile, source_epoch |-> e.source_epoch,
     source_revision |-> e.source_revision, received_time_ms |-> t]

Current(e, t) == e.issued_at <= t /\ t < e.expires_at

\* The replay ledger forgets what has expired.
Unexpired(seen, t) == {s \in seen : s.expires_at > t}

Replayed(e, t) == \E s \in Unexpired(adapter.seen, t) : s.checkin_id = e.checkin_id

Valid(key, t) == KeyValidFrom[key] <= t /\ t < KeyExpires[key]

\* mutant: a credential that is not active will do
AnyKey(e, t) == Valid(e.key_id, t)

\* The envelope is signed with the active credential of its peer.
Authentic(e, t) == e.key_id = ActiveKey[e.device_id] /\ Valid(e.key_id, t)

Carries(e) == e.fresh_until # 0

\* Operations of the headset with a receipt that has taken effect.
Received(action, e) ==
    {o \in WifiOperations : /\ Wifi[o].action = action /\ Wifi[o].device_id = e.device_id
                            /\ Wifi[o].identity_revision = e.identity_revision
                            /\ hub.receipts[o] # NoReceipt}

\* mutant: a disabled route can still be proven
BindsAnyRequest(e, t) ==
    LET candidates == {o \in Received("request", e) : hub.receipts[o] < t}
    IN  {o \in candidates : \A p \in candidates \ {o} : hub.receipts[p] < hub.receipts[o]}

\* bind_termux_proof_to_exact_owner_receipt: the newest request, if it is older
\* than the check-in, newer than what disabled the route, and the only one of
\* its time.
Binding(e, t) ==
    LET disabled == {o \in Received("disable", e) : Wifi[o].route = "modern"}
        candidates == {o \in Received("request", e) :
                          /\ hub.receipts[o] < t
                          /\ \A p \in disabled : hub.receipts[p] < hub.receipts[o]}
    IN  {o \in candidates : \A p \in candidates \ {o} : hub.receipts[p] < hub.receipts[o]}

Fresh(proofs, t) ==
    [d \in Devices |-> IF /\ proofs[d] # NoProof
                          /\ proofs[d].checkin_expires_at > t /\ proofs[d].fresh_until > t
                       THEN proofs[d] ELSE NoProof]

\* The headset still has a proof of this epoch that is as new.
Superseded(e, t) ==
    LET held == Fresh(adapter.proofs, t)[e.device_id] IN
    /\ held # NoProof
    /\ held.source_epoch = e.source_epoch /\ held.source_revision >= e.source_revision

\* A proof that cannot be bound, or not be stored, refuses the whole check-in.
ProofAdmissible(e, t) ==
    Carries(e) =>
        /\ ~Superseded(e, t)
        /\ Binding(e, t) # {}
        /\ Cardinality({d \in Devices \ {e.device_id} :
                           Fresh(adapter.proofs, t)[d] # NoProof}) < SeenLimit

\* A check-in without the capability ends the proof of its headset.
AdmittedProofs(e, t) ==
    [Fresh(adapter.proofs, t) EXCEPT ![e.device_id] =
        IF ~Carries(e) THEN NoProof ELSE
        LET o == CHOOSE o \in Binding(e, t) : TRUE IN
        [identity_revision |-> e.identity_revision, source_epoch |-> e.source_epoch,
         source_revision |-> e.source_revision, checkin_expires_at |-> e.expires_at,
         fresh_until |-> e.fresh_until, accepted_at |-> t,
         operation |-> o, bound_at |-> hub.receipts[o]]]

MayAdmit(e, t) ==
    /\ Current(e, t)
    /\ ~Replayed(e, t)
    /\ Cardinality(Unexpired(adapter.seen, t)) < SeenLimit
    /\ Authentic(e, t)
    /\ Ledger!Admissible(ObservationOf(e, t))
    /\ ProofAdmissible(e, t)

\* history: what was committed for a headset, in this order, each at the time of
\* its commit
Logged == [kind : {"check-in", "proof", "receipt"}, of : SUBSET WifiOperations, at : Time]
Entry(kind, of) == [kind |-> kind, of |-> of, at |-> now]

AdmittedHub(e, t) ==
    [hub EXCEPT !.devices[e.device_id] = Ledger!AcceptedRecord(ObservationOf(e, t)),
                !.result_revision = Ledger!AcceptedRevision,
                !.admitted = @ \cup {e},
                !.log[e.device_id] = Append(@, Entry(IF Carries(e) THEN "proof" ELSE "check-in", {}))]

\* mutant: the authority is left behind by a peer it already knows
FirstOnly(e, t) ==
    [peers |-> [adapter.peers EXCEPT ![e.device_id] = e.key_id],
     authority_revision |->
        IF adapter.peers[e.device_id] = NoKey THEN adapter.authority_revision + 1
                                              ELSE adapter.authority_revision,
     seen |-> Unexpired(adapter.seen, t) \cup
                 {[checkin_id |-> e.checkin_id, expires_at |-> e.expires_at]},
     proofs |-> AdmittedProofs(e, t)]
AdmittedAdapter(e, t) ==
    [peers |-> [adapter.peers EXCEPT ![e.device_id] = e.key_id],
     authority_revision |-> adapter.authority_revision + 1,
     seen |-> Unexpired(adapter.seen, t) \cup
                 {[checkin_id |-> e.checkin_id, expires_at |-> e.expires_at]},
     proofs |-> AdmittedProofs(e, t)]

\* quest_wifi_adb_operation: what an inspection of the operation shows.
Usable(o, t) ==
    LET bound == adapter.proofs[Wifi[o].device_id]
        r == hub.devices[Wifi[o].device_id]
    IN
    /\ bound # NoProof /\ r # NoDevice
    /\ bound.operation = o /\ bound.bound_at = hub.receipts[o]
    /\ bound.identity_revision = r.observation.identity_revision
    /\ bound.source_epoch = r.observation.source_epoch
    /\ bound.source_revision = r.observation.source_revision
    /\ bound.fresh_until > t
    /\ Wifi[o].action = "request" /\ hub.receipts[o] < bound.accepted_at
    /\ ~\E q \in WifiOperations :
          /\ Wifi[q].action = "disable" /\ Wifi[q].device_id = Wifi[o].device_id
          /\ hub.receipts[q] # NoReceipt /\ hub.receipts[q] >= bound.accepted_at

-----------------------------------------------------------------------------
(* Durable state, as DurableStore keeps it: the slot written is that of the  *)
(* generation after the one the process knows.                               *)

Saved(snapshot, known) ==
    [newest |-> snapshot,
     previous |-> IF disk.ahead THEN disk.previous ELSE disk.newest,
     ahead |-> ~known]

Count(n) == events + n <= MaxEvents /\ events' = events + n

\* A persist is known to have published its slot, or it fails after it has.
Failures(known) == IF known THEN 0 ELSE 1

DeviceIds(h) == {d \in Devices : h.devices[d] # NoDevice}
PeerIds(a) == {d \in Devices : a.peers[d] # NoKey}

\* The checkin handler; if known is FALSE the persist fails after it has
\* published the slot, and the headset gets an error.
CheckIn(e, t, known) ==
    LET snapshot == [hub |-> AdmittedHub(e, t), adapter |-> AdmittedAdapter(e, t)] IN
    /\ up
    /\ MayAdmit(e, t)
    /\ DeviceIds(snapshot.hub) = PeerIds(snapshot.adapter)
    /\ disk' = Saved(snapshot, known)
    /\ IF known
       THEN /\ hub' = snapshot.hub /\ adapter' = snapshot.adapter
            /\ accepted' = accepted \cup {e}
       ELSE UNCHANGED <<hub, adapter, accepted>>
    /\ Count(Failures(known))
    /\ UNCHANGED <<now, shown, up, setbacks>>

\* A call that touches the hub only.
Persisted(candidate, known) ==
    /\ up
    /\ disk' = Saved([hub |-> candidate, adapter |-> adapter], known)
    /\ hub' = IF known THEN candidate ELSE hub
    /\ UNCHANGED <<now, shown, up, adapter, accepted, setbacks>>

\* QuestWifiAdb settles an operation with a receipt that has taken effect; the
\* operation was asked for an identity revision the headset had, and may be late.
Settled(o, t) ==
    [hub EXCEPT !.receipts[o] = t,
                !.log[Wifi[o].device_id] = Append(@, Entry("receipt", {o}))]
WifiReceipt(o, t, known) ==
    /\ hub.devices[Wifi[o].device_id] # NoDevice /\ hub.receipts[o] = NoReceipt
    /\ Wifi[o].identity_revision <=
          hub.devices[Wifi[o].device_id].observation.identity_revision
    /\ Persisted(Settled(o, t), known) /\ Count(Failures(known))

\* A kiosk operation on a headset is previewed, for its identity of now; it binds
\* its target until that is terminal.
KioskPreviewed(d, known) ==
    /\ d \in KioskCapable /\ hub.devices[d] # NoDevice
    /\ Persisted([hub EXCEPT !.kiosk[d] =
                     @ \cup {hub.devices[d].observation.identity_revision}], known)
    /\ Count(Failures(known) + 1)
KioskSettled(d, known) ==
    /\ \E i \in hub.kiosk[d] : Persisted([hub EXCEPT !.kiosk[d] = @ \ {i}], known)
    /\ Count(Failures(known))

Tick == /\ now < MaxTime /\ now' = now + 1 /\ shown' = shown \cup {now'}
        /\ UNCHANGED <<up, hub, adapter, disk, accepted, setbacks, events>>

\* The wall clock of the hub is corrected.
SetClockBack(t) ==
    /\ Count(1) /\ t < now
    /\ now' = t /\ setbacks' = setbacks + 1 /\ shown' = shown \cup {t}
    /\ UNCHANGED <<up, hub, adapter, disk, accepted>>

\* The handlers that wait end with the process.
Crash ==
    /\ Count(1) /\ up /\ up' = FALSE
    /\ UNCHANGED <<now, shown, hub, adapter, disk, accepted, setbacks>>

\* A kiosk target that is not terminal is bound to the identity its headset has.
KioskBound(h) ==
    \A d \in Devices : \A i \in h.kiosk[d] :
        h.devices[d] # NoDevice /\ h.devices[d].observation.identity_revision = i

\* restore_state_candidate: what FleetHub::restore and restore_session demand.
Restorable(s) ==
    /\ s.hub.result_revision # 0
    /\ \A d \in DeviceIds(s.hub) :
          /\ s.hub.devices[d].observation.device_id = d
          /\ s.hub.devices[d].accepted_revision \in 1..s.hub.result_revision
          /\ s.hub.devices[d].observation.source_epoch \in
                s.hub.devices[d].seen_source_epochs
          /\ Cardinality(s.hub.devices[d].seen_source_epochs) <= SourceEpochLimit
    /\ KioskBound(s.hub)
    /\ Cardinality(s.adapter.seen) <= SeenLimit
    /\ \A d \in PeerIds(s.adapter) : s.adapter.peers[d] = ActiveKey[d]
    /\ DeviceIds(s.hub) = PeerIds(s.adapter)

RestoredFrom ==
    IF Restorable(disk.newest) THEN {disk.newest}
    ELSE {s \in {disk.previous} : Restorable(s)}

\* What only the refused slot held is lost, and is not answered for any more.
Restart ==
    /\ ~up /\ up' = TRUE
    /\ \E s \in RestoredFrom :
        /\ hub' = s.hub
        /\ adapter' = [s.adapter EXCEPT !.seen = Unexpired(@, now), !.proofs = Fresh(@, now)]
        /\ disk' = [disk EXCEPT !.ahead = s # disk.newest]
        /\ accepted' = IF Restorable(disk.newest) THEN accepted
                       ELSE accepted \cap s.hub.admitted
    /\ shown' = {now}
    /\ UNCHANGED <<now, setbacks, events>>

Init ==
    /\ now = 0 /\ shown = {0} /\ up = TRUE
    /\ setbacks = 0 /\ events = 0
    /\ hub = [devices |-> [d \in Devices |-> NoDevice], result_revision |-> 1,
              receipts |-> [o \in WifiOperations |-> NoReceipt],
              kiosk |-> [d \in Devices |-> {}],
              admitted |-> {}, log |-> [d \in Devices |-> <<>>]]
    /\ adapter = [peers |-> [d \in Devices |-> NoKey], authority_revision |-> 1,
                  seen |-> {}, proofs |-> [d \in Devices |-> NoProof]]
    /\ disk = [newest |-> [hub |-> hub, adapter |-> adapter],
               previous |-> [hub |-> hub, adapter |-> adapter], ahead |-> FALSE]
    /\ accepted = {}

Next ==
    \/ Tick
    \/ \E t \in Time : SetClockBack(t)
    \/ \E e \in Envelopes, t \in shown, known \in BOOLEAN : CheckIn(e, t, known)
    \/ \E o \in WifiOperations, t \in shown, known \in BOOLEAN : WifiReceipt(o, t, known)
    \/ \E d \in Devices, known \in BOOLEAN : KioskPreviewed(d, known)
    \/ \E d \in Devices, known \in BOOLEAN : KioskSettled(d, known)
    \/ Crash
    \/ Restart

Spec == Init /\ [][Next]_vars

-----------------------------------------------------------------------------
(* Properties.                                                               *)

Hub == [devices : [Devices -> Ledger!DeviceRecord \cup {NoDevice}], result_revision : Nat,
        receipts : [WifiOperations -> Time \cup {NoReceipt}],
        kiosk : [Devices -> SUBSET (1..MaxIdentityRevision)],
        admitted : SUBSET Envelopes, log : [Devices -> Seq(Logged)]]
Adapter == [peers : [Devices -> Keys \cup {NoKey}], authority_revision : Nat,
            seen : SUBSET Seen, proofs : [Devices -> Proof \cup {NoProof}]]
Snapshot == [hub : Hub, adapter : Adapter]

\* Every variable has its type, and the replay ledger its bound.
TypeOK ==
    /\ now \in Time /\ shown \in SUBSET Time /\ up \in BOOLEAN
    /\ hub \in Hub /\ adapter \in Adapter
    /\ Cardinality(adapter.seen) <= SeenLimit
    /\ disk \in [newest : Snapshot, previous : Snapshot, ahead : BOOLEAN]
    /\ accepted \in SUBSET Envelopes
    /\ setbacks \in Nat /\ events \in 0..MaxEvents

\* A check-in answered as accepted can never be admitted again: not when it is
\* repeated or delayed, not after a crash, and not when the clock is set back
\* behind the expiry at which the replay ledger has forgotten it.  The exception
\* is one that a start lost, because it had to refuse the newest slot.
NeverAdmissibleAgain ==
    up => \A e \in accepted, t \in shown : ~MayAdmit(e, t)

\* "Commit both in-memory states or neither": the hub's ledger and the Manifold
\* authority know the same devices and have advanced together, in memory and in
\* each slot.
AuthoritiesAgree ==
    \A s \in {[hub |-> hub, adapter |-> adapter], disk.newest, disk.previous} :
        /\ DeviceIds(s.hub) = PeerIds(s.adapter)
        /\ s.hub.result_revision = s.adapter.authority_revision

\* An operation shown as usable was answered and then proven by the newest check-in
\* of its headset.  What disables the route ends that, if its handler read the clock
\* when the proof was committed or later; and no proof is bound to a request, if a
\* handler that disables the route of its identity revision read the clock between
\* the commit of the request and that of the proof.  The log is the true order of
\* what was committed; the times the code compares were read before the lock, and
\* say as much as this, while the clock is not set back.
UsableIsProven ==
    up /\ setbacks = 0 => \A o \in WifiOperations : (\E t \in shown : Usable(o, t)) =>
        LET log == hub.log[Wifi[o].device_id]
            Disables(k) == {q \in log[k].of : Wifi[q].action = "disable"}
        IN
        \E i, j \in 1..Len(log) :
            /\ i < j /\ log[i].of = {o} /\ log[j].kind = "proof"
            /\ \A k \in (j + 1)..Len(log) :
                  log[k].kind = "receipt" /\ \A q \in Disables(k) : hub.receipts[q] < log[j].at
            /\ \A k \in (i + 1)..(j - 1) : \A q \in Disables(k) :
                  \/ hub.receipts[q] < log[i].at
                  \/ Wifi[q].route # "modern"
                  \/ Wifi[q].identity_revision # Wifi[o].identity_revision

\* A check-in has raised the identity of a headset with an unsettled kiosk target.
Outdated(h) ==
    \E d \in DeviceIds(h) : \E i \in h.kiosk[d] :
        h.devices[d].observation.identity_revision > i

\* A start refuses a slot for this reason only.  Nothing else that was admitted,
\* and no failed persist, leaves a state that the hub cannot be started from.
SlotsRestore ==
    \A s \in {disk.newest, disk.previous} : Restorable(s) \/ Outdated(s.hub)
=============================================================================
