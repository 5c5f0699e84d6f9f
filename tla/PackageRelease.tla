--------------------------- MODULE PackageRelease ---------------------------
(***************************************************************************)
(* Package install releases: the ledger of crates/fleet-hub/src/packages.rs *)
(* under the contract of crates/fleet-contracts/src/packages.rs, and the   *)
(* handlers of apps/fleet-hub-local/src/lib.rs.                            *)
(*                                                                         *)
(* An operator previews and executes a release on a set of headsets.  The  *)
(* owner process that installs packages claims one target at a time for a  *)
(* short while, acknowledges it, reports its progress and, in the end, a   *)
(* receipt.  Its requests are delayed, repeated and reordered, and the     *)
(* answers to them may be lost.  A handler runs under the lock on a        *)
(* candidate that it persists before it swaps it in, and is one action.    *)
(***************************************************************************)
EXTENDS Integers, FiniteSets

CONSTANTS
    Devices,
    OperationIds,
    Requests,            \* the request identifiers of the owner
    Facts, Fit,          \* what a preflight finds of a headset; what is eligible
    MaxParallelism,      \* DEFAULT_PACKAGE_OPERATION_PARALLELISM
    MaxOperations,       \* MAX_PACKAGE_OPERATIONS
    MaxArchives,         \* MAX_ARCHIVED_PACKAGE_OPERATIONS
    MaxConsumed,         \* MAX_CONSUMED_PACKAGE_OWNER_CLAIMS
    PreviewLifetime,     \* PACKAGE_OPERATION_PREVIEW_LIFETIME_MS
    ClaimLifetime,       \* PACKAGE_OWNER_CLAIM_LIFETIME_MS
    MaxTime,             \* bound of the model on the clock
    MaxCrashes,          \* bound of the model on crashes
    MaxTargets,          \* bound of the model on the targets of all operations
    Reports, OwnerTimes, \* bounds of the model on the stages and times the owner reports
    None

ASSUME FitAssumption == Fit \subseteq Facts
ASSUME DevicesAssumption == IsFiniteSet(Devices)   \* the headsets of one check-in registry
ASSUME BoundsAssumption ==
    /\ MaxParallelism \in Nat \ {0} /\ MaxConsumed \in Nat \ {0}
    /\ MaxOperations \in Nat /\ MaxArchives \in Nat
    /\ PreviewLifetime \in Nat \ {0} /\ ClaimLifetime \in Nat \ {0}
    /\ MaxTime \in Nat /\ MaxCrashes \in Nat /\ MaxTargets \in Nat

Times == 0..MaxTime
Deadlines == 0..(MaxTime + PreviewLifetime)

OwnerStages == {"staged", "awaiting_wearer", "cancellation_requested", "cancelled",
                "recovery_required", "failed", "expired"}
ASSUME ReportsAssumption == Reports \subseteq OwnerStages /\ OwnerTimes \subseteq Times
ASSUME NoneIsNoTime == None \notin Times
ASSUME NoneAssumption == None \notin Requests \cup OwnerStages \cup {"active", "archived"}
Stages == OwnerStages \cup {"preflight_rejected", "preview_ready", "approved",
                            "dispatch_ready", "owner_acknowledged", "applied"}
Lifecycles == {"rejected", "proposed", "accepted", "dispatched", "running",
               "cancellation_requested", "cancelled", "applied", "failed", "expired"}
Terminal == {"rejected", "applied", "failed", "expired", "cancelled"}

\* A claim keeps the request it was made with; its identity is the request and
\* the invocation, that is, the operation and the headset.
Claim == [request : Requests, expires : Deadlines]
NoClaim == [request |-> None, expires |-> 0]

\* observed is the time of an owner's report and None before it.
Progress == [stage : OwnerStages, observed : Times]
NoProgress == [stage |-> None, observed |-> 0]

Target == [facts : Facts, lifecycle : Lifecycles, stage : Stages,
           owner_claim : Claim \cup {NoClaim}, consumed : SUBSET Requests,
           acknowledged : Times \cup {None}, progress : Progress \cup {NoProgress},
           receipt : BOOLEAN]

\* An operation is in the active map or in the archive, never in both.
NoOperation == [retention |-> None]

VARIABLES
    now,
    facts,               \* of each headset, as the last check-in and its age give them
    hub,                 \* the operations, active and archived
    disk,                \* the durable slots
    held,                \* the claims the owner was answered with
    crashes

vars == <<now, facts, hub, disk, held, crashes>>

-----------------------------------------------------------------------------
(* Operators of the ledger.                                                  *)

Known(h) == {o \in OperationIds : h[o] # NoOperation}
Active(h) == {o \in Known(h) : h[o].retention = "active"}
Archived(h) == {o \in Known(h) : h[o].retention = "archived"}
Members(op) == DOMAIN op.targets
Targets(h) == {p \in Known(h) \X Devices : p[2] \in Members(h[p[1]])}
Eligible(op) == {d \in Members(op) : op.targets[d].facts \in Fit}
Some(op, states) == \E d \in Eligible(op) : op.targets[d].lifecycle \in states

\* derived_lifecycle
Lifecycle(op) ==
    IF Eligible(op) = {} THEN "rejected"
    ELSE IF Some(op, {"running"}) THEN "running"
    ELSE IF Some(op, {"dispatched"}) THEN "dispatched"
    ELSE IF Some(op, {"proposed"}) THEN "proposed"
    ELSE IF Some(op, {"accepted"}) THEN "accepted"
    ELSE IF ~Some(op, Lifecycles \ {"applied"}) THEN "applied"
    ELSE IF ~Some(op, Lifecycles \ {"expired"}) THEN "expired"
    ELSE "failed"

IsTerminal(op) == \A d \in Members(op) : op.targets[d].lifecycle \in Terminal

\* progress_stage_to_lifecycle
LifecycleOf(stage) ==
    CASE stage \in {"staged", "awaiting_wearer", "recovery_required"} -> "running"
      [] OTHER -> stage

\* mutant: a target that is settled can still be reported as failed
FollowsFinal(stage) ==
    CASE stage = "owner_acknowledged"     -> OwnerStages \ {"cancellation_requested", "cancelled"}
      [] stage = "staged"                 -> OwnerStages \ {"staged", "cancelled"}
      [] stage = "awaiting_wearer"        ->
            {"cancellation_requested", "recovery_required", "failed", "expired"}
      [] stage = "recovery_required"      -> OwnerStages \ {"recovery_required", "cancelled"}
      [] OTHER                            -> {"cancelled", "recovery_required", "failed", "expired"}

\* package_progress_transition_allowed
Follows(stage) ==
    CASE stage = "owner_acknowledged"     -> OwnerStages \ {"cancellation_requested", "cancelled"}
      [] stage = "staged"                 -> OwnerStages \ {"staged", "cancelled"}
      [] stage = "awaiting_wearer"        ->
            {"cancellation_requested", "recovery_required", "failed", "expired"}
      [] stage = "recovery_required"      -> OwnerStages \ {"recovery_required", "cancelled"}
      [] stage = "cancellation_requested" ->
            {"cancelled", "recovery_required", "failed", "expired"}
      [] OTHER                            -> {}

-----------------------------------------------------------------------------
(* The contract, PackageInstallReleaseOperation::validate.                   *)

NoEvidence(t) == ~t.receipt /\ t.acknowledged = None /\ t.progress = NoProgress

ClaimsValid(t) ==
    /\ Cardinality(t.consumed) <= MaxConsumed
    /\ t.owner_claim # NoClaim => t.owner_claim.request \in t.consumed

RejectedValid(t) ==
    /\ t.lifecycle = "rejected" /\ t.stage = "preflight_rejected"
    /\ t.owner_claim = NoClaim /\ NoEvidence(t)

EligibleValid(t) ==
    CASE t.lifecycle = "proposed" ->
            t.stage = "preview_ready" /\ t.owner_claim = NoClaim /\ NoEvidence(t)
      [] t.lifecycle = "accepted" ->
            t.stage \in {"approved", "dispatch_ready"} /\ NoEvidence(t)
      [] t.lifecycle = "dispatched" ->
            /\ t.stage = "owner_acknowledged" /\ t.acknowledged # None
            /\ ~t.receipt /\ t.progress = NoProgress
      [] t.lifecycle = "running" ->
            /\ t.stage \in {"staged", "awaiting_wearer", "recovery_required",
                            "cancellation_requested"}
            /\ t.progress.stage = t.stage /\ t.acknowledged # None /\ ~t.receipt
      [] t.lifecycle = "applied" -> t.stage = "applied" /\ t.receipt
      [] t.lifecycle \in {"failed", "expired"} ->
            /\ t.stage = t.lifecycle /\ ~t.receipt
            /\ t.progress # NoProgress => t.progress.stage = t.stage
      [] t.lifecycle \in {"cancellation_requested", "cancelled"} ->
            t.stage = t.lifecycle /\ t.progress.stage = t.stage /\ ~t.receipt
      [] OTHER -> FALSE

TargetValid(t) == IF t.facts \in Fit THEN EligibleValid(t) ELSE RejectedValid(t)

\* The delivery slots an operation takes.
Occupied(op) ==
    {d \in Members(op) :
        \/ op.targets[d].lifecycle \in {"dispatched", "running"}
        \/ op.targets[d].lifecycle = "accepted" /\ op.targets[d].owner_claim # NoClaim}

TargetsValid(op) ==
    \A d \in Members(op) :
        TargetValid(op.targets[d]) /\ (d \in Eligible(op) => ClaimsValid(op.targets[d]))

OperationValid(op) == TargetsValid(op) /\ Cardinality(Occupied(op)) <= MaxParallelism

-----------------------------------------------------------------------------
(* The calls of the ledger.  h is the candidate a call is made on.           *)

Replace(h, o, d, t) == [h EXCEPT ![o].targets[d] = t]

NewTarget(f) ==
    [facts |-> f,
     lifecycle |-> IF f \in Fit THEN "proposed" ELSE "rejected",
     stage |-> IF f \in Fit THEN "preview_ready" ELSE "preflight_rejected",
     owner_claim |-> NoClaim, consumed |-> {},
     acknowledged |-> None, progress |-> NoProgress, receipt |-> FALSE]

\* mutant: a preview lives a unit longer
PreviewedLonger(h, o, members) ==
    [h EXCEPT ![o] = [retention |-> "active", expires |-> now + PreviewLifetime + 1,
                      targets |-> [d \in members |-> NewTarget(facts[d])]]]

\* preview_package_install_release
Previewed(h, o, members) ==
    [h EXCEPT ![o] = [retention |-> "active", expires |-> now + PreviewLifetime,
                      targets |-> [d \in members |-> NewTarget(facts[d])]]]

\* confirm_package_install_release, then for every eligible target
\* prepare_package_install_release_invocation
Executed(h, o) ==
    [h EXCEPT ![o].targets =
        [d \in DOMAIN @ |-> IF d \in Eligible(h[o])
                            THEN [@[d] EXCEPT !.lifecycle = "accepted", !.stage = "dispatch_ready"]
                            ELSE @[d]]]

Unacknowledged(t) == t.lifecycle = "accepted" /\ t.stage = "dispatch_ready"

Lapsed(t, time) == t.owner_claim # NoClaim /\ t.owner_claim.expires <= time

\* mutant: a claim that lapses is dropped whatever the owner has done with it
ExpiredAlways(t, time) ==
    IF ~Lapsed(t, time) THEN t
    ELSE IF Cardinality(t.consumed) < MaxConsumed THEN [t EXCEPT !.owner_claim = NoClaim]
    ELSE [t EXCEPT !.owner_claim = NoClaim, !.lifecycle = "failed", !.stage = "failed"]

\* mutant: a claim is taken for lapsed while it has time left
ExpiredEarly(t, time) ==
    IF ~(Unacknowledged(t) /\ Lapsed(t, time + 1)) THEN t
    ELSE IF Cardinality(t.consumed) < MaxConsumed THEN [t EXCEPT !.owner_claim = NoClaim]
    ELSE [t EXCEPT !.owner_claim = NoClaim, !.lifecycle = "failed", !.stage = "failed"]

\* expire_package_updater_claims, for one target
ExpiredTarget(t, time) ==
    IF ~(Unacknowledged(t) /\ Lapsed(t, time)) THEN t
    ELSE IF Cardinality(t.consumed) < MaxConsumed THEN [t EXCEPT !.owner_claim = NoClaim]
    ELSE [t EXCEPT !.owner_claim = NoClaim, !.lifecycle = "failed", !.stage = "failed"]

Expired(h, time) ==
    [o \in OperationIds |->
        IF o \in Active(h)
        THEN [h[o] EXCEPT !.targets = [d \in DOMAIN @ |-> ExpiredTarget(@[d], time)]]
        ELSE h[o]]

\* mutant: a claim counts until it is dropped
OccupyingLapsed(op, time) == Occupied(op)

\* select_package_updater_offer; the code takes the first of these in the order
\* of its maps, the model any.
Occupying(op, time) ==
    {d \in Members(op) :
        \/ op.targets[d].lifecycle \in {"dispatched", "running"}
        \/ /\ op.targets[d].lifecycle = "accepted"
           /\ op.targets[d].owner_claim # NoClaim /\ ~Lapsed(op.targets[d], time)}

Selectable(h, o, d, time) ==
    /\ Cardinality(Occupying(h[o], time)) < MaxParallelism
    /\ d \in Members(h[o])
    /\ LET t == h[o].targets[d] IN
       /\ Unacknowledged(t)
       /\ t.owner_claim = NoClaim \/ Lapsed(t, time)
       /\ Cardinality(t.consumed) < MaxConsumed
       /\ h[o].expires > time

Offered(h, time) == {p \in Active(h) \X Devices : Selectable(h, p[1], p[2], time)}

\* mutant: only the claims in force are compared
ConsumedByClaims(h) ==
    UNION {{h[o].targets[d].owner_claim.request : d \in Members(h[o])} : o \in Active(h)}

Consumed(h) == UNION {UNION {h[o].targets[d].consumed : d \in Members(h[o])} : o \in Active(h)}

\* The targets whose claim has not lapsed, of the operation a claim is for.
ClaimsLive(op) ==
    {d \in Members(op) :
        /\ op.targets[d].owner_claim # NoClaim /\ ~Lapsed(op.targets[d], now)
        /\ op.targets[d].lifecycle \notin {"applied", "failed", "cancelled", "expired"}}

ClaimEnds(h, o) ==
    IF h[o].expires < now + ClaimLifetime THEN h[o].expires ELSE now + ClaimLifetime

\* offer_package_updater_claim
MayOffer(h, o, d, r) ==
    /\ r \notin Consumed(h)
    /\ Cardinality(ClaimsLive(h[o])) < MaxParallelism
    /\ Unacknowledged(h[o].targets[d]) /\ h[o].targets[d].owner_claim = NoClaim
    /\ Cardinality(h[o].targets[d].consumed) < MaxConsumed

Claimed(h, o, d, r) ==
    Replace(h, o, d,
        [h[o].targets[d] EXCEPT !.owner_claim = [request |-> r, expires |-> ClaimEnds(h, o)],
                                !.consumed = @ \cup {r}])

\* The handlers find the target by the identity of the claim.
TargetOf(h, c) == h[c.operation].targets[c.device]

Binds(h, c) ==
    /\ c.operation \in Known(h) /\ c.device \in Members(h[c.operation])
    /\ TargetOf(h, c).owner_claim.request = c.request

\* They refuse it after the expiry and, in the hub, when it is archived.
Open(h, c) ==
    Binds(h, c) /\ h[c.operation].retention = "active" /\ now <= h[c.operation].expires

\* admit_authenticated_package_updater_acknowledgement; the adapter refuses the
\* one that does not accept, and the handler the one whose claim has lapsed.
MayAcknowledge(h, c) ==
    /\ Open(h, c)
    /\ Unacknowledged(TargetOf(h, c)) /\ ~Lapsed(TargetOf(h, c), now)

Acknowledged(h, c, time) ==
    Replace(h, c.operation, c.device,
        [TargetOf(h, c) EXCEPT !.lifecycle = "dispatched", !.stage = "owner_acknowledged",
                               !.acknowledged = time])

\* admit_authenticated_package_updater_progress
MayReport(h, c, report) ==
    /\ Open(h, c)
    /\ LET t == TargetOf(h, c) IN
       /\ t.acknowledged # None /\ t.acknowledged <= report.observed
       /\ \/ t.progress = report
          \/ /\ t.progress = NoProgress \/ t.progress.observed < report.observed
             /\ report.stage \in Follows(t.stage)

Reported(h, c, report) ==
    IF TargetOf(h, c).progress = report THEN h
    ELSE Replace(h, c.operation, c.device,
            [TargetOf(h, c) EXCEPT !.stage = report.stage,
                                   !.lifecycle = LifecycleOf(report.stage),
                                   !.progress = report])

\* admit_authenticated_package_updater_receipt
MayReceive(h, c) ==
    /\ Open(h, c)
    /\ LET t == TargetOf(h, c) IN
       /\ t.acknowledged # None
       /\ t.lifecycle \in {"dispatched", "running", "cancellation_requested"}

Received(h, c) ==
    Replace(h, c.operation, c.device,
        [TargetOf(h, c) EXCEPT !.lifecycle = "applied", !.stage = "applied", !.receipt = TRUE])

-----------------------------------------------------------------------------
(* The handlers.                                                             *)

\* mutant: the candidate is swapped in, and answered, before it is persisted
SaveAfterwards(candidate) == hub' = candidate /\ disk' \in {disk, candidate}

\* A persist that fails has written the slot or has not; when it has not,
\* nothing changes.
Save(candidate) == disk' = candidate /\ hub' \in {hub, candidate}

\* preview_package_install_release.  An unexpired operation for the same request
\* is answered instead; the model takes every request for a new one.
Preview(o, members) ==
    /\ o \notin Known(hub) /\ members # {}
    /\ Cardinality(Active(hub)) < MaxOperations
    /\ Cardinality(Targets(hub)) + Cardinality(members) <= MaxTargets
    /\ OperationValid(Previewed(hub, o, members)[o])
    /\ Save(Previewed(hub, o, members))
    /\ UNCHANGED <<now, facts, held, crashes>>

\* require_package_targets_current: the headsets are as they were previewed.
TargetsCurrent(o) == \A d \in Eligible(hub[o]) : facts[d] = hub[o].targets[d].facts

\* execute_package_install_release; Manifold may refuse any target, which leaves
\* everything as it was.
Execute(o) ==
    /\ o \in Known(hub) /\ Lifecycle(hub[o]) = "proposed"
    /\ now < hub[o].expires
    /\ TargetsCurrent(o)
    /\ OperationValid(Executed(hub, o)[o])
    /\ Save(Executed(hub, o))
    /\ UNCHANGED <<now, facts, held, crashes>>

\* claim_package_updater_work; the answer may be lost.  Manifold's authority for
\* the target came with Execute; where it is gone the handler refuses, which
\* changes nothing.
ClaimWork(o, d, r) ==
    LET lapsed == Expired(hub, now)
        granted == Claimed(lapsed, o, d, r)
        claim == [operation |-> o, device |-> d, request |-> r,
                  expires |-> ClaimEnds(lapsed, o)]
    IN /\ <<o, d>> \in Offered(lapsed, now)
       /\ MayOffer(lapsed, o, d, r)
       /\ \A p \in Active(granted) : OperationValid(granted[p])
       /\ Save(granted)
       /\ IF hub' = granted THEN held' \in {held, held \cup {claim}} ELSE UNCHANGED held
       /\ UNCHANGED <<now, facts, crashes>>

\* acknowledge_package_install_release
Acknowledge(c, time) ==
    /\ MayAcknowledge(hub, c)
    /\ OperationValid(Acknowledged(hub, c, time)[c.operation])
    /\ Save(Acknowledged(hub, c, time))
    /\ UNCHANGED <<now, facts, held, crashes>>

\* apply_package_install_release_progress
Report(c, report) ==
    /\ MayReport(hub, c, report)
    /\ OperationValid(Reported(hub, c, report)[c.operation])
    /\ Save(Reported(hub, c, report))
    /\ UNCHANGED <<now, facts, held, crashes>>

\* apply_package_install_release_receipt
Receive(c) ==
    /\ MayReceive(hub, c)
    /\ OperationValid(Received(hub, c)[c.operation])
    /\ Save(Received(hub, c))
    /\ UNCHANGED <<now, facts, held, crashes>>

\* archive_package_operation, by an operator who was shown the operation as it is
MayArchive(o) ==
    /\ o \in Active(hub) /\ IsTerminal(hub[o])
    /\ Cardinality(Archived(hub)) < MaxArchives

Archive(o) ==
    /\ MayArchive(o)
    /\ Save([hub EXCEPT ![o].retention = "archived"])
    /\ UNCHANGED <<now, facts, held, crashes>>

-----------------------------------------------------------------------------
(* The environment.                                                          *)

\* A check-in, or the age of the last one.
Observe(d, f) ==
    /\ facts[d] # f
    /\ facts' = [facts EXCEPT ![d] = f]
    /\ UNCHANGED <<now, hub, disk, held, crashes>>

Tick ==
    /\ now < MaxTime
    /\ now' = now + 1
    /\ UNCHANGED <<facts, hub, disk, held, crashes>>

\* The process ends and opens the newest slot.
Restart ==
    /\ crashes < MaxCrashes
    /\ crashes' = crashes + 1
    /\ hub' = disk
    /\ UNCHANGED <<now, facts, disk, held>>

Init ==
    /\ now = 0
    /\ facts \in [Devices -> Facts]
    /\ hub = [o \in OperationIds |-> NoOperation]
    /\ disk = hub
    /\ held = {}
    /\ crashes = 0

\* The owner repeats, delays and reorders what it sends, with times of its own
\* that are not in the future of the hub (those are refused).
OwnerNext ==
    \/ \E o \in OperationIds, d \in Devices, r \in Requests : ClaimWork(o, d, r)
    \/ \E c \in held, time \in OwnerTimes \cap 0..now : Acknowledge(c, time)
    \/ \E c \in held, stage \in Reports, time \in OwnerTimes \cap 0..now :
          Report(c, [stage |-> stage, observed |-> time])
    \/ \E c \in held : Receive(c)

Next ==
    \/ \E o \in OperationIds, members \in SUBSET Devices : Preview(o, members)
    \/ \E o \in OperationIds : Execute(o) \/ Archive(o)
    \/ OwnerNext
    \/ \E d \in Devices, f \in Facts : Observe(d, f)
    \/ Tick
    \/ Restart

Spec == Init /\ [][Next]_vars

-----------------------------------------------------------------------------
(* Properties.                                                               *)

OperationOK(op) ==
    /\ op.retention \in {"active", "archived"} /\ op.expires \in Deadlines
    /\ Members(op) \subseteq Devices
    /\ \A d \in Members(op) : op.targets[d] \in Target

\* The variables keep their types, and the maps of operations their limits
\* (MAX_PACKAGE_OPERATIONS, MAX_ARCHIVED_PACKAGE_OPERATIONS).
TypeOK ==
    /\ now \in Times /\ facts \in [Devices -> Facts] /\ crashes \in 0..MaxCrashes
    /\ held \subseteq [operation : OperationIds, device : Devices,
                       request : Requests, expires : Deadlines]
    /\ \A h \in {hub, disk} :
          /\ DOMAIN h = OperationIds
          /\ \A o \in Known(h) : OperationOK(h[o])
          /\ Cardinality(Active(h)) <= MaxOperations
          /\ Cardinality(Archived(h)) <= MaxArchives

\* Whatever call the guards of the ledger let through yields targets the
\* contract accepts: of the contract's rules only the parallelism can refuse it.
GuardsSuffice ==
    /\ \A o \in Known(hub) :
          Lifecycle(hub[o]) = "proposed" => TargetsValid(Executed(hub, o)[o])
    /\ \A o \in Active(hub) : TargetsValid(Expired(hub, now)[o])
    /\ \A c \in held :
          /\ MayAcknowledge(hub, c) => TargetsValid(Acknowledged(hub, c, now)[c.operation])
          /\ MayReceive(hub, c) => TargetsValid(Received(hub, c)[c.operation])
          /\ \A stage \in OwnerStages :
                LET report == [stage |-> stage, observed |-> now] IN
                MayReport(hub, c, report) => TargetsValid(Reported(hub, c, report)[c.operation])

\* What the owner is shown without dropping lapsed claims is what a claim is
\* granted for after dropping them, now and at every later time.
OneOfferForBoth ==
    \A time \in now..MaxTime : Offered(hub, time) = Offered(Expired(hub, time), time)

\* The claims the owner may act on: not lapsed and not used up, or acknowledged.
InForce(c) ==
    IF Binds(hub, c)
    THEN \/ ~Lapsed(TargetOf(hub, c), now) /\ Unacknowledged(TargetOf(hub, c))
         \/ TargetOf(hub, c).lifecycle \in {"dispatched", "running"}
    ELSE c.expires > now

\* The owner never holds two claims in force for one target, which is a headset of
\* an operation: over lost answers, persists that fail late and restarts, one
\* installer is at work there.  Two operations on the same headset are not kept
\* apart: each may have its installer.
OneWorkerPerTarget ==
    \A c1, c2 \in held :
        InForce(c1) /\ InForce(c2) /\ c1.operation = c2.operation /\ c1.device = c2.device
            => c1 = c2

\* The owner never holds more claims in force for an operation than its
\* parallelism, but for those whose cancellation was requested.
DeliveryWithinParallelism ==
    \A o \in OperationIds :
        Cardinality({c \in held : c.operation = o /\ InForce(c)}) <= MaxParallelism

\* A request identifier yields one claim, until the operation is archived.
OneClaimPerRequest ==
    \A c1, c2 \in held :
        c1.request = c2.request /\ {c1.operation, c2.operation} \subseteq Active(hub) => c1 = c2

Kept(o, d) == o \in Known(hub) /\ d \in Members(hub[o])

\* No step, not a restart, changes a target that is settled.
TerminalIsFinal ==
    [][\A o \in OperationIds, d \in Devices :
          Kept(o, d) /\ hub[o].targets[d].lifecycle \in Terminal =>
             Kept(o, d)' /\ hub'[o].targets[d] = hub[o].targets[d]]_vars

\* An acknowledged target keeps its claim and its acknowledgement, and its
\* report is replaced only by one the owner made later.
EvidenceAdvances ==
    [][\A o \in OperationIds, d \in Devices :
          Kept(o, d) /\ hub[o].targets[d].acknowledged # None =>
             LET t == hub[o].targets[d]  u == hub'[o].targets[d] IN
             /\ u.owner_claim = t.owner_claim /\ u.acknowledged = t.acknowledged
             /\ \/ u.progress = t.progress
                \/ t.progress = NoProgress
                \/ u.progress.observed > t.progress.observed]_vars

\* What the documents say of max_parallelism: acknowledged targets that are not
\* settled count against it.  A target whose cancellation was requested does not.
InFlightWithinParallelism ==
    \A o \in Known(hub) :
        Cardinality({d \in Members(hub[o]) :
            /\ hub[o].targets[d].acknowledged # None
            /\ hub[o].targets[d].lifecycle \notin Terminal}) <= MaxParallelism

=============================================================================
