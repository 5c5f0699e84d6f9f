---------------------------- MODULE KioskLedger ----------------------------
(***************************************************************************)
(* The kiosk show-controls ledger: the record of an operation              *)
(* (crates/fleet-contracts/src/kiosk.rs) and what each hub call does to it *)
(* (crates/fleet-hub/src/kiosk.rs).  Pure operators, no variables: an      *)
(* operation is a value, a call is a guard and the record it produces.     *)
(*                                                                         *)
(* Fields the contract determines from the others are not kept: the        *)
(* attempt count and the current request come from request_ids, the owner  *)
(* deadline is the preview's expiry, the operation's lifecycle is derived, *)
(* the retry and cancel dispositions follow the lifecycle, and             *)
(* last_transition is the latest of the targets' transition times.         *)
(***************************************************************************)
EXTENDS Integers, Sequences, FiniteSets

CONSTANTS
    Devices,
    Requests,          \* owner action request ids
    StaleAfter,        \* policy.stale_after_ms
    OfflineAfter,      \* policy.offline_after_ms
    NoTarget,          \* a device an operation does not target
    NoRequest          \* stands where a target has no request or receipt

ASSUME LedgerAssumption ==
    /\ StaleAfter \in Nat \ {0}
    /\ OfflineAfter \in Nat /\ OfflineAfter > StaleAfter
    /\ NoRequest \notin Requests
    /\ IsFiniteSet(Devices)

InFlight == {"Dispatched", "Running"}
Terminal == {"Rejected", "Applied", "Failed", "Expired", "Cancelled"}
Lifecycle ==
    InFlight \cup Terminal \cup {"Proposed", "Accepted", "CancellationRequested"}

-----------------------------------------------------------------------------
(* The facts about a target that a preview freezes.                          *)

\* The part of a device record the preflight reads.  `evidence` stands for the
\* capability's revision, observation time and wording, `ready` for its
\* support, enablement, authorization and reachability.
Observed == [identity_revision : Nat, evidence : Nat, ready : BOOLEAN,
             fresh_until : Nat, accepted_at : Nat]

Freshness(observed, now) ==
    LET age == now - observed.accepted_at IN
    IF age > OfflineAfter THEN "offline" ELSE IF age > StaleAfter THEN "stale"
                                                                  ELSE "fresh"

\* kiosk_preflight with expected_eligibility.
Preflight(observed, now) ==
    [identity_revision |-> observed.identity_revision,
     evidence |-> observed.evidence,
     fresh_until |-> observed.fresh_until,
     freshness |-> Freshness(observed, now),
     eligible |-> /\ observed.ready
                  /\ Freshness(observed, now) = "fresh"
                  /\ now <= observed.fresh_until]

PreflightRecord ==
    [identity_revision : Nat, evidence : Nat, fresh_until : Nat,
     freshness : {"fresh", "stale", "offline"}, eligible : BOOLEAN]

\* mutant: only the identity is compared
SameIdentityOnly(target, observed, now) ==
    target.preflight.identity_revision = observed.identity_revision

\* require_target_current: every frozen fact still holds at now.
TargetCurrent(target, observed, now) == target.preflight = Preflight(observed, now)

-----------------------------------------------------------------------------
(* The record.                                                               *)

NoTime == -1   \* dispatched_at of a target that was never dispatched

Target ==
    [preflight : PreflightRecord, lifecycle : Lifecycle,
     dispatched_at : Nat \cup {NoTime}, request_ids : Seq(Requests),
     receipt : Requests \cup {NoRequest}]

ASSUME NoTargetAssumption == NoTarget \notin Target

Operation ==
    [created : Nat, expires : Nat, max_parallelism : Nat \ {0},
     max_attempts : Nat \ {0}, last_transition : Nat,
     targets : [Devices -> Target \cup {NoTarget}]]

TargetIds(op) == {d \in Devices : op.targets[d] # NoTarget}
Eligible(op) == {d \in TargetIds(op) : op.targets[d].preflight.eligible}
InState(op, states) == {d \in TargetIds(op) : op.targets[d].lifecycle \in states}
Attempts(target) == Len(target.request_ids)
CurrentRequest(target) ==
    IF target.request_ids = <<>> THEN NoRequest
                                 ELSE target.request_ids[Len(target.request_ids)]

\* mutant: a pending cancellation is taken for a settled target
DerivedTooEarly(op) ==
    LET held == {op.targets[d].lifecycle : d \in Eligible(op)} IN
    IF held = {}                 THEN "Rejected"
    ELSE IF held \cap InFlight # {} THEN "Running"
    ELSE IF "Proposed" \in held THEN "Proposed"
    ELSE IF "Accepted" \in held THEN "Accepted"
    ELSE IF held = {"Applied"}   THEN "Applied"
    ELSE "Failed"

\* derived_lifecycle: what the eligible targets still hold open decides first.
DerivedLifecycle(op) ==
    LET held == {op.targets[d].lifecycle : d \in Eligible(op)} IN
    IF held = {}                             THEN "Rejected"
    ELSE IF held \cap InFlight # {}          THEN "Running"
    ELSE IF "CancellationRequested" \in held THEN "CancellationRequested"
    ELSE IF "Proposed" \in held              THEN "Proposed"
    ELSE IF "Accepted" \in held              THEN "Accepted"
    ELSE IF held = {"Applied"}               THEN "Applied"
    ELSE IF held = {"Cancelled"}             THEN "Cancelled"
    ELSE IF held = {"Expired"}               THEN "Expired"
    ELSE "Failed"

-----------------------------------------------------------------------------
(* What KioskShowControlsOperation::validate demands.                        *)

Distinct(s) == \A i, j \in 1..Len(s) : s[i] = s[j] => i = j

NeverSent == {"Proposed", "Accepted", "CancellationRequested", "Cancelled"}
WasSent == InFlight \cup {"Applied", "Failed", "Expired"}

TargetValid(op, target) ==
    /\ Attempts(target) <= op.max_attempts
    /\ Distinct(target.request_ids)
    /\ target.preflight.eligible <=> target.lifecycle # "Rejected"
    /\ (target.lifecycle \in NeverSent \cup {"Rejected"}) <=> Attempts(target) = 0
    /\ IF Attempts(target) = 0
       THEN target.dispatched_at = NoTime
       ELSE /\ op.created <= target.dispatched_at
            /\ target.dispatched_at <= op.last_transition
            /\ target.dispatched_at < op.expires
    /\ target.receipt = IF target.lifecycle = "Applied" THEN CurrentRequest(target)
                                                        ELSE NoRequest

OperationValid(op) ==
    /\ op.created < op.expires
    /\ \A d \in TargetIds(op) : TargetValid(op, op.targets[d])
    /\ Cardinality(InState(op, InFlight)) <= op.max_parallelism

-----------------------------------------------------------------------------
(* The calls.                                                                *)

\* require_monotonic_time
Monotonic(op, now) == now >= op.last_transition

NewTarget(observed, now) ==
    [preflight |-> Preflight(observed, now),
     lifecycle |-> IF Preflight(observed, now).eligible THEN "Proposed"
                                                        ELSE "Rejected",
     dispatched_at |-> NoTime, request_ids |-> <<>>, receipt |-> NoRequest]

\* preview_kiosk_show_controls of the devices T, observed as in view.
Previewed(T, view, now, lifetime, parallelism, attempts) ==
    [created |-> now, expires |-> now + lifetime,
     max_parallelism |-> parallelism, max_attempts |-> attempts,
     last_transition |-> now,
     targets |-> [d \in Devices |->
                   IF d \in T THEN NewTarget(view[d], now) ELSE NoTarget]]

\* confirm_kiosk_show_controls
MayConfirm(op, view, now) ==
    /\ Monotonic(op, now)
    /\ DerivedLifecycle(op) = "Proposed"
    /\ now <= op.expires
    /\ \A d \in TargetIds(op) : TargetCurrent(op.targets[d], view[d], now)

Confirmed(op, now) ==
    [op EXCEPT !.last_transition = now,
               !.targets = [d \in Devices |->
                  IF d \in Eligible(op)
                  THEN [op.targets[d] EXCEPT !.lifecycle = "Accepted"]
                  ELSE op.targets[d]]]

\* A call that moves one target.
Moved(op, d, now, target) ==
    [op EXCEPT !.last_transition = now, !.targets[d] = target]

\* mutants: no attempt limit; an applied target is sent again
DispatchUnlimited(op, d, request, observed, now) ==
    LET target == op.targets[d] IN
    /\ Monotonic(op, now) /\ now <= op.expires
    /\ target.lifecycle \in {"Accepted", "Failed", "Expired"}
    /\ \A i \in 1..Attempts(target) : target.request_ids[i] # request
    /\ Cardinality(InState(op, InFlight)) < op.max_parallelism
    /\ TargetCurrent(target, observed, now)

DispatchAgain(op, d, request, observed, now) ==
    LET target == op.targets[d] IN
    /\ Monotonic(op, now) /\ now <= op.expires
    /\ target.lifecycle \in {"Accepted", "Failed", "Expired", "Applied"}
    /\ Attempts(target) < op.max_attempts
    /\ \A i \in 1..Attempts(target) : target.request_ids[i] # request
    /\ Cardinality(InState(op, InFlight)) < op.max_parallelism
    /\ TargetCurrent(target, observed, now)

\* dispatch_kiosk_show_controls
MayDispatch(op, d, request, observed, now) ==
    LET target == op.targets[d] IN
    /\ Monotonic(op, now)
    /\ now <= op.expires
    /\ target.lifecycle \in {"Accepted", "Failed", "Expired"}
    /\ Attempts(target) < op.max_attempts
    /\ \A i \in 1..Attempts(target) : target.request_ids[i] # request
    /\ Cardinality(InState(op, InFlight)) < op.max_parallelism
    /\ TargetCurrent(target, observed, now)

Dispatched(op, d, request, now) ==
    Moved(op, d, now,
          [op.targets[d] EXCEPT !.lifecycle = "Dispatched",
                                !.dispatched_at = now,
                                !.request_ids = Append(@, request),
                                !.receipt = NoRequest])

\* mark_kiosk_show_controls_running
MayMarkRunning(op, d, now) ==
    Monotonic(op, now) /\ op.targets[d].lifecycle = "Dispatched"

MarkedRunning(op, d, now) ==
    Moved(op, d, now, [op.targets[d] EXCEPT !.lifecycle = "Running"])

\* apply_kiosk_show_controls_receipt of a receipt that names the identity
\* revision and the owner action request it answers.
MayApply(op, d, identity_revision, request, now) ==
    LET target == op.targets[d] IN
    /\ Monotonic(op, now)
    /\ target.lifecycle \in InFlight
    /\ identity_revision = target.preflight.identity_revision
    /\ request = CurrentRequest(target)

Applied(op, d, request, now) ==
    Moved(op, d, now,
          [op.targets[d] EXCEPT !.lifecycle = "Applied", !.receipt = request])

\* fail_ and expire_kiosk_show_controls: finish_owner_attempt
MayFinish(op, d, now) == Monotonic(op, now) /\ op.targets[d].lifecycle \in InFlight

Finished(op, d, outcome, now) ==
    Moved(op, d, now, [op.targets[d] EXCEPT !.lifecycle = outcome])

\* mutant: a target may be cancelled before the operation is confirmed
CancelUnconfirmed(op, d, now) ==
    Monotonic(op, now) /\ op.targets[d].lifecycle \in {"Proposed", "Accepted"}

\* request_ and complete_kiosk_show_controls_cancellation
MayRequestCancellation(op, d, now) ==
    Monotonic(op, now) /\ op.targets[d].lifecycle = "Accepted"

CancellationRequested(op, d, now) ==
    Moved(op, d, now, [op.targets[d] EXCEPT !.lifecycle = "CancellationRequested"])

MayCompleteCancellation(op, d, now) ==
    Monotonic(op, now) /\ op.targets[d].lifecycle = "CancellationRequested"

CancellationCompleted(op, d, now) ==
    Moved(op, d, now, [op.targets[d] EXCEPT !.lifecycle = "Cancelled"])

\* What FleetHub::restore demands of an operation: it is valid, and a target
\* that is not terminal still has the identity revision it was previewed with.
OperationRestorable(op, view) ==
    /\ OperationValid(op)
    /\ \A d \in TargetIds(op) :
          op.targets[d].lifecycle \notin Terminal =>
             view[d].identity_revision = op.targets[d].preflight.identity_revision

=============================================================================
