-------------------------- MODULE KioskOperations --------------------------
(***************************************************************************)
(* The kiosk operations a FleetHub holds (crates/fleet-hub/src/kiosk.rs),  *)
(* next to the observations that change under them.  One action per hub    *)
(* call.  Every call is given the time by its caller, from a wall clock    *)
(* that may be set back: now is any time in Times, not a variable.         *)
(* A refused call, and the replay of a call already made, change nothing.  *)
(***************************************************************************)
EXTENDS KioskLedger

CONSTANTS
    OperationIds,
    NoOperation,       \* an operation id that names no operation yet
    Times,             \* the times a call may be made at
    Lifetime,          \* preview lifetime, at most PREVIEW_MAX_LIFETIME_MS
    Parallelism,       \* max_parallelism values a plan may name
    AttemptLimits,     \* max_attempts_per_target values a plan may name
    FreshFor,          \* how long after its acceptance capability evidence lasts
    MaxEvidence,       \* bound of the model on the evidence of a headset
    MaxIdentity        \* bound of the model on the identity revisions of a headset

ASSUME CallAssumption ==
    /\ Times \subseteq Nat
    /\ Lifetime \in Nat \ {0}
    /\ Parallelism \subseteq Nat \ {0}
    /\ AttemptLimits \subseteq Nat \ {0}
    /\ FreshFor \in Nat
    /\ MaxIdentity \in [Devices -> Nat]

ASSUME NoOperationAssumption == NoOperation \notin Operation

VARIABLES
    observed,          \* device_id -> the part of its record a preflight reads
    operations         \* operation_id -> Operation or NoOperation

kioskVars == <<observed, operations>>

Exists(id) == operations[id] # NoOperation

\* Every call ends by validating the operation it would store.
Store(id, op) ==
    /\ OperationValid(op)
    /\ operations' = [operations EXCEPT ![id] = op]
    /\ UNCHANGED observed

-----------------------------------------------------------------------------
\* A check-in of the device is accepted with new evidence: the same identity or
\* the next one (the lineage rules are the business of DeviceDirectory).
Observe(d, identity_revision, ready, now) ==
    /\ observed[d].evidence < MaxEvidence[d]
    /\ identity_revision \in {observed[d].identity_revision,
                              observed[d].identity_revision + 1}
    /\ identity_revision <= MaxIdentity[d]
    /\ observed' = [observed EXCEPT ![d] =
          [identity_revision |-> identity_revision, evidence |-> @.evidence + 1,
           ready |-> ready, fresh_until |-> now + FreshFor, accepted_at |-> now]]
    /\ UNCHANGED operations

\* A check-in is accepted that reports the capability as it was: only its
\* acceptance is new, and perhaps its identity.
ObserveAgain(d, identity_revision, now) ==
    /\ identity_revision \in {observed[d].identity_revision,
                              observed[d].identity_revision + 1}
    /\ identity_revision <= MaxIdentity[d]
    /\ observed' = [observed EXCEPT ![d].identity_revision = identity_revision,
                                   ![d].accepted_at = now]
    /\ UNCHANGED operations

\* preview_kiosk_show_controls
Preview(id, T, parallelism, attempts, now) ==
    /\ ~Exists(id)
    /\ Store(id, Previewed(T, observed, now, Lifetime, parallelism, attempts))

\* confirm_kiosk_show_controls
Confirm(id, now) ==
    /\ Exists(id)
    /\ MayConfirm(operations[id], observed, now)
    /\ Store(id, Confirmed(operations[id], now))

\* dispatch_kiosk_show_controls
Dispatch(id, d, request, now) ==
    /\ Exists(id) /\ d \in TargetIds(operations[id])
    /\ MayDispatch(operations[id], d, request, observed[d], now)
    /\ Store(id, Dispatched(operations[id], d, request, now))

\* mark_kiosk_show_controls_running
MarkRunning(id, d, now) ==
    /\ Exists(id) /\ d \in TargetIds(operations[id])
    /\ MayMarkRunning(operations[id], d, now)
    /\ Store(id, MarkedRunning(operations[id], d, now))

\* apply_kiosk_show_controls_receipt
ApplyReceipt(id, d, identity_revision, request, now) ==
    /\ Exists(id) /\ d \in TargetIds(operations[id])
    /\ MayApply(operations[id], d, identity_revision, request, now)
    /\ Store(id, Applied(operations[id], d, request, now))

\* fail_kiosk_show_controls and expire_kiosk_show_controls
Finish(id, d, outcome, now) ==
    /\ Exists(id) /\ d \in TargetIds(operations[id])
    /\ MayFinish(operations[id], d, now)
    /\ Store(id, Finished(operations[id], d, outcome, now))

\* request_kiosk_show_controls_cancellation
RequestCancellation(id, d, now) ==
    /\ Exists(id) /\ d \in TargetIds(operations[id])
    /\ MayRequestCancellation(operations[id], d, now)
    /\ Store(id, CancellationRequested(operations[id], d, now))

\* complete_kiosk_show_controls_cancellation
CompleteCancellation(id, d, now) ==
    /\ Exists(id) /\ d \in TargetIds(operations[id])
    /\ MayCompleteCancellation(operations[id], d, now)
    /\ Store(id, CancellationCompleted(operations[id], d, now))

KioskInit ==
    /\ observed = [d \in Devices |->
          [identity_revision |-> 1, evidence |-> 1, ready |-> TRUE,
           fresh_until |-> FreshFor, accepted_at |-> 0]]
    /\ operations = [id \in OperationIds |-> NoOperation]

\* The calls that concern one target of one operation.
TargetCall(id, d, now) ==
    \/ \E request \in Requests :
          \/ Dispatch(id, d, request, now)
          \/ \E revision \in 1..MaxIdentity[d] : ApplyReceipt(id, d, revision, request, now)
    \/ MarkRunning(id, d, now)
    \/ \E outcome \in {"Failed", "Expired"} : Finish(id, d, outcome, now)
    \/ RequestCancellation(id, d, now)
    \/ CompleteCancellation(id, d, now)

KioskNext ==
    \E now \in Times :
        \/ \E d \in Devices : \E revision \in 1..MaxIdentity[d] :
              \/ \E ready \in BOOLEAN : Observe(d, revision, ready, now)
              \/ ObserveAgain(d, revision, now)
        \/ \E id \in OperationIds :
              \/ \E T \in SUBSET Devices \ {{}}, p \in Parallelism, a \in AttemptLimits :
                    Preview(id, T, p, a, now)
              \/ Confirm(id, now)
              \/ \E d \in Devices : TargetCall(id, d, now)

KioskSpec == KioskInit /\ [][KioskNext]_kioskVars

-----------------------------------------------------------------------------
(* Properties.                                                               *)

\* Every variable has its type.
KioskTypeOK ==
    /\ observed \in [Devices -> Observed]
    /\ operations \in [OperationIds -> Operation \cup {NoOperation}]

\* The contract check at the end of every call is a second line of defence:
\* what the guards of a call let through is always a valid operation.  The one
\* exception is a dispatch at the very instant the preview expires, which the
\* guard (now > expires_at_ms) admits and the contract, which wants the owner
\* deadline after the dispatch, refuses.
GuardsSuffice ==
    \A id \in OperationIds : Exists(id) =>
        LET op == operations[id] IN
        \A now \in Times :
            /\ MayConfirm(op, observed, now) => OperationValid(Confirmed(op, now))
            /\ \A d \in TargetIds(op) :
                /\ \A request \in Requests :
                    /\ MayDispatch(op, d, request, observed[d], now)
                          /\ now # op.expires =>
                             OperationValid(Dispatched(op, d, request, now))
                    /\ MayApply(op, d, op.targets[d].preflight.identity_revision,
                                request, now) =>
                          OperationValid(Applied(op, d, request, now))
                /\ MayMarkRunning(op, d, now) =>
                      OperationValid(MarkedRunning(op, d, now))
                /\ MayFinish(op, d, now) =>
                      OperationValid(Finished(op, d, "Failed", now))
                /\ MayRequestCancellation(op, d, now) =>
                      OperationValid(CancellationRequested(op, d, now))
                /\ MayCompleteCancellation(op, d, now) =>
                      OperationValid(CancellationCompleted(op, d, now))

\* Confirmation is of the whole preview or of nothing: no eligible target is
\* still Proposed once another has been accepted, sent or cancelled, so no
\* owner attempt ever starts for a target the operator did not confirm.
ConfirmedTogether ==
    \A id \in OperationIds : Exists(id) =>
        LET op == operations[id] IN
        \/ Eligible(op) \subseteq InState(op, {"Proposed"})
        \/ Eligible(op) \cap InState(op, {"Proposed"}) = {}

\* The lifecycle shown for an operation is final exactly when every target is
\* settled, which is what active_kiosk_operation_count and the console read.
FinalMeansSettled ==
    \A id \in OperationIds : Exists(id) =>
        LET op == operations[id] IN
        DerivedLifecycle(op) \in Terminal <=> TargetIds(op) = InState(op, Terminal)

\* Across every call the preview stays frozen, settled targets that cannot be
\* retried stay as they are, and attempts are only ever added.
HistoryIsKept ==
    [][\A id \in OperationIds : Exists(id) =>
        LET old == operations[id]
            new == operations'[id]
        IN  /\ new.expires = old.expires
            /\ new.max_parallelism = old.max_parallelism
            /\ TargetIds(new) = TargetIds(old)
            /\ \A d \in TargetIds(old) :
                LET was == old.targets[d]
                    is == new.targets[d]
                IN  /\ is.preflight = was.preflight
                    /\ was.lifecycle \in {"Applied", "Cancelled", "Rejected"} =>
                          is = was
                    /\ Attempts(is) >= Attempts(was)
                    /\ SubSeq(is.request_ids, 1, Attempts(was)) = was.request_ids]_kioskVars

\* An attempt starts only for the identity and the evidence the operator saw
\* in the preview, however the device has checked in since.
StartsOnlyWhatWasPreviewed ==
    [][\A id \in OperationIds : Exists(id) =>
        \A d \in TargetIds(operations[id]) :
            LET was == operations[id].targets[d]
                is == operations'[id].targets[d]
            IN  Attempts(is) > Attempts(was) =>
                    /\ observed[d].identity_revision = was.preflight.identity_revision
                    /\ observed[d].evidence = was.preflight.evidence
                    /\ observed[d].ready]_kioskVars

=============================================================================
