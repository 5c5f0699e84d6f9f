--------------------------- MODULE KioskDispatch ---------------------------
(***************************************************************************)
(* How the local hub (apps/fleet-hub-local/src/lib.rs) carries out one     *)
(* kiosk operation: the handlers that preview and execute it, the worker   *)
(* task of each owner attempt, the scheduler that admits waiting targets   *)
(* as slots complete, the two durable slots, crashes and restarts.         *)
(*                                                                         *)
(* Handlers and the critical section of a worker or scheduler run under    *)
(* one lock: each is one action, which builds a candidate, persists it and *)
(* only then swaps it in.  A persist that fails before it publishes the    *)
(* slot leaves no trace, so it is a stuttering step; one that fails after  *)
(* leaves the disk ahead of the hub.  Sending and polling run without the  *)
(* lock, between those sections.                                           *)
(***************************************************************************)
EXTENDS KioskLedger, SequencesExt

CONSTANTS
    NoOperation,
    Lifetime,          \* OPERATION_PREVIEW_LIFETIME_MS
    Parallelism,       \* DEFAULT_OPERATION_PARALLELISM
    FreshFor,          \* how long capability evidence lasts
    MaxTime,           \* bound of the model on the clock
    MaxEvidence,       \* bound of the model on the check-ins of a headset
    MaxIdentity,       \* bound of the model on the identity revisions of a headset
    MaxCrashes,        \* bound of the model on crashes
    MaxExecutions,     \* bound of the model on execute requests
    MayRefuse          \* TRUE if the Manifold host may refuse an authorization

\* DEFAULT_OPERATION_ATTEMPTS; the local hub only ever makes the first attempt.
AttemptLimit == 1

\* owner_action_request_id of the first attempt, determined by the device.
RequestOf(d) == d
ASSUME RequestAssumption == Devices \subseteq Requests

ASSUME NoOperationAssumption == NoOperation \notin Operation

ASSUME CallAssumption ==
    /\ Lifetime \in Nat \ {0} /\ Parallelism \in Nat \ {0}
    /\ FreshFor \in Nat
    /\ MaxTime \in Nat /\ MaxIdentity \in [Devices -> Nat] /\ MaxCrashes \in Nat

VARIABLES
    now,
    up,                \* the process runs
    hub,               \* runtime.hub; when down, what was last visible of it
    disk,              \* the durable slots
    inflight,          \* runtime.inflight_kiosk_targets
    workers,           \* device -> the phases of its worker tasks
    schedulers,        \* schedule_pending_owner_work calls still to run
    invoked,           \* device -> times its headset was sent the request
    delivered,         \* devices whose headset received it
    executed,          \* times an operator executed the operation
    crashes

runtime == <<inflight, workers, schedulers>>
owner == <<invoked, delivered, executed>>
vars == <<now, up, hub, disk, inflight, workers, schedulers, invoked,
          delivered, executed, crashes>>

Phase == {"invoke", "resume", "poll", "receipt", "unknown"}

op == hub.operation
Held(state) == {d \in Devices : op # NoOperation /\ d \in InState(op, state)}

-----------------------------------------------------------------------------
(* DurableStateStore.  The slot written is that of the generation after the  *)
(* one the process knows; a slot published by a persist that then failed is  *)
(* not known, so the next persist writes it again.                           *)

\* mutant: the slot of the generation already held is written
SavedInWrongSlot(candidate, known) ==
    [newest |-> disk.newest, previous |-> candidate, ahead |-> FALSE]

Saved(candidate, known) ==
    [newest |-> candidate,
     previous |-> IF disk.ahead THEN disk.previous ELSE disk.newest,
     ahead |-> ~known]

\* persist, then the swap and what follows it; or a persist that fails after
\* it has published the slot.
PersistAndSwap(candidate) == disk' = Saved(candidate, TRUE) /\ hub' = candidate
PersistFailsLate(candidate) ==
    /\ disk' = Saved(candidate, FALSE)
    /\ UNCHANGED <<hub, runtime>>

Restorable(snapshot) ==
    \/ snapshot.operation = NoOperation
    \/ OperationRestorable(snapshot.operation, snapshot.observed)

-----------------------------------------------------------------------------
(* Time and check-ins.                                                       *)

Tick == now < MaxTime /\ now' = now + 1
        /\ UNCHANGED <<up, hub, disk, runtime, owner, crashes>>

\* checkin of an admitted observation, with the next identity revision or the
\* same one.
CheckIn(d, identity_revision) ==
    LET seen == hub.observed[d]
        candidate == [hub EXCEPT !.observed[d] =
            [identity_revision |-> identity_revision, evidence |-> seen.evidence + 1,
             ready |-> TRUE, fresh_until |-> now + FreshFor, accepted_at |-> now]]
    IN  /\ up
        /\ seen.evidence < MaxEvidence[d]
        /\ identity_revision - seen.identity_revision \in {0, 1}
        /\ \/ PersistAndSwap(candidate) /\ UNCHANGED runtime
           \/ PersistFailsLate(candidate)
        /\ UNCHANGED <<now, up, owner, crashes>>

-----------------------------------------------------------------------------
(* Handlers.                                                                 *)

\* preview_operation
PreviewOperation ==
    LET previewed == Previewed(Devices, hub.observed, now, Lifetime, Parallelism,
                               AttemptLimit)
        candidate == [hub EXCEPT !.operation = previewed]
    IN  /\ up /\ op = NoOperation
        /\ now + Lifetime <= MaxTime    \* bound: the clock reaches the expiry
        /\ OperationValid(previewed)
        /\ \/ PersistAndSwap(candidate) /\ UNCHANGED runtime
           \/ PersistFailsLate(candidate)
        /\ UNCHANGED <<now, up, owner, crashes>>

\* The targets S of o are dispatched one after the other, at one time.
DispatchedAll(o, S) ==
    [o EXCEPT !.last_transition = now,
              !.targets = [d \in Devices |->
                  IF d \in S THEN Dispatched(o, d, RequestOf(d), now).targets[d]
                             ELSE o.targets[d]]]

MayDispatchAll(o, S) ==
    /\ \A d \in S : MayDispatch(o, d, RequestOf(d), hub.observed[d], now)
    /\ OperationValid(DispatchedAll(o, S))

\* Which waiting targets go first follows the order of their ids; here any may.
FirstOf(waiting, slots) ==
    {S \in SUBSET waiting :
        Cardinality(S) = IF Cardinality(waiting) < slots THEN Cardinality(waiting)
                                                         ELSE slots}

Spawn(S, phase) ==
    /\ inflight' = inflight \cup S
    /\ workers' = [d \in Devices |-> IF d \in S THEN Append(workers[d], phase)
                                                ELSE workers[d]]

\* execute_operation: confirm, authorize and dispatch what fits, persist, spawn.
ExecuteOperation ==
    /\ up /\ op # NoOperation
    /\ executed < MaxExecutions
    /\ Eligible(op) # {}
    /\ MayConfirm(op, hub.observed, now)
    /\ \E S \in FirstOf(Eligible(op), op.max_parallelism) :
        LET confirmed == Confirmed(op, now)
            candidate == [hub EXCEPT !.operation = DispatchedAll(confirmed, S)]
        IN  /\ MayDispatchAll(confirmed, S)
            /\ \/ PersistAndSwap(candidate) /\ Spawn(S, "invoke") /\ UNCHANGED schedulers
               \/ PersistFailsLate(candidate)
    /\ executed' = executed + 1
    /\ UNCHANGED <<now, up, invoked, delivered, crashes>>

-----------------------------------------------------------------------------
(* A worker: run_owner_work without the lock, then the commit of its result. *)

WorkerAt(d, i, phase) == up /\ i \in 1..Len(workers[d]) /\ workers[d][i] = phase

Advance(d, i, phase) ==
    /\ workers' = [workers EXCEPT ![d][i] = phase]
    /\ UNCHANGED <<now, up, hub, disk, inflight, schedulers, crashes>>

\* send_signed: of an exchange that fails the hub does not learn whether the
\* headset has acted.
Exchanged(d) == {delivered, delivered \cup {d}}

\* invoke_show_controls: the request may be lost, and so may the answer.
WorkerInvokes(d, i) ==
    /\ WorkerAt(d, i, "invoke")
    /\ now < op.expires
    /\ invoked' = [invoked EXCEPT ![d] = @ + 1]
    /\ delivered' \in Exchanged(d)
    /\ UNCHANGED executed
    /\ Advance(d, i, "resume")

\* resume_show_controls_result
WorkerStartsPolling(d, i) ==
    /\ WorkerAt(d, i, "resume")
    /\ now < op.expires
    /\ Advance(d, i, "poll")
    /\ UNCHANGED owner

\* A poll returns the signed effective result of a headset that has acted.
WorkerReceives(d, i) ==
    /\ WorkerAt(d, i, "poll")
    /\ now <= op.expires
    /\ d \in delivered
    /\ Advance(d, i, "receipt")
    /\ UNCHANGED owner

\* A poll fails: a transport error, an unexpected status, a refusal.
WorkerPollFails(d, i) ==
    /\ WorkerAt(d, i, "poll")
    /\ Advance(d, i, "unknown")
    /\ UNCHANGED owner

\* mutant: only a worker that is polling notices the deadline
OnlyPollsTimeOut(d, i) ==
    /\ WorkerAt(d, i, "poll")
    /\ now >= op.expires
    /\ Advance(d, i, "unknown")
    /\ UNCHANGED owner

\* The deadline has passed, whatever the worker was about to do.
WorkerTimesOut(d, i) ==
    /\ \E phase \in {"invoke", "resume", "poll"} : WorkerAt(d, i, phase)
    /\ now >= op.expires
    /\ Advance(d, i, "unknown")
    /\ UNCHANGED owner

Retire(d, i) == workers' = [workers EXCEPT ![d] = RemoveAt(@, i)]
                /\ inflight' = inflight \ {d}

\* The loop of spawn_owner_work, once the target is found settled.
WorkerFindsSettled(d, i) ==
    /\ \E phase \in {"receipt", "unknown"} : WorkerAt(d, i, phase)
    /\ d \in Held(Terminal)
    /\ Retire(d, i)
    /\ UNCHANGED <<now, up, hub, disk, schedulers, owner, crashes>>

\* The loop of spawn_owner_work: the result is applied, or its absence recorded
\* as Expired, the candidate persisted, and the scheduler called.
WorkerCommits(d, i, known) ==
    /\ d \notin Held(Terminal)
    /\ \E updated \in
          (IF WorkerAt(d, i, "receipt")
              /\ MayApply(op, d, op.targets[d].preflight.identity_revision,
                          RequestOf(d), now)
           THEN {Applied(op, d, RequestOf(d), now)} ELSE {}) \cup
          (IF WorkerAt(d, i, "unknown") /\ MayFinish(op, d, now)
           THEN {Finished(op, d, "Expired", now)} ELSE {}) :
        LET candidate == [hub EXCEPT !.operation = updated] IN
        /\ OperationValid(updated)
        /\ IF known
           THEN PersistAndSwap(candidate) /\ Retire(d, i) /\ schedulers' = schedulers + 1
           ELSE PersistFailsLate(candidate)
    /\ UNCHANGED <<now, up, owner, crashes>>

-----------------------------------------------------------------------------
(* schedule_pending_owner_work                                               *)

Waiting == Held({"Accepted"})
Slots == op.max_parallelism - Cardinality(Held(InFlight))

SchedulerReturns ==
    /\ schedulers' = schedulers - 1
    /\ UNCHANGED <<now, up, hub, disk, inflight, workers, owner, crashes>>

\* mutant: runs without a call to run for
IdleUncalled ==
    /\ up /\ Waiting = {}
    /\ SchedulerReturns

\* Nothing waits, or no slot is free.
SchedulerIdle ==
    /\ up /\ schedulers > 0
    /\ \/ Waiting = {}
       \/ now < op.expires /\ Slots <= 0
    /\ SchedulerReturns

\* authorize_kiosk_show_controls, where Manifold decides.
AuthorityRefuses == MayRefuse

\* One of the targets that are next cannot be authorized or dispatched.
SchedulerRefused ==
    /\ up /\ schedulers > 0
    /\ Waiting # {} /\ now < op.expires /\ Slots > 0
    /\ \/ AuthorityRefuses
       \/ \E S \in FirstOf(Waiting, Slots) : ~MayDispatchAll(op, S)
    /\ SchedulerReturns

\* The waiting targets that fit are dispatched.
SchedulerDispatches(known) ==
    /\ up /\ schedulers > 0
    /\ Waiting # {} /\ now < op.expires /\ Slots > 0
    /\ \E S \in FirstOf(Waiting, Slots) :
        LET candidate == [hub EXCEPT !.operation = DispatchedAll(op, S)] IN
        /\ MayDispatchAll(op, S)
        /\ IF known
           THEN /\ PersistAndSwap(candidate) /\ Spawn(S, "invoke")
                /\ schedulers' = schedulers - 1
           ELSE PersistFailsLate(candidate)
    /\ UNCHANGED <<now, up, owner, crashes>>

CancelledAll(o, S) ==
    [o EXCEPT !.last_transition = now,
              !.targets = [d \in Devices |->
                  IF d \in S THEN CancellationCompleted(o, d, now).targets[d]
                             ELSE o.targets[d]]]

\* The preview has expired: what waits is cancelled.
SchedulerCancels(known) ==
    LET candidate == [hub EXCEPT !.operation = CancelledAll(op, Waiting)] IN
    /\ up /\ schedulers > 0
    /\ Waiting # {} /\ now >= op.expires
    /\ \A d \in Waiting : MayRequestCancellation(op, d, now)
    /\ OperationValid(candidate.operation)
    /\ IF known
       THEN /\ PersistAndSwap(candidate) /\ schedulers' = schedulers - 1
            /\ UNCHANGED <<inflight, workers>>
       ELSE PersistFailsLate(candidate)
    /\ UNCHANGED <<now, up, owner, crashes>>

-----------------------------------------------------------------------------
(* Crash and restart.                                                        *)

Crash ==
    /\ up /\ crashes < MaxCrashes
    /\ up' = FALSE
    /\ inflight' = {} /\ schedulers' = 0
    /\ workers' = [d \in Devices |-> <<>>]
    /\ crashes' = crashes + 1
    /\ UNCHANGED <<now, hub, disk, owner>>

\* mutants: the request is sent again; attempts in flight are forgotten; the
\* older slot is tried first
InvokeAgain == "invoke"
NothingToRecover(snapshot) == {}
OlderFirst == {s \in {disk.previous} : Restorable(s)}

RecoveryPhase == "resume"

\* schedule_recovered_owner_work: the attempts that were in flight.
Recovered(snapshot) ==
    IF snapshot.operation = NoOperation THEN {}
                                        ELSE InState(snapshot.operation, InFlight)

\* DurableStateStore::open: the newest slot that can be restored.
RestoredFrom ==
    IF Restorable(disk.newest) THEN {disk.newest}
    ELSE {s \in {disk.previous} : Restorable(s)}

Restart ==
    /\ ~up /\ up' = TRUE
    /\ \E snapshot \in RestoredFrom :
        /\ hub' = snapshot
        /\ disk' = [disk EXCEPT !.ahead = snapshot # disk.newest]
        /\ Spawn(Recovered(snapshot), RecoveryPhase)
        /\ schedulers' = IF snapshot.operation # NoOperation
                            /\ InState(snapshot.operation, {"Accepted"}) # {}
                         THEN 1 ELSE 0
    /\ UNCHANGED <<now, owner, crashes>>

-----------------------------------------------------------------------------
Init ==
    /\ now = 0 /\ up = TRUE /\ crashes = 0
    /\ hub = [observed |-> [d \in Devices |->
                 [identity_revision |-> 1, evidence |-> 1, ready |-> TRUE,
                  fresh_until |-> FreshFor, accepted_at |-> 0]],
              operation |-> NoOperation]
    /\ disk = [newest |-> hub, previous |-> hub, ahead |-> FALSE]
    /\ inflight = {} /\ schedulers = 0
    /\ workers = [d \in Devices |-> <<>>]
    /\ invoked = [d \in Devices |-> 0]
    /\ delivered = {} /\ executed = 0

WorkerStep(d, i) ==
    \/ WorkerInvokes(d, i)
    \/ WorkerStartsPolling(d, i)
    \/ WorkerReceives(d, i)
    \/ WorkerPollFails(d, i)
    \/ WorkerTimesOut(d, i)
    \/ WorkerFindsSettled(d, i)
    \/ \E known \in BOOLEAN : WorkerCommits(d, i, known)

Next ==
    \/ Tick
    \/ \E d \in Devices : \E revision \in 1..MaxIdentity[d] : CheckIn(d, revision)
    \/ PreviewOperation
    \/ ExecuteOperation
    \/ \E d \in Devices : \E i \in 1..Len(workers[d]) : WorkerStep(d, i)
    \/ SchedulerIdle
    \/ SchedulerRefused
    \/ \E known \in BOOLEAN : SchedulerDispatches(known) \/ SchedulerCancels(known)
    \/ Crash
    \/ Restart

\* Time passes; a task that can run runs, and its persist does not fail for
\* ever; a process that is down is started again.  Operators and headsets are
\* not fair: nobody has to execute a preview, check in or answer a poll.
Fairness ==
    /\ WF_vars(Tick)
    /\ WF_vars(Restart)
    /\ \A d \in Devices :
        /\ WF_vars(WorkerTimesOut(d, 1))
        /\ WF_vars(WorkerFindsSettled(d, 1))
        /\ WF_vars(WorkerCommits(d, 1, TRUE))
    /\ WF_vars(SchedulerIdle)
    /\ WF_vars(SchedulerRefused \/ SchedulerDispatches(TRUE))
    /\ WF_vars(SchedulerCancels(TRUE))

Spec == Init /\ [][Next]_vars
FairSpec == Spec /\ Fairness

-----------------------------------------------------------------------------
(* Properties.                                                               *)

Snapshot == [observed : [Devices -> Observed],
             operation : Operation \cup {NoOperation}]

\* Every variable has its type.
TypeOK ==
    /\ now \in 0..MaxTime /\ crashes \in 0..MaxCrashes
    /\ up \in BOOLEAN
    /\ hub \in Snapshot
    /\ disk \in [newest : Snapshot, previous : Snapshot, ahead : BOOLEAN]
    /\ inflight \subseteq Devices /\ delivered \subseteq Devices
    /\ workers \in [Devices -> Seq(Phase)]
    /\ schedulers \in Nat
    /\ invoked \in [Devices -> Nat] /\ executed \in Nat

\* While the process runs, the targets in flight in the ledger, the entries of
\* inflight_kiosk_targets and the running workers are the same: no attempt is
\* orphaned by a crash or a failed persist, and none has two workers.
AttemptsHaveOneWorker ==
    up => \A d \in Devices :
             /\ Len(workers[d]) = IF d \in Held(InFlight) THEN 1 ELSE 0
             /\ d \in inflight <=> d \in Held(InFlight)

\* A headset has been sent a request only if the newest slot records the
\* attempt, so a crash at any moment finds it there.
SentIsDurable ==
    \A d \in Devices : invoked[d] > 0 =>
        /\ disk.newest.operation # NoOperation
        /\ d \in InState(disk.newest.operation, WasSent)

\* However often the hub crashes and recovers, a headset is sent the request
\* of an attempt at most once.
InvokedAtMostOnce == \A d \in Devices : invoked[d] <= 1

\* A target reported as cancelled before any owner request was sent was indeed
\* never sent one.
CancelledNeverSent == \A d \in Held({"Cancelled"}) : invoked[d] = 0

Rank(state) ==
    IF state \in {"Proposed"} THEN 1 ELSE IF state = "Accepted" THEN 2
    ELSE IF state \in InFlight THEN 3 ELSE 4

\* What the hub has shown survives a crash: after a restart no target has fallen
\* back behind the state that was visible and, unless the newest slot cannot be
\* restored, every headset is known by the evidence last acknowledged or later.
VisibleSurvives ==
    [][~up /\ up' =>
        /\ Restorable(disk.newest) => \A d \in Devices :
              hub'.observed[d].evidence >= hub.observed[d].evidence
        /\ op # NoOperation =>
             /\ hub'.operation # NoOperation
             /\ \A d \in TargetIds(op) :
                   Rank(hub'.operation.targets[d].lifecycle)
                      >= Rank(op.targets[d].lifecycle)]_vars

\* A check-in has raised the identity of a headset with an unsettled target.
Outdated(s) ==
    /\ s.operation # NoOperation
    /\ \E d \in TargetIds(s.operation) :
          /\ s.operation.targets[d].lifecycle \notin Terminal
          /\ s.operation.targets[d].preflight.identity_revision <
                s.observed[d].identity_revision

\* The hub has to refuse both slots for that reason and cannot be started.
Stranded == ~up /\ Outdated(disk.newest) /\ Outdated(disk.previous)

\* An attempt that has started is settled: its worker, or the worker that takes
\* over after a crash, ends with a receipt or at the deadline.  The exception is a
\* crash after a check-in has raised the identity of a headset with an unsettled
\* target, and one more save: the hub then refuses both slots.
AttemptsSettle ==
    \A d \in Devices : (d \in Held(InFlight)) ~> ((up /\ d \in Held(Terminal)) \/ Stranded)

\* The newest generation is restored: no check-in that was acknowledged is lost.
EvidenceSurvives ==
    [][~up /\ up' => \A d \in Devices :
          hub'.observed[d].evidence >= hub.observed[d].evidence]_vars

\* Later accepted targets are admitted as slots complete, or cancelled when the
\* preview expires: an accepted target does not wait for ever.
WaitingEnds == \A d \in Devices : (d \in Waiting) ~> (d \notin Waiting)

\* An attempt is recorded as of unknown outcome only once its deadline is
\* reached; until then the worker goes on polling.
UnknownOnlyAtTheDeadline ==
    [][\A d \in Devices :
        d \in Held(InFlight) /\ hub'.operation.targets[d].lifecycle = "Expired" =>
            now >= op.expires]_vars

=============================================================================
