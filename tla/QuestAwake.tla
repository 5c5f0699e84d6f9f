------------------------------ MODULE QuestAwake ------------------------------
(***************************************************************************)
(* Keeping headsets awake: the operation ledger of FleetHub                *)
(* (crates/fleet-hub/src/awake.rs) and the scheduler, the workers, the     *)
(* Windows watchdog loops and the recovery of the local hub                *)
(* (apps/fleet-hub-local/src/lib.rs).                                      *)
(*                                                                         *)
(* A start of a Windows watchdog is a loop that repairs the headset's      *)
(* power state until it is told to end; a stop or restore ("end" actions)  *)
(* tells it to, waits for it, and only then calls the provider itself.     *)
(* The calls for one headset pass one gate.                                *)
(*                                                                         *)
(* A handler reads the clock before it asks for the lock, so the times of  *)
(* confirmation need not be in the order in which the lock is granted and  *)
(* may be equal.  It gives the lock up between a confirmation and the      *)
(* scheduling of its targets, and `due` counts the calls of the scheduler  *)
(* that have still to get it, in whatever order.                           *)
(***************************************************************************)
EXTENDS Integers, FiniteSets

CONSTANTS
    Operations,     \* operation identifiers, in the order of their text
    Devices,
    NoOperation,
    Actions,        \* bound of the model: the actions that are asked for
    Readbacks,      \* bound of the model: what the provider reads back
    Slots,          \* workers an operation has at once
    ProviderSlots,  \* provider calls under way at once
    FailureLimit,   \* consecutive failures that end a watchdog
    MaxTime         \* bound of the model: what the clock may show

AllActions == {"status", "apply", "start_windows", "start_device", "stop", "restore"}
Ends == {"stop", "restore"}

\* What the provider read back of the headset: its power state and the
\* watchdog on the headset, absent, the operation's own or another one.
Readback == [power : {"held", "normal", "other"}, watchdog : {"absent", "own", "other"}]
NoReadback == [power |-> "none", watchdog |-> "none"]

ASSUME BoundsAssumption == Actions \subseteq AllActions /\ Readbacks \subseteq Readback
ASSUME LimitsAssumption ==
    {Slots, ProviderSlots, FailureLimit, MaxTime} \subseteq Nat \ {0}
ASSUME OperationsAssumption == Operations \subseteq Nat

Target ==
    [state : {"untargeted", "proposed", "accepted", "dispatched", "running", "applied",
              "failed"},
     receipt : Readback \cup {NoReadback}]

\* confirmed_at_ms, and 0 until then.
Operation == [action : AllActions, confirmed : Nat, targets : [Devices -> Target]]
ASSUME NoOperationAssumption == NoOperation \notin Operations /\ NoOperation \notin Operation

VARIABLES
    up,
    now,            \* the wall clock; it is not set back
    hub,            \* runtime.hub.awake_operations
    disk,           \* the newest durable state of them
    lapsed,         \* operations whose preview has expired
    asked,          \* times read by execute handlers that wait for the lock
    due,            \* calls of the scheduler that wait for it
    work,           \* (operation, device) in flight: where its worker is
    failures,       \* consecutive failures of the device's watchdog
    cancel,         \* watchdog control of a device: its operation, and if cancelled
    started,        \* history: when the scheduler last started a watchdog
    reached         \* history: the ends that have called the provider

runtime == <<due, work, failures, cancel>>
history == <<started, reached>>
vars == <<up, now, hub, disk, lapsed, asked, runtime, history>>

NoControl == [operation |-> NoOperation, cancelled |-> FALSE]
Pairs == Operations \X Devices
Looping == {"top", "loop_gate", "repairing"}
Calling == {"calling", "repairing"}
Phases == {"none", "begin", "stopping", "gate", "ended", "over"} \cup Looping \cup Calling

Known(h, o) == h[o] # NoOperation
StateOf(h, o, d) == IF Known(h, o) THEN h[o].targets[d].state ELSE "untargeted"
InFlight(d) == {o \in Operations : work[<<o, d>>] # "none"}
Loops(d) == {o \in Operations : work[<<o, d>>] \in Looping}
Busy(d) == \E o \in Operations : work[<<o, d>>] \in Calling
GateOpen(d) == ~Busy(d) /\ Cardinality({p \in Pairs : work[p] \in Calling}) < ProviderSlots
Watched(d) == cancel[d] # NoControl /\ ~cancel[d].cancelled

-----------------------------------------------------------------------------
(* The ledger.                                                               *)

\* fail_quest_awake_target
Failed(h, o, d) == [h EXCEPT ![o].targets[d].state = "failed"]

\* preview_quest_awake; targets that are not eligible take no part.
Previewed(h, o, a, ds) ==
    [h EXCEPT ![o] =
        [action |-> a, confirmed |-> 0,
         targets |-> [d \in Devices |->
            [state |-> IF d \in ds THEN "proposed" ELSE "untargeted",
             receipt |-> NoReadback]]]]

\* awake_preflight decides which of the headsets asked for are eligible; an
\* operation without any cannot be confirmed.
EligibleChoices == SUBSET Devices \ {{}}

\* confirm_quest_awake: all targets are accepted together.
Confirmed(h, o, t) ==
    [h EXCEPT ![o].confirmed = t,
              ![o].targets = [d \in Devices |->
                  IF h[o].targets[d].state = "proposed"
                  THEN [h[o].targets[d] EXCEPT !.state = "accepted"]
                  ELSE h[o].targets[d]]]

\* prepare_quest_awake_invocation and mark_quest_awake_dispatched.
Dispatched(h, o, ds) ==
    [h EXCEPT ![o].targets = [d \in Devices |->
        IF d \in ds THEN [@[d] EXCEPT !.state = "dispatched"] ELSE @[d]]]

\* derived_effective: what an action must have brought about.
Effective(a, r) ==
    /\ a \in {"apply", "start_windows", "start_device"} => r.power = "held"
    /\ a \in {"apply", "start_windows", "stop", "restore"} => r.watchdog = "absent"
    /\ a = "start_device" => r.watchdog = "own"
    /\ a = "restore" => r.power = "normal"

\* mutant: the provider's own word is taken
TakesItsWord(a, r, claim) == TRUE

\* QuestAwakeOwnerAdapter::invoke: a claim the readback contradicts is an error.
Coherent(a, r, claim) == claim = Effective(a, r)

\* apply_quest_awake_receipt.  Only a watchdog's invocation never expires.
Applies(h, o, d) ==
    /\ StateOf(h, o, d) \in {"dispatched", "running", "applied"}
    /\ o \in lapsed => h[o].action = "start_windows"

Applied(h, o, d, r, claim) ==
    [h EXCEPT ![o].targets[d] =
        [state |-> IF claim THEN "applied" ELSE "running", receipt |-> r]]

Active(h, o, d) == h[o].action = "start_windows" /\ h[o].targets[d].state = "applied"
Unsettled(h, o, d) == StateOf(h, o, d) \in {"accepted", "dispatched", "running"}

-----------------------------------------------------------------------------
(* The local hub.                                                            *)

Outcomes == {"done", "published", "failed"}

Persist(candidate, outcome) ==
    /\ disk' = IF outcome = "failed" THEN disk ELSE candidate
    /\ hub' = IF outcome = "done" THEN candidate ELSE hub

\* commit_awake_owner_result of a failure or a receipt; what is refused or not
\* persisted is lost.
CommitFailure(o, d, outcome) == Persist(Failed(hub, o, d), outcome)

CommitReceipt(o, d, r, claim, outcome) ==
    IF Applies(hub, o, d) THEN Persist(Applied(hub, o, d, r, claim), outcome)
                          ELSE UNCHANGED <<hub, disk>>

\* The preview handler, of one action on some headsets.
Preview(o, a, ds, outcome) ==
    /\ up /\ ~Known(hub, o)
    /\ Persist(Previewed(hub, o, a, ds), outcome)
    /\ UNCHANGED <<up, now, lapsed, asked, runtime, history>>

\* An execute handler reads the clock, which the expiry of the preview is held
\* against, and asks for the lock.
Ask(o) ==
    /\ up /\ Known(hub, o) /\ hub[o].confirmed = 0
    /\ o \notin lapsed
    /\ asked' = [asked EXCEPT ![o] = @ \cup {now}]
    /\ UNCHANGED <<up, now, hub, disk, lapsed, runtime, history>>

\* It has the lock: the first to get it confirms, and then asks for the lock
\* again to schedule.
Execute(o, t, outcome) ==
    /\ up /\ Known(hub, o) /\ hub[o].confirmed = 0
    /\ t \in asked[o]
    /\ Persist(Confirmed(hub, o, t), outcome)
    /\ asked' = [asked EXCEPT ![o] = IF outcome = "done" THEN {} ELSE @ \ {t}]
    /\ due' = IF outcome = "done" THEN [due EXCEPT ![o] = @ + 1] ELSE due
    /\ UNCHANGED <<up, now, lapsed, work, failures, cancel, history>>

Pending(o) == {d \in Devices : StateOf(hub, o, d) = "accepted"}
Free(o) == Slots - Cardinality({d \in Devices : work[<<o, d>>] # "none"})

\* mutant: a watchdog is started beside another one
NoConflict(o, d) == FALSE

\* A headset that is watched or has work in flight takes no other action, but a
\* stop or restore may follow a watchdog.
Conflict(o, d) ==
    IF hub[o].action \in Ends THEN InFlight(d) # {} /\ ~Watched(d)
                              ELSE Watched(d) \/ InFlight(d) # {}

\* mutant: what is not persisted is started all the same
StartAnyway(o, ds, outcome) ==
    /\ work' = [p \in Pairs |-> IF p[1] = o /\ p[2] \in ds
                THEN IF hub[o].action = "start_windows" THEN "top" ELSE "begin"
                ELSE work[p]]
    /\ cancel' = [d \in Devices |-> IF d \in ds /\ hub[o].action = "start_windows"
                  THEN [operation |-> o, cancelled |-> FALSE] ELSE cancel[d]]
    /\ failures' = [d \in Devices |-> IF d \in ds /\ hub[o].action = "start_windows"
                    THEN 0 ELSE failures[d]]

StartWork(o, ds, outcome) ==
    IF outcome = "done"
    THEN /\ work' = [p \in Pairs |-> IF p[1] = o /\ p[2] \in ds
                     THEN IF hub[o].action = "start_windows" THEN "top" ELSE "begin"
                     ELSE work[p]]
         /\ cancel' = [d \in Devices |-> IF d \in ds /\ hub[o].action = "start_windows"
                       THEN [operation |-> o, cancelled |-> FALSE] ELSE cancel[d]]
         /\ failures' = [d \in Devices |-> IF d \in ds /\ hub[o].action = "start_windows"
                         THEN 0 ELSE failures[d]]
    ELSE UNCHANGED <<work, cancel, failures>>

\* authorize_quest_awake: the Manifold runtime may refuse any of the targets.
AuthorityRefuses(ds) == SUBSET ds

\* schedule_pending_awake_work: of the chosen targets those in conflict or
\* refused by the authority fail, those whose preview expired stay as they are,
\* and the rest are dispatched.
Schedule(o, chosen, refused, outcome) ==
    LET failed == refused \cup {d \in chosen : Conflict(o, d)}
        ds == IF o \in lapsed THEN {} ELSE chosen \ failed
        refusing == [hub EXCEPT ![o].targets = [d \in Devices |->
            IF d \in failed THEN [@[d] EXCEPT !.state = "failed"] ELSE @[d]]]
        candidate == Dispatched(refusing, o, ds)
    IN
    /\ up /\ due[o] > 0 /\ due' = [due EXCEPT ![o] = @ - 1]
    /\ chosen \subseteq Pending(o) /\ refused \in AuthorityRefuses(chosen)
    /\ chosen # Pending(o) => Cardinality(chosen) = Free(o)
    /\ Cardinality(chosen) <= Free(o)
    /\ IF chosen = {} THEN outcome = "done" /\ UNCHANGED <<hub, disk, work, cancel, failures>>
       ELSE Persist(candidate, outcome) /\ StartWork(o, ds, outcome)
    /\ started' = [p \in Pairs |->
            IF /\ p[1] = o /\ p[2] \in ds /\ hub[o].action = "start_windows"
               /\ outcome # "failed"
            THEN now ELSE started[p]]
    /\ UNCHANGED <<up, now, lapsed, asked, reached>>

Move(o, d, from, to) ==
    /\ up /\ work[<<o, d>>] = from
    /\ work' = [work EXCEPT ![<<o, d>>] = to]
    /\ UNCHANGED <<up, now, lapsed, asked, due>>

\* mutant: the stop does not wait for the watchdog it cancelled
BeginAtOnce(o, d) ==
    /\ Move(o, d, "begin", "gate")
    /\ cancel' = IF hub[o].action \in Ends /\ cancel[d] # NoControl
                 THEN [cancel EXCEPT ![d].cancelled = TRUE] ELSE cancel
    /\ UNCHANGED <<hub, disk, failures, history>>

\* spawn_awake_owner_work: an end cancels the watchdog of its headset.
Begin(o, d) ==
    LET stops == hub[o].action \in Ends /\ cancel[d] # NoControl IN
    /\ Move(o, d, "begin", IF stops THEN "stopping" ELSE "gate")
    /\ cancel' = IF stops THEN [cancel EXCEPT ![d].cancelled = TRUE] ELSE cancel
    /\ UNCHANGED <<hub, disk, failures, history>>

\* stop_windows_awake_watchdog: the watchdog has ended, or not in time.
Stopped(o, d) ==
    /\ Loops(d) = {}
    /\ Move(o, d, "stopping", "gate")
    /\ UNCHANGED <<hub, disk, failures, cancel, history>>

StopGivesUp(o, d, outcome) ==
    /\ Loops(d) # {}
    /\ Move(o, d, "stopping", "ended")
    /\ CommitFailure(o, d, outcome)
    /\ UNCHANGED <<failures, cancel, history>>

\* The worker passes the gate and calls the provider.
Call(o, d) ==
    /\ GateOpen(d)
    /\ Move(o, d, "gate", "calling")
    /\ reached' = [reached EXCEPT ![d] = IF hub[o].action \in Ends THEN @ \cup {o} ELSE @]
    /\ UNCHANGED <<hub, disk, failures, cancel, started>>

\* The provider answers or fails; leaving the gate and the commit are one step.
Answered(o, d, r, claim, outcome) ==
    /\ Move(o, d, "calling", "ended")
    /\ IF Coherent(hub[o].action, r, claim) THEN CommitReceipt(o, d, r, claim, outcome)
                                            ELSE CommitFailure(o, d, outcome)
    /\ UNCHANGED <<failures, cancel, history>>

CallFails(o, d, outcome) ==
    /\ Move(o, d, "calling", "ended")
    /\ CommitFailure(o, d, outcome)
    /\ UNCHANGED <<failures, cancel, history>>

\* The worker is no longer in flight and schedules its operation again.
Finish(o, d) ==
    /\ up /\ work[<<o, d>>] = "ended"
    /\ work' = [work EXCEPT ![<<o, d>>] = "none"]
    /\ due' = [due EXCEPT ![o] = @ + 1]
    /\ UNCHANGED <<up, now, hub, disk, lapsed, asked, failures, cancel, history>>

-----------------------------------------------------------------------------
(* spawn_windows_awake_watchdog.                                             *)

\* The loop ends when it is cancelled, here or at the gate.
LoopSeesCancel(o, d) ==
    /\ cancel[d].cancelled
    /\ Move(o, d, "top", "over") \/ Move(o, d, "loop_gate", "over")
    /\ UNCHANGED <<hub, disk, failures, cancel, history>>

\* The authorization is renewed where it runs out, or the watchdog fails.
LoopRenews(o, d) ==
    /\ ~cancel[d].cancelled
    /\ Move(o, d, "top", "loop_gate")
    /\ UNCHANGED <<hub, disk, failures, cancel, history>>

RenewalFails(o, d, outcome) ==
    /\ ~cancel[d].cancelled
    /\ Move(o, d, "top", "over")
    /\ CommitFailure(o, d, outcome)
    /\ UNCHANGED <<failures, cancel, history>>

Repair(o, d) ==
    /\ GateOpen(d)
    /\ Move(o, d, "loop_gate", "repairing")
    /\ UNCHANGED <<hub, disk, failures, cancel, history>>

Repaired(o, d, r, claim, outcome) ==
    /\ Coherent("start_windows", r, claim)
    /\ Move(o, d, "repairing", "top")
    /\ failures' = [failures EXCEPT ![d] = 0]
    /\ CommitReceipt(o, d, r, claim, outcome)
    /\ UNCHANGED <<cancel, history>>

\* mutant: failures are counted and never end it
RepairsForEver(o, d, outcome) ==
    /\ Move(o, d, "repairing", "top")
    /\ failures' = [failures EXCEPT ![d] = @ + 1]
    /\ outcome = "done" /\ failures[d] <= FailureLimit
    /\ UNCHANGED <<hub, disk, cancel, history>>

\* The last of three failures in a row is committed and ends the loop.
RepairFails(o, d, outcome) ==
    LET n == failures[d] + 1 IN
    /\ Move(o, d, "repairing", IF n >= FailureLimit THEN "over" ELSE "top")
    /\ failures' = [failures EXCEPT ![d] = n]
    /\ IF n >= FailureLimit THEN CommitFailure(o, d, outcome)
                            ELSE outcome = "done" /\ UNCHANGED <<hub, disk>>
    /\ UNCHANGED <<cancel, history>>

LoopEnds(o, d) ==
    /\ Move(o, d, "over", "none")
    /\ cancel' = IF cancel[d].operation = o THEN [cancel EXCEPT ![d] = NoControl] ELSE cancel
    /\ UNCHANGED <<hub, disk, failures, history>>

-----------------------------------------------------------------------------
(* Crash and start.                                                          *)

Tick ==
    /\ now < MaxTime /\ now' = now + 1
    /\ UNCHANGED <<up, hub, disk, lapsed, asked, runtime, history>>

Lapse(o) ==
    /\ Known(hub, o) /\ o \notin lapsed
    /\ lapsed' = lapsed \cup {o}
    /\ UNCHANGED <<up, now, hub, disk, asked, runtime, history>>

Crash ==
    /\ up /\ up' = FALSE
    /\ asked' = [o \in Operations |-> {}]
    /\ due' = [o \in Operations |-> 0]
    /\ work' = [p \in Pairs |-> "none"]
    /\ failures' = [d \in Devices |-> 0]
    /\ cancel' = [d \in Devices |-> NoControl]
    /\ UNCHANGED <<now, hub, disk, lapsed, history>>

\* The confirmed operations with a part in a headset other than a status.
Intents(d) ==
    {o \in Operations : /\ Known(disk, o) /\ disk[o].confirmed # 0
                        /\ disk[o].action # "status"
                        /\ StateOf(disk, o, d) # "untargeted"}

\* mutant: what was under way goes on, whatever came after it
EveryIntent(o, d) == TRUE

\* (confirmed_at_ms, operation_id) of p is not greater than that of o.
NotLater(p, o) ==
    \/ disk[p].confirmed < disk[o].confirmed
    \/ disk[p].confirmed = disk[o].confirmed /\ p <= o

Latest(o, d) == disk[o].action = "status" \/ \A p \in Intents(d) : NotLater(p, o)

\* schedule_recovered_awake_work: for each headset only the latest intent goes
\* on, with the invocation that was dispatched or, if none was, by way of the
\* scheduler; an active watchdog is started again.
Restart ==
    LET resumes == {p \in Pairs : /\ Known(disk, p[1]) /\ disk[p[1]].confirmed # 0
                                  /\ \/ Unsettled(disk, p[1], p[2])
                                     \/ Active(disk, p[1], p[2])
                                  /\ Latest(p[1], p[2])}
        atOnce == {p \in resumes : StateOf(disk, p[1], p[2]) # "accepted"}
        watching(d) == {o \in Operations : /\ <<o, d>> \in atOnce
                                           /\ disk[o].action = "start_windows"}
        recovered == [o \in Operations |->
            IF ~Known(disk, o) \/ disk[o].confirmed = 0 THEN disk[o]
            ELSE [disk[o] EXCEPT !.targets = [d \in Devices |->
                IF Unsettled(disk, o, d) /\ <<o, d>> \notin resumes
                THEN [@[d] EXCEPT !.state = "failed"] ELSE @[d]]]]
    IN
    /\ ~up /\ up' = TRUE
    /\ hub' = recovered /\ disk' = recovered
    /\ due' = [o \in Operations |->
            IF \E d \in Devices : <<o, d>> \in resumes \ atOnce THEN 1 ELSE 0]
    /\ work' = [p \in Pairs |->
            IF p \notin atOnce THEN "none"
            ELSE IF disk[p[1]].action = "start_windows" THEN "top" ELSE "begin"]
    /\ cancel' = [d \in Devices |->
            IF watching(d) = {} THEN NoControl
            ELSE [operation |-> CHOOSE o \in watching(d) : TRUE, cancelled |-> FALSE]]
    /\ UNCHANGED <<now, lapsed, asked, failures, history>>

Init ==
    /\ up = TRUE /\ now = 1
    /\ hub = [o \in Operations |-> NoOperation] /\ disk = hub
    /\ lapsed = {} /\ asked = [o \in Operations |-> {}]
    /\ due = [o \in Operations |-> 0]
    /\ work = [p \in Pairs |-> "none"]
    /\ failures = [d \in Devices |-> 0]
    /\ cancel = [d \in Devices |-> NoControl]
    /\ started = [p \in Pairs |-> 0]
    /\ reached = [d \in Devices |-> {}]

Worker(o, d) ==
    \/ Begin(o, d) \/ Stopped(o, d) \/ Call(o, d) \/ Finish(o, d)
    \/ LoopSeesCancel(o, d) \/ LoopRenews(o, d) \/ Repair(o, d) \/ LoopEnds(o, d)

Commit(o, d, outcome) ==
    \/ StopGivesUp(o, d, outcome) \/ CallFails(o, d, outcome)
    \/ RenewalFails(o, d, outcome) \/ RepairFails(o, d, outcome)
    \/ \E r \in Readbacks, claim \in BOOLEAN :
          \/ Answered(o, d, r, claim, outcome)
          \/ Repaired(o, d, r, claim, outcome)

Next ==
    \/ \E o \in Operations, a \in Actions, ds \in EligibleChoices, c \in Outcomes :
          Preview(o, a, ds, c)
    \/ \E o \in Operations : Ask(o)
    \/ \E o \in Operations, t \in 1..now, c \in Outcomes : Execute(o, t, c)
    \/ \E o \in Operations, chosen, refused \in SUBSET Devices, c \in Outcomes :
          Schedule(o, chosen, refused, c)
    \/ \E o \in Operations, d \in Devices : Worker(o, d)
    \/ \E o \in Operations, d \in Devices, c \in Outcomes : Commit(o, d, c)
    \/ \E o \in Operations : Lapse(o)
    \/ Tick \/ Crash \/ Restart

Spec == Init /\ [][Next]_vars

-----------------------------------------------------------------------------
(* Properties.                                                               *)

\* Every variable has its type.
TypeOK ==
    /\ up \in BOOLEAN /\ now \in Nat \ {0}
    /\ hub \in [Operations -> Operation \cup {NoOperation}]
    /\ disk \in [Operations -> Operation \cup {NoOperation}]
    /\ lapsed \subseteq Operations /\ asked \in [Operations -> SUBSET (1..now)]
    /\ due \in [Operations -> Nat]
    /\ work \in [Pairs -> Phases]
    /\ failures \in [Devices -> 0..FailureLimit]
    /\ cancel \in [Devices -> [operation : Operations, cancelled : BOOLEAN] \cup {NoControl}]
    /\ started \in [Pairs -> 0..now] /\ reached \in [Devices -> SUBSET Operations]

\* No watchdog runs out of reach: a headset has at most one, and it listens to
\* the control that a stop or restore finds.
WatchdogCanBeStopped ==
    \A d \in Devices, o \in Operations : o \in Loops(d) => cancel[d].operation = o

\* A stop or restore whose handler read its clock after a watchdog was started
\* is not undone: once it has called the provider that watchdog does not repair
\* the headset again, neither late nor after a crash.  (A stop that gets the lock
\* after the start can have read its clock before, or in the same millisecond:
\* a restart then takes the start for the latest intent and resumes it.)
LaterStopWins ==
    \A p \in Pairs : work[p] = "repairing" =>
        \A e \in reached[p[2]] : hub[e].confirmed <= started[p]

\* The provider is only called for a target that is durably dispatched.
CalledIsDurable ==
    \A p \in Pairs : work[p] \in Calling =>
        StateOf(disk, p[1], p[2]) \in {"dispatched", "running", "applied", "failed"}

\* An applied target has the independent readback its action is for, whatever
\* the provider claimed.
AppliedIsProven ==
    \A h \in {hub, disk} : \A p \in Pairs :
        StateOf(h, p[1], p[2]) = "applied" =>
            Effective(h[p[1]].action, h[p[1]].targets[p[2]].receipt)
=============================================================================
