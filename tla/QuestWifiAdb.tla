----------------------------- MODULE QuestWifiAdb -----------------------------
(***************************************************************************)
(* Wireless ADB on headsets: the operation ledger of FleetHub              *)
(* (crates/fleet-hub/src/wifi_adb.rs), the check of what the provider      *)
(* answers (crates/fleet-quest-connectivity-adapter) and the scheduler,    *)
(* the workers and the recovery sweep of the local hub                     *)
(* (apps/fleet-hub-local/src/lib.rs).                                      *)
(*                                                                         *)
(* Calls under way are bounded over all operations, and one per headset.   *)
(* A target that found no free slot stays accepted: it depends on the      *)
(* sweep that follows every settled call.  The sweep also invokes again,   *)
(* with the same request, whatever is dispatched and not in flight.        *)
(***************************************************************************)
EXTENDS Integers, FiniteSets

CONSTANTS
    Operations, Devices,
    NoOperation,
    Actions,        \* bound of the model: the actions that are asked for
    Asked,          \* bound of the model: the headsets an operation is asked for
    Configurations, \* bound of the model: the headsets a start may find configured
    Receipts,       \* bound of the model: what the provider reports
    Slots           \* MAX_CONCURRENT_CONNECTIVITY_PROVIDER_CALLS

Modern == {"status", "request", "after_boot_on", "after_boot_off", "disable"}
AllActions == Modern \cup {"classic"}

\* The facts a receipt reports, and its summary of them.
Receipt ==
    [delivered : BOOLEAN, setting : BOOLEAN, after_boot : {"unset", "on", "off"},
     approval : {"none", "pending", "accepted", "rejected"},
     route : {"none", "modern", "classic"}, listener : BOOLEAN, effect : BOOLEAN]

NoReceipt == [route |-> "no receipt"]

ASSUME InputsAssumption == Actions \subseteq AllActions /\ Receipts \subseteq Receipt
ASSUME DevicesAssumption ==
    /\ IsFiniteSet(Operations) /\ IsFiniteSet(Devices)
    /\ Asked \in [Operations -> SUBSET Devices] /\ Configurations \subseteq SUBSET Devices
ASSUME SlotsAssumption == Slots \in Nat \ {0}

States == {"untargeted", "proposed", "accepted", "dispatched", "running", "applied", "failed"}
Target == [state : States, receipt : Receipts \cup {NoReceipt}]
Operation == [action : AllActions, confirmed : BOOLEAN, targets : [Devices -> Target]]
ASSUME NoOperationAssumption == NoOperation \notin Operation

VARIABLES
    up,
    hub,            \* runtime.hub.wifi_adb_operations
    disk,           \* the newest durable state of them
    lapsed,         \* operations whose preview has expired
    configured,     \* devices the running provider configuration names
    due,            \* how often an operation is still to be scheduled
    sweeps,         \* recovery sweeps that still wait for the lock
    work,           \* (operation, device) in flight: where its worker is
    spoiled         \* history: in this process a save failed or a target was skipped

runtime == <<due, sweeps, work>>
vars == <<up, hub, disk, lapsed, configured, due, sweeps, work, spoiled>>

Pairs == Operations \X Devices
Known(h, o) == h[o] # NoOperation
StateOf(h, p) == IF Known(h, p[1]) THEN h[p[1]].targets[p[2]].state ELSE "untargeted"
Pending(o) == {d \in Devices : StateOf(hub, <<o, d>>) = "accepted"}
InFlight == {p \in Pairs : work[p] # "none"}
Reserved == {p[2] : p \in InFlight}

\* connectivity_dispatch_slots
Free == Slots - Cardinality(InFlight)

-----------------------------------------------------------------------------
(* The ledger and the receipts.                                              *)

Put(h, ps, state) ==
    [o \in Operations |-> IF ~Known(h, o) THEN h[o] ELSE
        [h[o] EXCEPT !.targets = [d \in Devices |->
            IF <<o, d>> \in ps THEN [@[d] EXCEPT !.state = state] ELSE @[d]]]]

\* preview_quest_wifi_adb; targets that are not eligible take no part.
Previewed(h, o, a, ds) ==
    [h EXCEPT ![o] =
        [action |-> a, confirmed |-> FALSE,
         targets |-> [d \in Devices |->
            [state |-> IF d \in ds THEN "proposed" ELSE "untargeted",
             receipt |-> NoReceipt]]]]

\* wifi_adb_preflight decides which of the headsets asked for are eligible; an
\* operation without any cannot be confirmed.
EligibleChoices(o) == SUBSET Asked[o] \ {{}}

\* confirm_quest_wifi_adb: all targets are accepted together.
Confirmed(h, o) ==
    Put([h EXCEPT ![o].confirmed = TRUE],
        {p \in {o} \X Devices : StateOf(h, p) = "proposed"}, "accepted")

\* prepare_quest_wifi_adb_invocation and mark_quest_wifi_adb_dispatched.
Dispatched(h, ps) == Put(h, ps, "dispatched")

\* require_wifi_adb_target_current: a headset whose identity changed since the
\* preview is not prepared.
NotCurrent(ds) == SUBSET ds

\* authorize_quest_wifi_adb: the Manifold runtime may refuse any of the targets.
AuthorityRefuses(ds) == SUBSET ds

\* derived_effect_applied
Effective(a, r) ==
    /\ r.delivered
    /\ a \in Modern \ {"status"} => r.setting
    /\ a = "request" => r.approval \in {"pending", "accepted"}
    /\ a = "after_boot_on" => r.after_boot = "on"
    /\ a = "after_boot_off" => r.after_boot = "off"
    /\ a = "classic" => ~r.setting /\ r.route = "classic" /\ r.listener

\* mutant: the summary is not compared with the facts
TrustsTheSummary(a, r) ==
    /\ r.approval # "accepted"
    /\ a \in Modern => r.route # "classic"
    /\ a = "request" => r.route = "modern"
    /\ a = "classic" => /\ r.route = "classic" /\ ~r.setting
                        /\ r.after_boot = "unset" /\ r.approval = "none"

\* QuestWifiAdbOwnerReceipt::validate
Valid(a, r) ==
    /\ r.effect = Effective(a, r)
    /\ r.approval # "accepted"
    /\ a \in Modern => r.route # "classic"
    /\ a = "request" => r.route = "modern"
    /\ a = "classic" => /\ r.route = "classic" /\ ~r.setting
                        /\ r.after_boot = "unset" /\ r.approval = "none"

\* QuestConnectivityOwnerAdapter::invoke: what comes of a status the provider
\* reports with a receipt.
Answers(a, r, status) ==
    /\ Valid(a, r)
    /\ (status = "verified") = r.effect

\* apply_quest_wifi_adb_receipt
Applies(p) == StateOf(hub, p) \in {"dispatched", "running", "applied"}

\* mutant: an answer without effect has no lifecycle state of its own
AppliedOrPending(h, p, r) ==
    [h EXCEPT ![p[1]].targets[p[2]] =
        [state |-> IF r.effect THEN "applied" ELSE "pending", receipt |-> r]]

Applied(h, p, r) ==
    [h EXCEPT ![p[1]].targets[p[2]] =
        [state |-> IF r.effect THEN "applied" ELSE "running", receipt |-> r]]

-----------------------------------------------------------------------------
(* The local hub.                                                            *)

Outcomes == {"done", "published", "failed"}

Persist(candidate, outcome) ==
    /\ disk' = IF outcome = "failed" THEN disk ELSE candidate
    /\ hub' = IF outcome = "done" THEN candidate ELSE hub

\* The preview handler, for a request no unexpired operation answers.
Preview(o, a, ds, outcome) ==
    /\ up /\ ~Known(hub, o)
    /\ Persist(Previewed(hub, o, a, ds), outcome)
    /\ UNCHANGED <<up, lapsed, configured, runtime, spoiled>>

\* The execute handler, which then asks for the lock again to schedule.
Execute(o, outcome) ==
    /\ up /\ Known(hub, o) /\ ~hub[o].confirmed
    /\ o \notin lapsed
    /\ Persist(Confirmed(hub, o), outcome)
    /\ due' = IF outcome = "done" THEN [due EXCEPT ![o] = @ + 1] ELSE due
    /\ UNCHANGED <<up, lapsed, configured, sweeps, work, spoiled>>

\* schedule_pending_connectivity_work reads the clock before it gets the lock,
\* so an operation may have expired by then.
ScheduleExpired(o, outcome) ==
    /\ up /\ due[o] > 0 /\ due' = [due EXCEPT ![o] = @ - 1]
    /\ o \in lapsed
    /\ Persist(Put(hub, {o} \X Pending(o), "failed"), outcome)
    /\ spoiled' = (spoiled \/ outcome # "done")
    /\ UNCHANGED <<up, lapsed, configured, sweeps, work>>

\* mutant: work is begun before it is saved
StartAnyway(ps, outcome) ==
    work' = [p \in Pairs |-> IF p \in ps THEN "begin" ELSE work[p]]

StartWork(ps, outcome) ==
    work' = [p \in Pairs |-> IF p \in ps /\ outcome = "done" THEN "begin" ELSE work[p]]

\* prepare_pending_connectivity_batch goes through `seen`, all pending targets
\* or as many as fill the slots: those in conflict, not configured or refused
\* by the authority fail, those no longer current are skipped.
Schedule(o, seen, refused, skipped, outcome) ==
    LET failed == refused \cup (seen \cap Reserved) \cup (seen \ configured)
        sent == {o} \X (seen \ (failed \cup skipped))
    IN
    /\ up /\ due[o] > 0 /\ due' = [due EXCEPT ![o] = @ - 1]
    /\ IF Free <= 0
       THEN /\ seen = {} /\ refused = {} /\ skipped = {} /\ outcome = "done"
            /\ UNCHANGED <<hub, disk, work, spoiled>>
       ELSE /\ seen \subseteq Pending(o) /\ refused \in AuthorityRefuses(seen)
            /\ skipped \in NotCurrent(seen \ failed)
            /\ Cardinality(sent) <= Free
            /\ seen # Pending(o) => Cardinality(sent) = Free
            /\ Persist(Dispatched(Put(hub, {o} \X failed, "failed"), sent), outcome)
            /\ StartWork(sent, outcome)
            /\ spoiled' = (spoiled \/ outcome # "done" \/ skipped # {})
    /\ UNCHANGED <<up, lapsed, configured, sweeps>>

\* The worker takes its slots, which are free, and calls the provider unless the
\* invocation has expired.
Begin(p) ==
    /\ up /\ work[p] = "begin"
    /\ work' = [work EXCEPT ![p] = IF p[1] \in lapsed THEN "expired" ELSE "calling"]
    /\ UNCHANGED <<up, hub, disk, lapsed, configured, due, sweeps, spoiled>>

\* mutant: nothing follows a settled call
SettleQuietly(p, candidate, outcome) ==
    /\ Persist(candidate, outcome)
    /\ work' = [work EXCEPT ![p] = "none"]
    /\ spoiled' = (spoiled \/ outcome # "done")
    /\ UNCHANGED <<up, lapsed, configured, due, sweeps>>

\* The end of spawn_connectivity_owner_work: the result is settled, and if it
\* was saved a sweep follows.
Settle(p, candidate, outcome) ==
    /\ Persist(candidate, outcome)
    /\ work' = [work EXCEPT ![p] = "none"]
    /\ sweeps' = IF outcome = "done" THEN sweeps + 1 ELSE sweeps
    /\ spoiled' = (spoiled \/ outcome # "done")
    /\ UNCHANGED <<up, lapsed, configured, due>>

\* Nothing came of the invocation, or its receipt is not admissible.
SettleFailure(p, outcome) ==
    /\ up /\ work[p] \in {"expired", "calling"}
    /\ Settle(p, Put(hub, {p}, "failed"), outcome)

SettleReceipt(p, r, status, outcome) ==
    /\ up /\ work[p] = "calling"
    /\ Answers(hub[p[1]].action, r, status) /\ Applies(p)
    /\ Settle(p, Applied(hub, p, r), outcome)

\* The sweep chooses among the dispatched targets nobody works on.
Idle(late) == {p \in Pairs : /\ StateOf(hub, p) = "dispatched" /\ p[1] \notin late
                             /\ p[2] \in configured}

\* mutant: a headset with a call under way is not left alone
AnyOf(again, idle) ==
    /\ again \subseteq {p \in idle : p \notin InFlight}
    /\ Cardinality(again) <= Free

Chosen(again, idle) ==
    LET free == {p \in idle : p[2] \notin Reserved} IN
    /\ again \subseteq free
    /\ \A p, q \in again : p[2] = q[2] => p = q
    /\ Cardinality(again) <= Free
    /\ Cardinality(again) < Free => {p[2] : p \in again} = {p[2] : p \in free}

\* schedule_recovered_connectivity_work.  `late` are the operations that had
\* expired when the clock was read.  If the failures cannot be saved it stops;
\* otherwise it goes on to schedule every operation with accepted targets.
Sweep(late, again, outcome) ==
    LET over == {p \in Pairs : /\ StateOf(hub, p) = "dispatched"
                               /\ p[1] \in late \/ p[2] \notin configured}
    IN
    /\ up /\ sweeps > 0 /\ sweeps' = sweeps - 1
    /\ late \subseteq lapsed
    /\ Chosen(again, Idle(late))
    /\ IF over = {} THEN outcome = "done" /\ UNCHANGED <<hub, disk>>
                    ELSE Persist(Put(hub, over, "failed"), outcome)
    /\ work' = [p \in Pairs |-> IF p \in again /\ outcome = "done" THEN "begin" ELSE work[p]]
    /\ due' = [o \in Operations |->
                 IF outcome = "done" /\ Pending(o) # {} THEN due[o] + 1 ELSE due[o]]
    /\ spoiled' = (spoiled \/ outcome # "done")
    /\ UNCHANGED <<up, lapsed, configured>>

Lapse(o) ==
    /\ Known(hub, o) /\ o \notin lapsed
    /\ lapsed' = lapsed \cup {o}
    /\ UNCHANGED <<up, hub, disk, configured, runtime, spoiled>>

Crash ==
    /\ up /\ up' = FALSE
    /\ due' = [o \in Operations |-> 0] /\ sweeps' = 0
    /\ work' = [p \in Pairs |-> "none"]
    /\ UNCHANGED <<hub, disk, lapsed, configured, spoiled>>

\* A start reads the saved state and the configuration, and sweeps.
Restart(devices) ==
    /\ ~up /\ up' = TRUE
    /\ hub' = disk /\ configured' = devices
    /\ sweeps' = 1 /\ spoiled' = FALSE
    /\ UNCHANGED <<disk, lapsed, due, work>>

Init ==
    /\ up = TRUE
    /\ hub = [o \in Operations |-> NoOperation] /\ disk = hub
    /\ lapsed = {} /\ configured = Devices
    /\ due = [o \in Operations |-> 0] /\ sweeps = 0
    /\ work = [p \in Pairs |-> "none"]
    /\ spoiled = FALSE

Scheduling(o) ==
    /\ due[o] > 0
    /\ \E c \in Outcomes :
        \/ ScheduleExpired(o, c)
        \/ \E seen \in SUBSET Pending(o) : \E refused, skipped \in SUBSET seen :
              Schedule(o, seen, refused, skipped, c)

Settling(p) ==
    /\ work[p] \in {"expired", "calling"}
    /\ \E c \in Outcomes :
        \/ SettleFailure(p, c)
        \/ \E r \in Receipts, s \in {"verified", "pending"} : SettleReceipt(p, r, s, c)

Sweeping ==
    /\ sweeps > 0
    /\ \E late \in SUBSET lapsed, c \in Outcomes :
          \E again \in SUBSET Idle(late) : Sweep(late, again, c)

\* What a task of the hub does next.
Task ==
    /\ up
    /\ \/ \E o \in Operations : Scheduling(o)
       \/ \E p \in Pairs : Begin(p) \/ Settling(p)
       \/ Sweeping

Next ==
    \/ \E o \in Operations, a \in Actions, c \in Outcomes :
          \E ds \in EligibleChoices(o) : Preview(o, a, ds, c)
    \/ \E o \in Operations, c \in Outcomes : Execute(o, c)
    \/ Task
    \/ \E o \in Operations : Lapse(o)
    \/ Crash
    \/ \E devices \in Configurations : Restart(devices)

Spec == Init /\ [][Next]_vars

\* Some task that waits for the lock gets it, and a call of the provider ends:
\* the adapter stops it after PROVIDER_TIMEOUT.
FairSpec == Spec /\ WF_vars(Task)

-----------------------------------------------------------------------------
(* Properties.                                                               *)

\* Every variable has its type.
TypeOK ==
    /\ up \in BOOLEAN /\ spoiled \in BOOLEAN
    /\ hub \in [Operations -> Operation \cup {NoOperation}]
    /\ disk \in [Operations -> Operation \cup {NoOperation}]
    /\ lapsed \subseteq Operations /\ configured \subseteq Devices
    /\ due \in [Operations -> Nat] /\ sweeps \in Nat
    /\ work \in [Pairs -> {"none", "begin", "expired", "calling"}]

\* Whatever sweeps and schedulers overlap, a headset has one worker at most and
\* all workers together fit the slots: no worker fails for want of one.
OneWorkerPerHeadset ==
    /\ Cardinality(InFlight) <= Slots
    /\ Cardinality(Reserved) = Cardinality(InFlight)

\* The provider is only called for a target that is durably past acceptance, so
\* that no crash has the hub confirm or schedule anew what it has sent.
CalledIsDurable ==
    \A p \in Pairs : work[p] = "calling" =>
        StateOf(disk, p) \in {"dispatched", "running", "applied", "failed"}

\* An applied target has the facts its action is for, whatever the provider's
\* summary or status claimed, and modern and classic routes never alias.
AppliedIsProven ==
    \A h \in {hub, disk}, p \in Pairs :
        StateOf(h, p) = "applied" =>
            LET a == h[p[1]].action
                r == h[p[1]].targets[p[2]].receipt
            IN Effective(a, r) /\ (r.route = "classic" => a = "classic")

\* A confirmed target does not wait for ever, though every slot was taken when
\* it was scheduled and though the process may have crashed over its call:
\* unless the process stops, a save fails or the target is skipped, it settles.
Unsettled(p) == StateOf(hub, p) \in {"accepted", "dispatched"}
TargetsSettle == \A p \in Pairs : up /\ Unsettled(p) ~> ~Unsettled(p) \/ ~up \/ spoiled
=============================================================================
