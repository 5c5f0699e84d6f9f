# Verification of Rusty Fleet

This directory holds TLA+ models of the Fleet Hub, the TLC configurations that
model-check them on small instances, and theorems about them that TLAPS proves
for every value of the constants. `PROJECT.json` lists the components, the runs,
the mutants that show each property can fail, the lines every definition
stands for, the hazards and the theorems.

    tlc -workers 2 -config MCPackageRelease.cfg MCPackageRelease
    tlapm PackageRelease_proofs.tla

## 1. The system

Rusty Fleet is a hub for a fleet of headsets on a local network. Headsets send
signed check-ins; operators preview, confirm and follow operations on a set of
headsets from a desktop console or a command line; *owner* processes, not the
hub, carry the operations out and report back. All state of the hub is one
value behind one lock. A handler clones it, changes the clone, persists it and
only then swaps it in and answers ("commit both or neither"); work that takes
time (an HTTP call to a headset, a process) runs outside the lock in worker
tasks, which take the lock again to report.

| Component | State | Operations | How it meets the others | What makes it correct |
|---|---|---|---|---|
| Device directory, `crates/fleet-hub/src/lib.rs` | per headset the last observation, condition history and epoch evidence; `result_revision`; watch log | accept an observation, query, watch, snapshot, restore | called by check-in; read by every preview | nothing old is admitted as new; the log accounts for every decision; its own snapshot restores |
| Check-in admission, `hub-local` and `fleet-manifold-adapter` | replay window, peers and revision of the authority; the last signed proof of each headset | check in, restore a session, bind a proof to a receipt | changes directory and authority together; its proofs are read beside the receipts of wireless ADB | an accepted check-in is never admitted again; both authorities agree after anything; a usable proof is later than what it proves |
| Kiosk operations, `fleet-hub/src/kiosk.rs`, `fleet-contracts/src/kiosk.rs` | per operation frozen preflights, life cycles, attempts | preview, confirm, dispatch, running, receipt, fail, expire, cancel | called by handlers, workers and scheduler; reads the directory | confirmation is whole; history is only added to; only what was previewed starts |
| Local hub, `apps/fleet-hub-local/src/lib.rs` | in-flight sets, worker tasks, scheduler calls | preview, execute, schedule, poll, recover | composes ledger, store, adapter and headsets | an attempt has one worker, is durable before it is sent, is sent once, and is settled |
| Durable store, same file | two generation slots | persist, open | every handler persists through it | it always opens, and shows what was acknowledged or requested since |
| Package releases, `fleet-hub/src/packages.rs`, `fleet-contracts/src/packages.rs` | targets, claims, consumed requests, acknowledgements, progress, receipts, archive | preview, execute, offer, claim, acknowledge, progress, receipt, archive | the owner pulls; the hub never calls it | one installer per headset of an operation; bounded parallelism; evidence only advances; final is final |
| Saved views, `fleet-hub/src/lib.rs`, `apps/fleet-console-wpf` | the shared collection and its revision; what each console shows | list, upsert, delete under compare-and-swap | consoles over HTTP | no lost update; a revision means one collection |
| Windows hotspot, `fleet-hub/src/windows_hotspot.rs`, `fleet-windows-hotspot-adapter` | operations with one lease over the hotspot of the hub's machine; what the hub believes of its owner | preview, execute, answer, expire, recover | calls the Hostess provider as a child process | one holder of the lease; the request asked is the durable one; ownership is verified, never guessed |
| Quest awake, `fleet-hub/src/awake.rs`, `fleet-quest-awake-adapter` | operations per headset, gates, watchdog loops that repair again and again | preview, confirm, schedule, repair, stop, recover | the same, one gate per headset and a few provider slots | a watchdog can be stopped, and a stop asked for later wins over late repairs and crashes |
| Quest Wi-Fi ADB, `fleet-hub/src/wifi_adb.rs`, `fleet-quest-connectivity-adapter` | targets per operation, workers in flight, two pools of slots | preview, confirm, schedule, sweep, settle, recover | the same; every settled call starts a sweep | a headset has one worker; applied means proven; a target settles |
| Child processes of the providers, in the five adapters | process, readers, deadline, process tree | start, feed, read, judge, kill, wait | called by the three above, the kiosk v2 file manager and the onboarding | success means whole output; nothing is left running; every call returns |
| Offline onboarding, `crates/fleet-onboarding` | a private bundle of files, the handles held over it | apply, roll back, cleanup plan and apply | calls the key tool; works beside other programs of the user | the inventory marks a whole bundle; results are honest; only its own files are deleted |
| Kiosk catalogue, watch feed, setup engine, provider catalogue, fleetctl, simulator, packaging | the newest catalogue, versioned directories, or none | observe, page, install, validate | apart from the models | see section 8 |

What is hard in this code: the lock is given up while a headset is called, so a
worker reports into a state that has moved on; a persist may fail after it has
written, so the disk may be *ahead* of the hub; a crash may fall between any two
file operations; the clock may be set back, and most handlers read it before they wait for the lock; a check-in may change what an
operator was shown between preview, confirmation and dispatch; the owner's and
the console's messages are delayed, repeated and lost; a provider may hang, answer
too much, or leave a descendant that holds its streams. The hazards in
`PROJECT.json` name the lines where each of these bites.

## 2. Modules

| Module | Models | Abstraction |
|---|---|---|
| `DeviceDirectory` | `accept_observation` with its ten rules in order, `record_event`, the history, what `restore` demands | observations are records of the fields the rules read; conditions and capabilities are left out |
| `KioskLedger` | the pure operators of the kiosk ledger: `Preflight`, `MayConfirm`/`Confirmed`, `MayDispatch`/`Dispatched`, ... and the contract `OperationValid` | wording, codes and digests are left out; a headset's facts are its identity, evidence and readiness |
| `KioskOperations` | every hub call on one ledger in any order, beside check-ins, at any time of a clock that may be set back | a call is one action; a check-in brings new evidence (`Observe`) or reports the capability as before (`ObserveAgain`) |
| `KioskDispatch` | handlers, workers, scheduler, recovery and slots of the local hub around one operation, on `KioskLedger` | a critical section is one action; a worker is a phase (invoke, poll, resume, commit); every check-in brings new evidence |
| `AcknowledgedState` | what the store promises: a restart shows the state acknowledged last or one requested since | four actions |
| `DurableStore` | `DurableStateStore`, file operation by file operation | a state is a model value that restores |
| `CheckInAdmission` | the `checkin` handler and `FleetManifoldAdapter::accept`, over an instance of `DeviceDirectory`; the signed proofs of wireless ADB, their binding to receipts and when they count as usable | signatures are the key of an envelope; rate limiting is a refusal; an operation is one effective receipt; a kiosk operation is the identity it binds its target to. `shown` holds the times the clock has shown since the start, any of which a handler that waits for the lock may have read |
| `SavedViews` | `upsert_saved_view`, `delete_saved_view`, the console's list and save, the messages between them | a view is a model value |
| `WindowsHotspot` | ledger, handlers, worker, expiry, late persists, crash and recovery of hotspot operations | names and identifiers of a receipt are one verdict; the worker's process is `ProviderProcess` |
| `QuestAwake` | preview, confirmation, the gate of each headset, scheduler, calls, Windows watchdog loops, their cancellation, failed saves, recovery of the latest intent | a readback is power and watchdog; time between repairs is left out |
| `QuestWifiAdb` | preview, confirmation, both schedulers, slots, calls, settlement, sweeps, expiry, a configuration that drops a headset | a receipt is the facts the judgement reads and the summary it claims |
| `ProviderProcess` | the five loops that run a child process: connectivity, awake, hotspot, kiosk v2 file manager, key tool | what a stream says is nothing, something or more than the cap; requests are smaller than a pipe's buffer |
| `OfflineOnboarding` | apply, rollback, cleanup plan and cleanup object by object, other programs in the directory, crash; extends `ProviderProcess` for the key tool | an object is absent, ours, torn or foreign; contents and digests are left out |
| `PackageRelease` | all package handlers and ledger calls, the owner that talks to them, restart | a claim is its request and expiry; a preflight is a member of `Facts`; earlier claims and wording are left out |

Composition: `KioskOperations` and `KioskDispatch` extend `KioskLedger`;
`CheckInAdmission` instantiates `DeviceDirectory`; `OfflineOnboarding` extends
`ProviderProcess` and calls it once for every headset; `DurableStore` implements
`AcknowledgedState` by a refinement mapping. The models above the store use the
store's promise, not its files: they keep the newest (and where it matters the
previous) slot, and a persist that fails late leaves the slot ahead of the hub.
`Save` in `PackageRelease` says it in a line: the slot holds the candidate, and
the hub holds the candidate or what it held.

How definitions correspond to code: an action is a handler, a task's critical
section or a ledger call and carries its name (`ClaimWork` is
`claim_package_updater_work`); a guard `MayX(...)` is the conjunction of the
checks of X in order, and the operator `Xed(...)` what it writes; a call that is
refused changes nothing and is therefore a stuttering step. Definitions marked
`mutant` are slightly wrong variants of the definition that follows them.
They are used by no specification; each serves to show that a property fails
when the code has that defect.

## 3. Runs and what they show

Every run's properties are stated, with the code behaviour they are about, above
their definition.

| Run | Module | Shows | Bounds, and why they are enough |
|---|---|---|---|
| `directory` | `MCDeviceDirectory` | lineages only advance, an epoch never returns, log and history account for every revision, the snapshot restores | 1 headset (headsets do not meet in `accept_observation` but for the log, which the bound of 5 decisions overflows), 2 profiles, 3 epochs with evidence for 2, 2 identities, log and history of 2 |
| `kiosk_operations` | `MCKioskOperations` | guards imply the contract but at the very expiry, confirmation is whole, history is kept, only what was previewed starts | 1 operation, 2 headsets, 2 requests, 1 or 2 slots and attempts, 3 times in any order; one headset may report new evidence and one more identity, both may check in again with what they reported before. 0.95M states |
| `kiosk_dispatch` | `MCKioskDispatch`, fair | an attempt in flight has exactly one worker, what was sent is durable, it is sent at most once, what was visible survives, an attempt in flight is settled unless the hub is left without a slot it can start from | 2 headsets for 1 slot (so one waits), 2 executions, 1 crash, clock to the expiry, Manifold may refuse; one headset checks in twice and may have its identity raised, which is what it takes to have one slot refused, or both. 0.42M states |
| `store` | `MCDurableStore` | always opens, keeps the promise | 3 generations, 3 states, 1 damaged file; parity repeats after two generations, so both slots are overwritten |
| `admission` | `MCCheckInAdmission` | an accepted check-in is never admissible again, the two authorities agree in memory and in both slots, a start refuses a slot for one reason only, a usable proof is the newest word on its route | 5 envelopes of 2 headsets over 2 epochs and 2 identities, one with a proof, a replay window of 3, a key that is valid later and one that is replaced; one request and one end of wireless ADB (that a second request changes nothing is proved, not run); kiosk targets on one headset; of crashes, failed persists, corrections of the clock and kiosk previews any two (`MaxEvents`): two are what it takes to raise an identity over a kiosk target and crash, or to set the clock back and crash. 1.41M states |
| `views` | `MCSavedViews` | a revision means one collection, no unseen change is overwritten | 2 consoles, 2 views with a limit of 1, revisions to 4 (the limit is the code's u64 exhaustion), 3 messages, 2 crashes |
| `packages` | `MCPackageRelease` | one installer per headset of an operation, bounded delivery, one claim per request over both operations, settled is final | 2 headsets for 1 slot, 2 requests (which is also the limit of a target), a claim of 1 and a preview of 2 units within 2, 1 crash; `MaxTargets` = 2 targets in all, which is one operation on both headsets or two operations on one headset each, the same one or two; `OwnerTimes`: the owner reports at 0 and 1. 1.03M states |
| `windows_hotspot` | `MCWindowsHotspot` | one holder, the request asked is the durable one, ownership is verified, settled stays settled | 2 operations, so that one outlives its lease (1 unit) while the other starts; 2 generations, Fleet's and another; a clock read up to 1 unit before the lock, 2 units in all; any number of crashes and late persists |
| `quest_awake` | `MCQuestAwake` | a watchdog has one control that a stop finds; a stop whose handler read its clock after a watchdog was started is not undone by late repairs or a crash | 2 operations on 1 headset, since gates and loops are per headset; their identifiers are ordered, as recovery breaks ties by them, so there is no symmetry; clock to 2, read before the lock and with equal readings; the four kinds of action; 3 readbacks; 1 slot of each pool; a loop gives up after 2 failures. 1.65M states |
| `quest_wifi_adb` | `MCQuestWifiAdb`, fair | a headset has one worker and none fails for want of a slot, an applied target has its facts, a confirmed target settles | 2 operations, the first on both headsets; 2 slots in each pool, so that two workers overlap with sweeps; a start that finds one headset gone; 3 receipts, one that contradicts its facts; any number of crashes |
| `external_programs` | `MCOfflineOnboarding`, fair | success is the whole output, nothing is left running, the inventory means a whole bundle, results are honest, deletion is confined to its own, every command ends | all 5 runners; 2 headsets that may get the same key; a second bundle after the first; one act of another program; a crash at any step |

One run is expected to fail and is a finding. `key_tool_truncation` checks
`OverflowFailsClosed` of `ProviderProcess`: `docs/OFFLINE_ONBOARDING.md:131-137`
promises "independent 16 KiB caps" whose overflow fails closed. `run_contained`
(`crates/fleet-onboarding/src/lib.rs:2788`) reads the overflow flag at the top of
its loop and later in the same turn asks whether child and readers have
finished; a reader that meets the cap in between leaves a truncated output that
is returned as a success. The key line of a well-behaved tool is far below the
cap, so the consequence is confined to a tool that misbehaves.

Four more sentences of the documentation do not hold of the code. Their
definitions stay in the modules and each can be seen by changing a configuration:

| Definition | Change | What happens |
|---|---|---|
| `KioskDispatch!WaitingEnds` | add it as a PROPERTY of `MCKioskDispatch.cfg`, `MayRefuse = FALSE` | "later accepted targets are admitted as slots complete": the scheduler returns at the first waiting target it may not dispatch, for instance because it has checked in since; nothing calls it again |
| `KioskDispatch!EvidenceSurvives` | add it as a PROPERTY of `MCKioskDispatch.cfg` | "the newest generation is restored": a check-in that raises the identity revision of a headset with a kiosk target that is not settled (an operation that was only previewed counts) is accepted and saved in a snapshot that `restore` refuses (`crates/fleet-hub/src/lib.rs:451-475`), so a start falls back to the slot before it and the check-in is lost. One more save before the crash, and both slots are refused: the hub cannot be started, and an attempt in flight is never settled. `VisibleSurvives`, which excepts a start that falls back, holds and is proved for every `MaxIdentity`; `AttemptsSettle` excepts a hub both of whose slots are outdated in this way (`Stranded`, which the run reaches); `SlotsRestore` of `CheckInAdmission` says that a start refuses a slot for this reason only |
| `KioskDispatch!UnknownOnlyAtTheDeadline` | add it as a PROPERTY | recovery polls "until the persisted absolute deadline": one failed poll ends the worker and the attempt is recorded as of unknown outcome before the deadline |
| `PackageRelease!InFlightWithinParallelism` | add it as an INVARIANT of `MCPackageRelease.cfg` | acknowledged in-flight targets count against `max_parallelism`: one whose cancellation was requested does not |

Deadlock is checked where the system cannot stop. It is off where only a bound
of the model (clock, crashes, envelopes, executions) ends the behaviours, and in
`store`, where a start with damaged files fails closed and the hub does stop.
Symmetry is used in the runs without a liveness property only.

### Assumptions about the environment

* Clock. It moves forward, except in `admission` and `kiosk_operations`, where it
  may be set back. Previews are bounded so that it reaches their expiry. Handlers
  read it before they wait for the lock. `CheckInAdmission`, `QuestAwake` and
  `WindowsHotspot` model this, because their properties depend on it: a call
  may commit with a time older than what was committed before it. In the other
  modules a call takes the time at which it commits; `KioskOperations` takes any.
* Manifold and the owners are external. Manifold may refuse any authorization;
  nothing relies on it to refuse one.
* Observations whose time lies after the hub's clock are not enumerated; the code
  rejects them before the ledger.
* The order of headsets and operations in maps and lists is abstracted: where
  code takes the first, the model takes any.
* In `PackageRelease` the owner reports the stages of `Reports` only; the run
  takes three of the seven: one that leaves the target running, the cancellation
  request and a final one (`staged` has the successors of `recovery_required`).
  `GuardsSuffice`, proved below, judges reports of all seven.
  The authority's guard on a claim (`has_applied_package_authorization`) is not
  modelled: Manifold may have authorized every release. Two operations may name
  the same headset, and nothing in `preview_package_install_release` or
  `offer_package_updater_claim` keeps them apart: both may hold a claim in force
  for it. So `OneWorkerPerTarget` is a statement about each operation; without
  its first conjunct TLC refutes it.
  An operator's repeated preview of the same release is answered with the one
  that exists; the model takes every preview for a new one.
* `DurableStore` syncs a directory as Unix does. A temporary left behind by an
  earlier crash is overwritten by the next persist to its slot and not tracked.
* `SavedViews` takes the console's revision and views to be shown at once.
* `CheckInAdmission`: an operation of wireless ADB has at most one effective
  receipt and a headset one retained proof, as in the code. A check-in whose
  proof cannot be bound is refused as a whole. Only the end of the modern route
  counts against a proof, because the binding ignores receipts of no route.
  `UsableIsProven` is stated for a clock that was not set back: with a clock set
  back between a proof and the receipt that disables its route the receipt
  seems older than the proof. It speaks of the order in which things were
  committed, and the code compares times read before the lock, so it excepts a
  disable whose handler had read its clock before the commit of the proof: that
  receipt, committed after the proof, leaves the operation shown as usable until
  the proof expires. The mirror case, a disable that read its clock before the
  commit of the request, is excepted as well. It is also stated per
  identity revision, because the binding looks at the receipts of the check-in's
  own revision: the late receipt of a disable asked for an earlier revision
  does not count (section 7).
  A start that has to refuse the newest slot loses what only that slot held,
  accepted check-ins included, and the model does not answer for them any more:
  `NeverAdmissibleAgain` is about the others. A start that has to refuse both is
  not possible, and the model stays down.
* `WindowsHotspot`: the provider is configured. Expiry computed for the copy of an
  execute that is then refused is answered but not kept. A handler reads its
  clock before it waits for the lock, so its time may lie `Lag` behind.
* `QuestAwake`: a confirmation carries the time its handler read before it waited
  for the lock, so times of confirmation may be equal or against the order of
  the lock; recovery resumes the latest intent by time and then by identifier.
  A stop that gets the lock after a start but read its clock before it, or in the
  same millisecond, can therefore be undone by a crash: the start counts as the
  later intent and its watchdog is resumed. `LaterStopWins` promises what is
  left, that a stop whose handler read its clock after the watchdog was started
  is not undone. A gate is given to any of those that wait. Leaving the gate
  and the commit are one step. A change of identity acts as an expiry. The
  generation of the watchdog on the device is abstracted. A start whose
  recovery cannot be saved is a start followed by a crash. Three effects of the
  code are in the model as they are: a second start that the provider refused
  is still the latest intent after a restart; a loop that ends in a failure
  which cannot be saved leaves its target applied; and a result that cannot be
  saved leaves the target dispatched until the next start.
* `QuestWifiAdb`: the pending list a sweep reads and the calls it starts are one
  step; a change of identity skips the target. A sweep may expire a target that
  is in flight, whose late receipt then fails it again. With no slot free a
  scheduler leaves its targets to the sweep of a later settled call.
* `ProviderProcess`: `taskkill` succeeds when called (the adapters ignore its
  result, so a tree that survives it would not be noticed). A wait that fails is
  possible and never forced. The hotspot adapter's readers have no cap; the
  connectivity and awake adapters give up on streams one second after the exit.
  A read error makes the connectivity adapter return while the program runs on:
  `NoneLeftRunning` excepts exactly this and a hazard names it.
* `OfflineOnboarding`: a foreign inventory is taken for one that is refused.
  Opening the objects of a bundle is one step, since each is checked after its
  handle is held. Other programs act between two calls of the tool, with which
  they commute. A rollback meets at most one refusal, and objects of one height
  are deleted in any order. An error after the inventory was written leaves the
  whole bundle, which `ResultsAreHonest` admits; a rollback that cannot delete the
  inventory says so (`missed`), which `InventoryMeansWhole` excepts. A cleanup
  that stops half way cannot be resumed.

### Fairness

Three runs need it.

* `kiosk_dispatch`: time passes; a process that ended is started again by the
  operator; a tokio task that is ready is eventually run, so every critical
  section of a worker and of the scheduler is weakly fair. A poll need not be
  answered and an answer need not arrive: the deadline ends the worker. A
  persist need not always succeed; the fairness is on the disjunct in which it
  does, because a worker retries a failed persist for ever and a disk that fails
  for ever settles nothing. A hub both of whose slots are outdated cannot be
  started, however often the operator tries; `AttemptsSettle` excepts it.
* `quest_wifi_adb`: some task that waits for the lock gets it, and a call of the
  provider ends because its adapter stops it after a timeout (`ProviderProcess`
  shows that it does). This is one weak fairness over all tasks together, weaker
  than one per task. `TargetsSettle` excepts what it cannot promise: a process that
  stops, a save that fails, a headset dropped from the configuration.
* `external_programs`: the caller's loop runs on, deadline and grace period pass,
  and a command that was started makes its next step. Nothing is assumed of
  the child process, its descendants, the readers or the operator.

## 4. What is proved

TLAPS checks these for every value of the constants, under the named assumptions
of the modules (finite or non-zero bounds, `None`-like values outside the sets
they mark).

| Theorem | Says | Along |
|---|---|---|
| `HubState_proofs!TypeCorrect`, `LineageInvariant`, `LineageIsMonotone`, `EpochStaysLeft` | types; lineages advance and epochs never return | the invariant ties each device record to the newest admitted lineage and its evidence to all epochs admitted; the ten rules are used one by one |
| `HubState_proofs!WatchLogAccounts`, `RevisionNames` | the retained window of the log accounts for every revision; a revision names one ledger | the log ends at the current revision and each entry is one step from the one before it; `NewestEntries` says what dropping the oldest keeps |
| `HubState_proofs!RecordsStayRestorable`, `SnapshotsRestore`, `HistoryIsNewest` | every snapshot restores; the history is the newest part of what was accepted | evidence is a finite set, which the epoch rule bounds before it grows (`EvidenceBounded`); the history is ordered and nothing older than its entries is kept (`HistoryAppends`) |
| `CheckInAdmission_proofs!AdmissionInvariance`, `AdmissionTypes`, `AcceptedOnce`, `AuthoritiesStayTogether`, `SlotsRestoreUnlessOutdated` | an accepted check-in is never admitted again; ledger and authority agree in memory and in both slots; a start refuses a slot for an outdated kiosk target only | a start may take either slot, so memory and both slots are *in order* (`InOrder`): ledger and authority agree; the state is *sound*, that is restorable but for a kiosk target of an identity its headset has left; and all it has admitted is *past*: its epoch is in the evidence of its headset and the record holds no older identity, nor an older revision of the same source. Four rules of the ledger refuse what is past, so neither the clock nor the forgetful replay ledger matters. What was accepted is what memory has admitted, also after a start that fell back |
| `CheckInAdmission_proofs!UsableOperationsAreProven` | what is shown as usable is proven | `UsableInv`: while the clock is not set back, no time that a waiting handler may have read lies ahead of the clock, and the log of a headset, which is the true order of the commits, holds every receipt at a time not before the one it carries (`LogSound`). A proof that stands has an entry after which there are only receipts, and before it the receipt of its request, since when any disable of the route was read before the request (`ProofStands`). The property speaks of positions and the code compares times, so neither is inductive without the other |
| `HubState_proofs!KioskTypeCorrect`, `ConfirmationIsWhole`, `FinalIsSettled`, `HistoryStays`, `StartsWhatWasPreviewed` | types; confirmation is whole; final means settled; history is only added to; only what was previewed starts | `LedgerInv`: confirmation is whole and every eligible target has left the rejected life cycle; one lemma per call |
| `HubState_proofs!GuardsInvariant`, `GuardsAreEnough` | the guards of the calls imply the contract of `KioskLedger`, but at the very expiry | `GuardsInv` adds to `LedgerInv` that no transition is dated before the creation, which each call keeps because it refuses a time before the last transition |
| `KioskDispatch_proofs!Invariance`, `TypeCorrect`, `OneWorkerEach`, `SentStaysDurable`, `InvokedOnce`, `CancelledWasNeverSent`, `WorkersBounded`, `VisibleStays` | an attempt in flight has one worker; what was sent is durable, sent once, and never of a cancelled target; workers keep to the slots; what was visible survives | `SlotsAgree`: the hub stands on one of the slots; no target falls back from the older slot to the newest; and a newest slot that no start accepts differs from the one before it only in what was observed, so that a fallback resends nothing. `WorkersInv`: an attempt in flight has one worker, a hub that is down has none, and what was sent is recorded in the operation. A by-product: `WorkerFindsSettled`, the early return for an attempt that somebody else has settled, is never enabled in this composition |
| `HubState_proofs!StoreTypeCorrect`, `StoreAlwaysOpens`, `StoreKeepsItsPromise` | types; it always opens; it implements `AcknowledgedState` | `StoreInv`: in the running slots and in every set of slots a power loss may leave, files are whole and in the slot of their parity, generations follow one another, the newest restores a state still possible; and `PersistProgress`, what each step of a persist has done so far. `AlwaysOpens` alone is not inductive: it says nothing of the rename still to come |
| `HubState_proofs!ViewsTypeCorrect`, `RevisionsNameCollections`, `NoLostUpdate`, `RevisionOnlyGrows` | types; a revision means one collection; no lost update; it never falls | nobody has heard of a revision later than the hub's, and the slot holds the hub's collection or one of the next revision, so a change gets a revision nobody names |
| `PackageRelease_proofs!Invariance`, `OneWorker`, `OneClaim`, `SettledStays`, `EvidenceStays`, `DeliveryBounded`, `TypeCorrect`, `GuardsAreEnough`, `OneOffer` | one installer per headset of an operation; a request yields one claim over all operations; settled is final; evidence advances; deliveries keep to the parallelism; types and limits of the maps; the guards imply the contract of a target; what is shown is what is granted | every call *moves* targets forward (`Step`): a claim is replaced only after it lapsed, by a request the target has not seen; what is acknowledged keeps its claim; what is settled stays. `IInv` says that the slot is the hub moved forward, so a restart is such a move, and that a claim the owner holds is the one in force for its target or has lapsed. The action properties are then one lemma, `NextStep`. `DeliveryBounded` adds that the slots an operation takes are within its parallelism, in hub and slot (`SlotsInv`); each claim in force is on a headset of its own that takes one, which an injection counts. `TypesInv` adds that both maps are finite and within their limits. `GuardsAreEnough` needs that every target stored is valid, the archived ones included, and one lemma per call that what its guard admits is valid again; `OneOffer` that dropping a lapsed claim neither frees nor takes a slot |
| `WindowsHotspot_proofs!Invariance`, `TypeCorrect`, `OneOperationHolds`, `RequestsAreDurable`, `OwnershipIsProven`, `SettledStays` | one holder; the request asked is the durable one; ownership is verified; settled is final | every ledger call, with recovery, *moves* a sound ledger (`Moved`): it keeps what is settled and what was asked, and concludes one operation at most. Memory and disk are sound ledgers, what memory settled the disk has too, so a restart is a move of the disk that memory could have made. `OneHolder` alone is not inductive: a worker may outlive its lease, so `WorkersAreKnown` says that it is then recovery that ended its operation |
| `QuestWifiAdb_proofs!Invariance`, `TypeCorrect`, `OneWorkerEach`, `AppliedProven`, `CalledStaysDurable` | types; a headset has one worker and all fit the slots; what is applied is proven; what is called is durably dispatched | whatever a handler, a worker or a sweep writes *follows* the ledger in memory (`Follows`): it takes no target back before its dispatch and applies nothing without its facts. So memory is never ahead of the disk and a restart finds dispatched what was sent. Workers start in batches that name a headset once, for headsets nobody works on, and that fit what is free (`StartKeeps`). `OneWorkerPerHeadset` counts two sets; the invariant says that no two workers share a headset, and a bijection turns that into the count |
| `QuestAwake_proofs!Invariance`, `TypeCorrect`, `WatchdogReachable`, `OneWatchdogEach`, `LaterStopsWin`, `CalledDurable`, `AppliedProven` | types; a headset has one watchdog, which a stop finds and waits for; a stop asked for after its start is never undone; what is called is durably dispatched; what is applied is proven | `LaterStopWins` compares when a stop was confirmed with when a watchdog was started, and alone it is not inductive: a watchdog of the disk may be resumed after a crash. So `Dated` says, of memory and of the disk, that a watchdog is confirmed no later than it was started and nothing ahead of the clock; `WorkersInv`, that a stop past the watchdog it cancelled is alone with the headset, and that the stops that were there before a watchdog are no later than its start; and `ReachedBy`, that what called the provider is a confirmed operation the disk knows, so that the latest intent, by time and identifier, which a restart resumes, is not earlier than it. No order among confirmations is assumed. Every other save only moves targets forward (`Keeps`) |
| `OfflineOnboarding_proofs!Invariance`, `TypeCorrect`, `SuccessIsTheWhole`, `NothingRunsOn` | of `ProviderProcess`: a success is the whole output of a program that ended by itself; nothing is left running | what a reader sent is what was written; a loop that goes on has taken no failure; what a call has concluded it has also ended. One lemma per group of actions |
| `OfflineOnboarding_proofs!BundleInvariance`, `InventoryCommits`, `HonestResults`, `OnlyItsOwnIsDeleted`, `CallsOfCommands` | the inventory means a whole bundle; results are honest; only what a command created or opened is deleted; calls keep the promise of the runner | the bundle is a tree; every handle is of an object this command made or opened; an apply has made exactly the objects before the one it is at, and a roll back has left exactly those of lower height; keys of two headsets differ (`KeysDiffer`), because a key that is already in the bundle ends the apply. Two parts were found missing by the proof and are true: the objects an apply has still to make are not held, and the key tool is idle outside an apply |

`TypeOK` of these modules, `GuardsSuffice` and `OneOfferForBoth` of
`PackageRelease`, `RevisionOnlyGrows`, `FinalIsSettled`, `EvidenceStays`,
`HistoryIsNewest` and `RevisionNames` are proved for all constants, so no run
repeats them.

Each inductive invariant was evaluated by TLC on the bounds of its run before it
was proved.

What the proofs assume are the named assumptions, which the runs evaluate. Some
say more than that a bound is positive. `OfflineOnboarding!RequestAssumption`:
the headsets of one request differ, because `validate_request`
(`crates/fleet-onboarding/src/lib.rs:453`) refuses a request in which two agree;
without it an apply would meet a directory it has made itself.
`KioskDispatch!CallAssumption` and `NoOperationAssumption`,
`QuestWifiAdb!NoOperationAssumption`, `QuestAwake!NoOperationAssumption`,
`PackageRelease!NoneAssumption`, `NoneIsNoTime` and
`CheckInAdmission!OperationsAssumption` keep the values that mean "none" apart from
the others.

Only model-checked:

* `AttemptsSettle`, `TargetsSettle` and `CommandsEnd`: liveness under fairness and
  ENABLED are beyond the prover.
* Nothing rests on induction over data, which the installed provers cannot do: the
  modules that are proved about use no RECURSIVE operator, sequences are handled
  with the library's facts, and the work of `OfflineOnboarding` is an explicit
  function from positions to objects, not a fold over the request.

## 5. Plan

Order: first what every operation stands on (ledger of devices, store,
admission), then the operation families with the most state (kiosk, packages),
the shared views, the three provider families (hotspot, awake, Wi-Fi ADB) with
the processes they run, and the onboarding. These are done. Left, in this order:

1. `WatchFeed`: the console following the log by sequence, with refresh after a
   gap; liveness: it catches up.
2. `KioskCatalog`: observations per device and profile, identity change, the
   association kept across restarts.
3. `SetupEngine`: install, upgrade and roll back on disk, with a crash between
   any two steps.

## 6. Layout

One module per component; `MCx.tla` gives a module model values and symmetry,
`MCx*.cfg` its bounds; `x_proofs.tla` holds its theorems (those of `DeviceDirectory`, `SavedViews`,
`KioskOperations` and `DurableStore` are in `HubState_proofs`, those of
`ProviderProcess` in `OfflineOnboarding_proofs`). Constants carry named
assumptions, which every run evaluates. Bounds that are the model's own (clock,
crashes, messages) say so where they are declared; every other bound is a
constant of the code, whose name is given.

## 7. Reading the hazards

Each hazard names a line and the properties that would catch it. Those without a
property say why: the code offers nothing to check against, or does not have the
property, as section 3 shows.

Other observations made while modelling, which contradict no document:

* A package target in flight when its preview expires can never be settled,
  because every message of the owner is refused from then on; so its operation
  can never be archived.
* Package previews nobody confirms are never dropped, and a thousand of them
  block new ones. Requests of an archived operation are no longer compared.
* The facts of a headset are compared when a release is confirmed and prepared,
  but not when it is claimed.
* After a fallback to the older slot a headset may be sent its request again, and
  a revision of the lost slot is given to another collection of views.
* The limiter reads the clock before it waits for the lock, so a window can be
  opened in the past.
* A credential that is revoked between two starts leaves a stored peer that no
  longer matches, which the start refuses.
* A headset whose check-ins carry a proof is refused altogether while no request
  can be bound, as after its route was disabled, until it drops the proof or
  wireless ADB is requested again.
* `apply_quest_wifi_adb_receipt` compares a receipt with its own invocation and not
  with the identity the headset has by then, and the binding of a proof skips
  receipts of other identity revisions. So after a change of identity the late
  receipt of an earlier disable does not stop the next check-in from binding its
  proof to a request that was answered before it.
* A cleanup of the onboarding bundle that stops half way leaves a bundle that no
  later cleanup accepts.

## 8. Not modelled, and why

* Rate limiter, fleetctl, simulator, packaging scripts, site, schemas: no state,
  or state that one unit test reaches.
* Watch feed and projections: pure queries over the log, whose content is in
  `DeviceDirectory`. The provider catalogue: validation of static documents. The
  kiosk catalogue: the newest observation per device and profile, which no other
  model reads.
* The Windows setup engine: it shares no state with the hub; its rollback is in
  the plan.
* Signatures, digests, JSON syntax and field validation: pure functions whose
  result is a refusal, which the models allow anywhere.
* Key rotation, the runtime host and Manifold's review of proposals: external
  decisions.
* The content of requests and answers of the child processes: a judgement reads
  it, and the models let that judgement come out either way where it is not
  the subject (`QuestWifiAdb`, `QuestAwake` and `WindowsHotspot` model theirs).
* The kiosk cancellation endpoint beside a running worker, and several kiosk
  operations at once, are checked on the ledger (`KioskOperations`) and not in
  `KioskDispatch`.
* The console beyond its saved views: the watch loop and the operation panels are
  presentation.
