------------------------ MODULE KioskDispatch_proofs ------------------------
(* Theorems of KioskDispatch for every value of its constants.               *)
EXTENDS KioskDispatch, FiniteSetTheorems, TLAPS

-----------------------------------------------------------------------------
(* The inductive invariant.                                                  *)

\* The devices of an operation, or of none, whose target is in one of the states.
Those(o, states) == {d \in Devices : o # NoOperation /\ d \in InState(o, states)}
Sent(o) == Those(o, WasSent)
Flying(o) == Those(o, InFlight)

\* Confirmation accepts every eligible target at once, and no call proposes one
\* again.
Together(o) ==
    \/ \A d \in Eligible(o) : o.targets[d].lifecycle # "Proposed"
    \/ \A d \in Eligible(o) : o.targets[d].lifecycle = "Proposed"

\* Every snapshot the hub holds or has written obeys the contract.
Good(snapshot) ==
    /\ snapshot \in Snapshot
    /\ snapshot.operation # NoOperation =>
          OperationValid(snapshot.operation) /\ Together(snapshot.operation)

\* The slot the hub stands on: the newest, unless a persist failed after it had
\* published that one.
Base == IF disk.ahead THEN disk.previous ELSE disk.newest

\* No target of o has fallen back in u.
NoneBehind(u, o) ==
    o # NoOperation =>
       /\ u # NoOperation
       /\ \A d \in TargetIds(o) :
             Rank(u.targets[d].lifecycle) >= Rank(o.targets[d].lifecycle)

\* A snapshot knows every headset by evidence as late, and every target as far on,
\* as another does.
NotBehind(new, old) ==
    /\ \A d \in Devices : new.observed[d].evidence >= old.observed[d].evidence
    /\ NoneBehind(new.operation, old.operation)

\* The two slots and the hub: a slot published by a failed persist has sent all
\* that the hub has, and a slot that cannot be restored differs from the one
\* before it only in what was observed.
SlotsAgree ==
    /\ Good(disk.newest) /\ Good(disk.previous)
    /\ hub = Base
    /\ NotBehind(disk.newest, disk.previous)
    /\ disk.ahead => Sent(disk.previous.operation) \subseteq Sent(disk.newest.operation)
    /\ ~disk.ahead /\ Restorable(disk.previous) /\ ~Restorable(disk.newest) =>
          disk.previous.operation = disk.newest.operation

\* What the headsets have been sent is in the operation the hub stands on, and
\* a worker about to send is the first to do so.
SentIsRecorded ==
    /\ \A d \in Devices : invoked[d] > 0 => d \in Sent(op)
    /\ \A d \in Devices : \A i \in 1..Len(workers[d]) :
          workers[d][i] = "invoke" => invoked[d] = 0

\* A process that is down has no tasks.
DownIsIdle == ~up => inflight = {} /\ \A d \in Devices : workers[d] = <<>>

\* What concerns the attempts in flight and the tasks that carry them out.
WorkersInv ==
    AttemptsHaveOneWorker /\ DownIsIdle /\ SentIsRecorded /\ InvokedAtMostOnce

\* The invariant the properties follow from.
DispatchInv == TypeOK /\ SlotsAgree /\ WorkersInv

-----------------------------------------------------------------------------
(* What the calls of the ledger do to the targets they concern.              *)

\* o becomes u: the targets of S move to one state and every preflight stays.
Changes(o, u, S, state) ==
    /\ u \in Operation /\ TargetIds(u) = TargetIds(o) /\ S \subseteq TargetIds(o)
    /\ \A d \in TargetIds(o) :
          /\ u.targets[d].preflight = o.targets[d].preflight
          /\ u.targets[d].lifecycle = IF d \in S THEN state ELSE o.targets[d].lifecycle

\* The targets of S are replaced by those of t, at one time.
Replacing(o, S, time, t) ==
    [o EXCEPT !.last_transition = time,
              !.targets = [d \in Devices |-> IF d \in S THEN t[d] ELSE o.targets[d]]]

\* A record whose targets of S are replaced, each by a target in the same state
\* with its preflight, has changed that way.
LEMMA Replaced ==
    ASSUME NEW o \in Operation, NEW S \in SUBSET TargetIds(o), NEW time \in Nat,
           NEW state, NEW t \in [S -> Target],
           \A d \in S : t[d].preflight = o.targets[d].preflight /\ t[d].lifecycle = state
    PROVE  Changes(o, Replacing(o, S, time, t), S, state)
  <1>. DEFINE f == [d \in Devices |-> IF d \in S THEN t[d] ELSE o.targets[d]]
              u == Replacing(o, S, time, t)
  <1>1. f \in [Devices -> Target \cup {NoTarget}]
    BY DEF Operation
  <1>2. u \in Operation /\ u.targets = f
    BY <1>1 DEF Replacing, Operation
  <1>3. \A d \in Devices : f[d] = NoTarget <=> o.targets[d] = NoTarget
    BY NoTargetAssumption DEF TargetIds
  <1>4. TargetIds(u) = TargetIds(o)
    BY <1>2, <1>3 DEF TargetIds
  <1>5. QED
    BY <1>2, <1>4 DEF Changes, TargetIds

\* The targets of an operation are targets.
LEMMA TargetsType ==
    ASSUME NEW o \in Operation, NEW d \in TargetIds(o)
    PROVE  o.targets[d] \in Target /\ d \in Devices
  BY DEF TargetIds, Operation

\* Confirmation accepts the eligible targets.
LEMMA ConfirmedChanges ==
    ASSUME NEW o \in Operation, NEW time \in Nat
    PROVE  Changes(o, Confirmed(o, time), Eligible(o), "Accepted")
  <1>. DEFINE t == [d \in Eligible(o) |-> [o.targets[d] EXCEPT !.lifecycle = "Accepted"]]
  <1>1. Eligible(o) \subseteq TargetIds(o)
    BY DEF Eligible
  <1>2. ASSUME NEW d \in Eligible(o)
        PROVE  /\ t[d] \in Target /\ t[d].preflight = o.targets[d].preflight
               /\ t[d].lifecycle = "Accepted"
    BY <1>1, TargetsType DEF Target, Lifecycle
  <1>3. Confirmed(o, time) = Replacing(o, Eligible(o), time, t)
    BY DEF Confirmed, Replacing
  <1>4. t \in [Eligible(o) -> Target]
    BY <1>2
  <1>. HIDE DEF t
  <1>5. QED
    BY <1>1, <1>2, <1>3, <1>4, Replaced

\* A call that moves one target.
LEMMA MovedChanges ==
    ASSUME NEW o \in Operation, NEW d \in TargetIds(o), NEW time \in Nat,
           NEW new \in Target, new.preflight = o.targets[d].preflight
    PROVE  /\ Changes(o, Moved(o, d, time, new), {d}, new.lifecycle)
           /\ Moved(o, d, time, new).targets[d] = new
  <1>. DEFINE t == [e \in {d} |-> new]
              f == [e \in Devices |-> IF e \in {d} THEN t[e] ELSE o.targets[e]]
  <1>1. d \in Devices
    BY TargetsType
  <1>2. f = [o.targets EXCEPT ![d] = new]
    BY DEF Operation
  <1>3. Moved(o, d, time, new) = Replacing(o, {d}, time, t)
    BY <1>1, <1>2 DEF Moved, Operation, Replacing
  <1>4. Moved(o, d, time, new).targets[d] = new
    BY <1>1 DEF Moved, Operation
  <1>5. /\ t \in [{d} -> Target]
        /\ \A e \in {d} : /\ t[e].preflight = o.targets[e].preflight
                          /\ t[e].lifecycle = new.lifecycle
    OBVIOUS
  <1>. HIDE DEF t
  <1>6. Changes(o, Moved(o, d, time, new), {d}, new.lifecycle)
    BY <1>3, <1>5, Replaced
  <1>7. QED
    BY <1>4, <1>6

\* A dispatch adds the device's request and sends the target on its way.
LEMMA DispatchedChanges ==
    ASSUME TypeOK, NEW o \in Operation, NEW S \in SUBSET TargetIds(o)
    PROVE  Changes(o, DispatchedAll(o, S), S, "Dispatched")
  <1>. DEFINE t == [d \in S |-> Dispatched(o, d, RequestOf(d), now).targets[d]]
              new(d) == [o.targets[d] EXCEPT !.lifecycle = "Dispatched",
                                !.dispatched_at = now,
                                !.request_ids = Append(@, RequestOf(d)),
                                !.receipt = NoRequest]
  <1>1. now \in Nat
    BY CallAssumption DEF TypeOK
  <1>2. ASSUME NEW d \in S
        PROVE  /\ t[d] \in Target /\ t[d].preflight = o.targets[d].preflight
               /\ t[d].lifecycle = "Dispatched"
    <2>1. o.targets[d] \in Target /\ d \in Devices /\ d \in Requests
      BY TargetsType, RequestAssumption
    <2>2. Append(o.targets[d].request_ids, RequestOf(d)) \in Seq(Requests)
      BY <2>1 DEF RequestOf, Target
    <2>3. /\ new(d) \in Target /\ new(d).preflight = o.targets[d].preflight
          /\ new(d).lifecycle = "Dispatched"
      BY <1>1, <2>1, <2>2 DEF Target, Lifecycle, InFlight
    <2>4. Dispatched(o, d, RequestOf(d), now) = Moved(o, d, now, new(d))
      BY DEF Dispatched
    <2>. HIDE DEF new
    <2>5. Moved(o, d, now, new(d)).targets[d] = new(d)
      BY <1>1, <2>3, MovedChanges
    <2>6. QED
      BY <2>3, <2>4, <2>5
  <1>3. DispatchedAll(o, S) = Replacing(o, S, now, t)
    BY DEF DispatchedAll, Replacing
  <1>4. t \in [S -> Target]
    BY <1>2
  <1>. HIDE DEF t
  <1>5. QED
    BY <1>1, <1>2, <1>3, <1>4, Replaced

\* A cancellation requested and completed.
LEMMA CancelledChanges ==
    ASSUME TypeOK, NEW o \in Operation, NEW S \in SUBSET TargetIds(o)
    PROVE  Changes(o, CancelledAll(o, S), S, "Cancelled")
  <1>. DEFINE t == [d \in S |-> CancellationCompleted(o, d, now).targets[d]]
              new(d) == [o.targets[d] EXCEPT !.lifecycle = "Cancelled"]
  <1>1. now \in Nat
    BY CallAssumption DEF TypeOK
  <1>2. ASSUME NEW d \in S
        PROVE  /\ t[d] \in Target /\ t[d].preflight = o.targets[d].preflight
               /\ t[d].lifecycle = "Cancelled"
    <2>1. o.targets[d] \in Target
      BY TargetsType
    <2>2. /\ new(d) \in Target /\ new(d).preflight = o.targets[d].preflight
          /\ new(d).lifecycle = "Cancelled"
      BY <2>1 DEF Target, Lifecycle, Terminal
    <2>3. CancellationCompleted(o, d, now) = Moved(o, d, now, new(d))
      BY DEF CancellationCompleted
    <2>. HIDE DEF new
    <2>4. Moved(o, d, now, new(d)).targets[d] = new(d)
      BY <1>1, <2>2, MovedChanges
    <2>5. QED
      BY <2>2, <2>3, <2>4
  <1>3. CancelledAll(o, S) = Replacing(o, S, now, t)
    BY DEF CancelledAll, Replacing
  <1>4. t \in [S -> Target]
    BY <1>2
  <1>. HIDE DEF t
  <1>5. QED
    BY <1>1, <1>2, <1>3, <1>4, Replaced

-----------------------------------------------------------------------------
(* What such a change keeps.                                                 *)

\* The targets of S leave the states they were in for the one they move to.
LEMMA ChangedStates ==
    ASSUME NEW o \in Operation, NEW u, NEW S, NEW state, NEW states,
           Changes(o, u, S, state)
    PROVE  /\ InState(u, states) = (InState(o, states) \ S)
                                     \cup (IF state \in states THEN S ELSE {})
           /\ Eligible(u) = Eligible(o)
  BY DEF Changes, InState, Eligible

\* Every target that is not settled has the identity revision it was previewed
\* with.
Matching(o, view) ==
    \A d \in TargetIds(o) :
       o.targets[d].lifecycle \notin Terminal =>
          view[d].identity_revision = o.targets[d].preflight.identity_revision

\* A change of targets that were not settled leaves nothing to mismatch.
LEMMA ChangedMatching ==
    ASSUME NEW o \in Operation, NEW u, NEW S, NEW state, NEW view,
           Changes(o, u, S, state), S \cap InState(o, Terminal) = {},
           Matching(o, view)
    PROVE  Matching(u, view)
  BY DEF Changes, Matching, InState

\* The rank of a state is a number.
LEMMA RankType == ASSUME NEW state PROVE Rank(state) \in Nat
  BY DEF Rank

\* A change to a state of at least their rank leaves no target behind.
LEMMA ChangedRank ==
    ASSUME NEW o, NEW u, NEW S, NEW state, Changes(o, u, S, state),
           \A d \in S : Rank(state) >= Rank(o.targets[d].lifecycle)
    PROVE  \A d \in TargetIds(o) :
              Rank(u.targets[d].lifecycle) >= Rank(o.targets[d].lifecycle)
  <1>. SUFFICES ASSUME NEW d \in TargetIds(o)
                PROVE  Rank(u.targets[d].lifecycle) >= Rank(o.targets[d].lifecycle)
    OBVIOUS
  <1>1. u.targets[d].lifecycle = IF d \in S THEN state ELSE o.targets[d].lifecycle
    BY DEF Changes
  <1>2. Rank(o.targets[d].lifecycle) \in Nat
    BY RankType
  <1>3. QED
    BY <1>1, <1>2

\* In a valid operation a target is eligible unless it is Rejected.
LEMMA EligibleUnlessRejected ==
    ASSUME NEW o \in Operation, OperationValid(o)
    PROVE  \A d \in TargetIds(o) :
              d \in Eligible(o) <=> o.targets[d].lifecycle # "Rejected"
  BY DEF OperationValid, TargetValid, Eligible

\* No change proposes a target, or takes one from its preview alone.
LEMMA ChangedTogether ==
    ASSUME NEW o \in Operation, NEW u, NEW S, NEW state,
           Changes(o, u, S, state), state # "Proposed", Together(o),
           \/ S = Eligible(o)
           \/ S \subseteq Eligible(o) /\ \A d \in S : o.targets[d].lifecycle # "Proposed"
    PROVE  Together(u)
  <1>1. Eligible(u) = Eligible(o) /\ Eligible(o) \subseteq TargetIds(o)
    BY ChangedStates DEF Eligible
  <1>2. \A d \in Eligible(o) :
           u.targets[d].lifecycle = IF d \in S THEN state ELSE o.targets[d].lifecycle
    BY <1>1 DEF Changes
  <1>3. QED
    BY <1>1, <1>2 DEF Together

\* An operation that may be confirmed is as its preview left it: every eligible
\* target is Proposed, so none was sent anything.
LEMMA ConfirmedFromProposed ==
    ASSUME NEW o \in Operation, NEW view, NEW time,
           OperationValid(o), Together(o), MayConfirm(o, view, time)
    PROVE  /\ \A d \in Eligible(o) : o.targets[d].lifecycle = "Proposed"
           /\ InState(o, WasSent) = {} /\ InState(o, InFlight) = {}
           /\ Eligible(o) \cap InState(o, Terminal) = {}
  <1>. DEFINE held == {o.targets[d].lifecycle : d \in Eligible(o)}
  <1>1. "Proposed" \in held
    BY DEF MayConfirm, DerivedLifecycle
  <1>2. \A d \in Eligible(o) : o.targets[d].lifecycle = "Proposed"
    BY <1>1 DEF Together
  <1>3. \A d \in TargetIds(o) :
           o.targets[d].lifecycle = "Proposed" \/ o.targets[d].lifecycle = "Rejected"
    BY <1>2, EligibleUnlessRejected
  <1>4. InState(o, WasSent) = {} /\ InState(o, InFlight) = {}
    BY <1>3 DEF InState, WasSent, InFlight
  <1>5. Eligible(o) \cap InState(o, Terminal) = {}
    BY <1>2 DEF InState, Terminal
  <1>6. QED
    BY <1>2, <1>4, <1>5

-----------------------------------------------------------------------------
(* Persisting a candidate.                                                   *)

\* A step may store u in place of the operation the hub holds.
Fits(u) ==
    /\ u \in Operation /\ OperationValid(u) /\ Together(u)
    /\ Sent(op) \subseteq Sent(u) /\ NoneBehind(u, op)
    /\ (op # NoOperation => Matching(op, hub.observed)) => Matching(u, hub.observed)

\* Whether the persist succeeds or fails after it published the slot, the two
\* slots and the hub agree again.
LEMMA Persisting ==
    ASSUME TypeOK, SlotsAgree, NEW candidate, Good(candidate),
           Sent(op) \subseteq Sent(candidate.operation), NotBehind(candidate, hub),
           Restorable(hub) /\ ~Restorable(candidate) =>
              hub.operation = candidate.operation
    PROVE  /\ PersistAndSwap(candidate) =>
                 /\ SlotsAgree' /\ hub' = candidate
                 /\ disk' \in [newest : Snapshot, previous : Snapshot, ahead : BOOLEAN]
           /\ PersistFailsLate(candidate) =>
                 /\ SlotsAgree' /\ hub' = hub /\ UNCHANGED runtime
                 /\ disk' \in [newest : Snapshot, previous : Snapshot, ahead : BOOLEAN]
  <1>1. Good(hub) /\ hub = IF disk.ahead THEN disk.previous ELSE disk.newest
    BY DEF SlotsAgree, Base
  <1>2. candidate \in Snapshot /\ hub \in Snapshot
    BY <1>1 DEF Good
  <1>3. ASSUME NEW known \in BOOLEAN, disk' = Saved(candidate, known),
               hub' = IF known THEN candidate ELSE hub
        PROVE  /\ SlotsAgree'
               /\ disk' \in [newest : Snapshot, previous : Snapshot, ahead : BOOLEAN]
    <2>1. disk' = [newest |-> candidate, previous |-> hub, ahead |-> ~known]
      BY <1>1, <1>3 DEF Saved
    <2>2. disk'.newest = candidate /\ disk'.previous = hub /\ disk'.ahead = ~known
      BY <2>1
    <2>3. SlotsAgree'
      BY <1>1, <1>3, <2>2 DEF SlotsAgree, Base, op
    <2>4. QED
      BY <1>2, <2>1, <2>3
  <1>4. PersistAndSwap(candidate) => disk' = Saved(candidate, TRUE) /\ hub' = candidate
    BY DEF PersistAndSwap
  <1>5. PersistFailsLate(candidate) =>
           disk' = Saved(candidate, FALSE) /\ hub' = hub /\ UNCHANGED runtime
    BY DEF PersistFailsLate
  <1>6. QED
    BY <1>3, <1>4, <1>5

\* The same of a step that stores an operation that fits.
LEMMA Storing ==
    ASSUME TypeOK, SlotsAgree, NEW u, Fits(u)
    PROVE  LET candidate == [hub EXCEPT !.operation = u] IN
           /\ PersistAndSwap(candidate) =>
                 /\ SlotsAgree' /\ hub' \in Snapshot /\ op' = u
                 /\ disk' \in [newest : Snapshot, previous : Snapshot, ahead : BOOLEAN]
           /\ PersistFailsLate(candidate) =>
                 /\ SlotsAgree' /\ hub' = hub /\ UNCHANGED runtime
                 /\ disk' \in [newest : Snapshot, previous : Snapshot, ahead : BOOLEAN]
  <1>. DEFINE candidate == [hub EXCEPT !.operation = u]
  <1>1. hub \in Snapshot /\ u \in Operation
    BY DEF TypeOK, Fits
  <1>2. /\ candidate \in Snapshot /\ candidate.operation = u
        /\ candidate.observed = hub.observed
    BY <1>1 DEF Snapshot
  <1>3. u # NoOperation
    BY <1>1, NoOperationAssumption
  <1>4. Good(candidate) /\ Sent(op) \subseteq Sent(candidate.operation)
    BY <1>2 DEF Good, Fits
  <1>5. NotBehind(candidate, hub)
    <2>1. \A d \in Devices : hub.observed[d].evidence \in Nat
      BY <1>1 DEF Snapshot, Observed
    <2>2. QED
      BY <1>2, <2>1 DEF NotBehind, Fits, op
  <1>6. Restorable(hub) => (op # NoOperation => Matching(op, hub.observed))
    BY DEF Restorable, OperationRestorable, Matching, op
  <1>7. OperationValid(u) /\ Matching(u, hub.observed) => Restorable(candidate)
    BY <1>2 DEF Restorable, OperationRestorable, Matching
  <1>8. Restorable(hub) => Restorable(candidate)
    BY <1>6, <1>7 DEF Fits
  <1>. HIDE DEF candidate
  <1>9. QED
    BY <1>2, <1>4, <1>8, <1>5, Persisting DEF op, PersistAndSwap, candidate

\* A change of unsettled, confirmed targets of a valid operation fits, unless it
\* forgets that one was sent something.
LEMMA ChangeFits ==
    ASSUME TypeOK, SlotsAgree, op # NoOperation, NEW u, NEW S, NEW state,
           Changes(op, u, S, state), OperationValid(u), state # "Proposed",
           \A d \in S : op.targets[d].lifecycle \in {"Accepted", "Dispatched", "Running"},
           \A d \in S : Rank(state) >= Rank(op.targets[d].lifecycle),
           state \in WasSent \/ S \cap InState(op, WasSent) = {}
    PROVE  Fits(u)
  <1>1. op \in Operation /\ OperationValid(op) /\ Together(op)
    BY DEF SlotsAgree, Base, Good, Snapshot, op
  <1>2. S \subseteq TargetIds(op) /\ S \subseteq Eligible(op)
    BY <1>1, EligibleUnlessRejected DEF Changes
  <1>3. S \cap InState(op, Terminal) = {}
    BY DEF InState, Terminal
  <1>4. u # NoOperation /\ u \in Operation
    BY NoOperationAssumption DEF Changes
  <1>5. Together(u)
    BY <1>1, <1>2, ChangedTogether
  <1>6. InState(op, WasSent) \subseteq InState(u, WasSent)
    BY <1>1, ChangedStates
  <1>7. Matching(op, hub.observed) => Matching(u, hub.observed)
    BY <1>1, <1>3, ChangedMatching
  <1>8. NoneBehind(u, op)
    BY <1>4, ChangedRank DEF NoneBehind
  <1>9. QED
    BY <1>4, <1>5, <1>6, <1>7, <1>8 DEF Fits, Sent, Those

-----------------------------------------------------------------------------
(* The worker tasks.                                                         *)

\* A step that neither starts nor ends an attempt, and starts no task.
LEMMA Quiet ==
    ASSUME WorkersInv, Flying(op') = Flying(op), Sent(op) \subseteq Sent(op'),
           UNCHANGED <<up, inflight, workers, invoked>>
    PROVE  WorkersInv'
  <1>1. Held(InFlight)' = Held(InFlight)
    BY DEF Held, Flying, Those
  <1>2. AttemptsHaveOneWorker'
    BY <1>1 DEF WorkersInv, AttemptsHaveOneWorker
  <1>3. DownIsIdle'
    BY DEF WorkersInv, DownIsIdle
  <1>4. SentIsRecorded' /\ InvokedAtMostOnce'
    BY DEF WorkersInv, SentIsRecorded, InvokedAtMostOnce
  <1>5. QED
    BY <1>2, <1>3, <1>4 DEF WorkersInv

\* A list of phases that grows by one, and lists of at most one phase.
LEMMA PhaseLists ==
    ASSUME NEW s \in Seq(Phase), NEW phase \in Phase
    PROVE  /\ Append(s, phase) \in Seq(Phase) /\ Len(Append(s, phase)) = Len(s) + 1
           /\ Len(s) = 0 => \A i \in 1..Len(Append(s, phase)) : Append(s, phase)[i] = phase
           /\ \A i \in 1..Len(s) : Len(s) <= 1 => i = 1 /\ Len(s) = 1
  <1>1. Append(s, phase) \in Seq(Phase) /\ Len(Append(s, phase)) = Len(s) + 1
    OBVIOUS
  <1>2. Len(s) = 0 => \A i \in 1..Len(Append(s, phase)) : Append(s, phase)[i] = phase
    BY <1>1
  <1>3. Len(s) \in Nat
    OBVIOUS
  <1>4. \A i \in 1..Len(s) : Len(s) <= 1 => i = 1 /\ Len(s) = 1
    <2>1. \A n \in Nat : \A i \in 1..n : n <= 1 => i = 1 /\ n = 1
      OBVIOUS
    <2>2. QED
      BY <1>3, <2>1
  <1>5. QED
    BY <1>1, <1>2, <1>4

\* A step that starts a task for each of the attempts S, which had none, beside
\* those of the attempts A; a task that starts by sending is the first to send.
LEMMA Spawned ==
    ASSUME TypeOK, SentIsRecorded, InvokedAtMostOnce, NEW phase \in Phase,
           NEW S \in SUBSET Devices, NEW A \in SUBSET Devices, Spawn(S, phase),
           inflight = A, \A d \in Devices : Len(workers[d]) = IF d \in A THEN 1 ELSE 0,
           Flying(op') = A \cup S, A \cap S = {},
           \A d \in Devices : invoked[d] > 0 => d \in Sent(op'),
           phase = "invoke" => \A d \in S : invoked[d] = 0,
           up', invoked' = invoked
    PROVE  /\ WorkersInv'
           /\ workers' \in [Devices -> Seq(Phase)] /\ inflight' \subseteq Devices
  <1>1. ASSUME NEW d \in Devices
        PROVE  /\ workers[d] \in Seq(Phase)
               /\ workers'[d] = IF d \in S THEN Append(workers[d], phase) ELSE workers[d]
    BY DEF Spawn, TypeOK
  <1>2. ASSUME NEW d \in Devices
        PROVE  /\ workers'[d] \in Seq(Phase)
               /\ Len(workers'[d]) = IF d \in A \cup S THEN 1 ELSE 0
    <2>1. CASE d \in S
      <3>1. Len(workers[d]) = 0
        BY <2>1
      <3>2. /\ Append(workers[d], phase) \in Seq(Phase)
            /\ Len(Append(workers[d], phase)) = Len(workers[d]) + 1
        BY <1>1, PhaseLists
      <3>3. workers'[d] = Append(workers[d], phase)
        BY <1>1, <2>1
      <3>4. workers'[d] \in Seq(Phase) /\ Len(workers'[d]) = 1
        BY <3>1, <3>2, <3>3
      <3>5. QED
        BY <2>1, <3>4
    <2>2. CASE d \notin S
      BY <1>1, <2>2
    <2>3. QED
      BY <2>1, <2>2
  <1>3. Held(InFlight)' = A \cup S
    BY DEF Held, Flying, Those
  <1>4. AttemptsHaveOneWorker'
    BY <1>2, <1>3 DEF AttemptsHaveOneWorker, Spawn
  <1>5. ASSUME NEW d \in Devices, NEW i \in 1..Len(workers'[d]), workers'[d][i] = "invoke"
        PROVE  invoked'[d] = 0
    <2>1. CASE d \in S
      <3>1. Len(workers[d]) = 0
        BY <2>1
      <3>2. \A j \in 1..Len(Append(workers[d], phase)) :
               Append(workers[d], phase)[j] = phase
        BY <1>1, <3>1, PhaseLists
      <3>3. workers'[d][i] = phase
        BY <1>1, <2>1, <3>2
      <3>4. QED
        BY <1>5, <2>1, <3>3
    <2>2. CASE d \notin S
      BY <1>1, <1>5, <2>2 DEF SentIsRecorded
    <2>3. QED
      BY <2>1, <2>2
  <1>6. SentIsRecorded' /\ InvokedAtMostOnce' /\ DownIsIdle'
    BY <1>5 DEF SentIsRecorded, InvokedAtMostOnce, DownIsIdle
  <1>7. workers' \in [Devices -> Seq(Phase)] /\ inflight' \subseteq Devices
    BY <1>2 DEF Spawn, TypeOK
  <1>8. QED
    BY <1>4, <1>6, <1>7 DEF WorkersInv

\* A task that goes on to its next phase, which does not send again, has sent at
\* most what the attempt allows.
LEMMA Advanced ==
    ASSUME TypeOK, WorkersInv, NEW d \in Devices, NEW i \in 1..Len(workers[d]),
           NEW was \in Phase, NEW is \in Phase \ {"invoke"}, WorkerAt(d, i, was),
           Advance(d, i, is),
           \/ invoked' = invoked
           \/ was = "invoke" /\ invoked' = [invoked EXCEPT ![d] = @ + 1]
    PROVE  /\ WorkersInv'
           /\ workers' \in [Devices -> Seq(Phase)] /\ invoked' \in [Devices -> Nat]
  <1>1. /\ workers \in [Devices -> Seq(Phase)] /\ invoked \in [Devices -> Nat]
        /\ up /\ workers[d][i] = was
    BY DEF TypeOK, WorkerAt
  <1>2. d \in Held(InFlight) /\ Len(workers[d]) = 1 /\ i = 1
    BY <1>1 DEF WorkersInv, AttemptsHaveOneWorker
  <1>3. /\ workers'[d] = <<is>> /\ workers' \in [Devices -> Seq(Phase)]
        /\ \A e \in Devices : e # d => workers'[e] = workers[e]
    <2>1. workers' = [workers EXCEPT ![d] = [workers[d] EXCEPT ![i] = is]]
      BY <1>1 DEF Advance
    <2>2. workers[d] \in Seq(Phase)
      BY <1>1
    <2>3. [workers[d] EXCEPT ![i] = is] = <<is>>
      BY <1>2, <2>2
    <2>4. QED
      BY <1>1, <2>1, <2>3
  <1>4. up' = up /\ hub' = hub /\ inflight' = inflight
    BY DEF Advance
  <1>5. Held(InFlight)' = Held(InFlight)
    BY <1>4 DEF Held, op
  <1>6. AttemptsHaveOneWorker' /\ DownIsIdle'
    BY <1>1, <1>2, <1>3, <1>4, <1>5 DEF WorkersInv, AttemptsHaveOneWorker, DownIsIdle
  <1>7. /\ invoked' \in [Devices -> Nat]
        /\ \A e \in Devices : e # d => invoked'[e] = invoked[e]
        /\ invoked'[d] = invoked[d] \/ (invoked[d] = 0 /\ invoked'[d] = 1)
    BY <1>1, <1>2 DEF WorkersInv, SentIsRecorded
  <1>8. d \in Sent(op) /\ op' = op
    BY <1>2, <1>4 DEF Held, Sent, Those, WasSent, InState, op
  <1>9. SentIsRecorded'
    <2>1. \A e \in Devices : invoked'[e] > 0 => e \in Sent(op')
      BY <1>7, <1>8 DEF WorkersInv, SentIsRecorded
    <2>2. ASSUME NEW e \in Devices, NEW j \in 1..Len(workers'[e]),
                 workers'[e][j] = "invoke"
          PROVE  invoked'[e] = 0
      <3>1. e # d
        BY <1>3, <2>2
      <3>2. QED
        BY <1>3, <1>7, <2>2, <3>1 DEF WorkersInv, SentIsRecorded
    <2>3. QED
      BY <2>1, <2>2 DEF SentIsRecorded
  <1>10. InvokedAtMostOnce'
    BY <1>7 DEF WorkersInv, InvokedAtMostOnce
  <1>11. QED
    BY <1>3, <1>6, <1>7, <1>9, <1>10 DEF WorkersInv

\* The task of an attempt that ends is retired.
LEMMA Retired ==
    ASSUME TypeOK, WorkersInv, NEW d \in Devices, NEW i \in 1..Len(workers[d]),
           up, Retire(d, i), Flying(op') = Flying(op) \ {d}, Sent(op) \subseteq Sent(op'),
           UNCHANGED <<up, invoked>>
    PROVE  /\ WorkersInv'
           /\ workers' \in [Devices -> Seq(Phase)] /\ inflight' \subseteq Devices
  <1>1. workers \in [Devices -> Seq(Phase)] /\ workers[d] \in Seq(Phase)
    BY DEF TypeOK
  <1>2. Len(workers[d]) = 1 /\ i = 1
    <2>1. Len(workers[d]) = IF d \in Held(InFlight) THEN 1 ELSE 0
      BY DEF WorkersInv, AttemptsHaveOneWorker
    <2>2. Len(workers[d]) <= 1
      BY <2>1
    <2>3. QED
      BY <1>1, <2>2, PhaseLists
  <1>3. RemoveAt(workers[d], i) = <<>>
    BY <1>1, <1>2 DEF RemoveAt
  <1>4. /\ workers'[d] = <<>> /\ workers' \in [Devices -> Seq(Phase)]
        /\ \A e \in Devices : e # d => workers'[e] = workers[e]
    BY <1>1, <1>3 DEF Retire
  <1>5. Held(InFlight)' = Held(InFlight) \ {d}
    BY DEF Held, Flying, Those
  <1>6. AttemptsHaveOneWorker' /\ DownIsIdle'
    BY <1>4, <1>5 DEF WorkersInv, AttemptsHaveOneWorker, DownIsIdle, Retire
  <1>7. SentIsRecorded' /\ InvokedAtMostOnce'
    BY <1>4 DEF WorkersInv, SentIsRecorded, InvokedAtMostOnce
  <1>8. inflight' \subseteq Devices
    BY DEF Retire, TypeOK
  <1>9. QED
    BY <1>4, <1>6, <1>7, <1>8 DEF WorkersInv

-----------------------------------------------------------------------------
(* The steps.                                                                *)

\* The snapshot the hub holds is good.
LEMMA HubIsGood ==
    ASSUME SlotsAgree
    PROVE  /\ Good(hub)
           /\ op # NoOperation => op \in Operation /\ OperationValid(op) /\ Together(op)
  BY DEF SlotsAgree, Base, Good, Snapshot, op

\* A step that leaves the hub and its tasks as they are.
LEMMA Unmoved ==
    ASSUME WorkersInv, UNCHANGED <<hub, up, runtime, invoked>>
    PROVE  WorkersInv'
  BY Quiet DEF op, runtime

\* A step that touches neither the hub nor the disk.
LEMMA SlotsUntouched ==
    ASSUME SlotsAgree, UNCHANGED <<hub, disk>>
    PROVE  SlotsAgree'
  BY DEF SlotsAgree, Base

\* A step of the clock.
LEMMA TickStep ==
    ASSUME DispatchInv, Tick
    PROVE  DispatchInv'
  <1>1. TypeOK'
    BY CallAssumption DEF DispatchInv, TypeOK, Tick, runtime, owner
  <1>2. QED
    BY <1>1, Unmoved, SlotsUntouched DEF DispatchInv, Tick, owner

\* A check-in changes what is observed of a headset, never the operation.
LEMMA CheckInStep ==
    ASSUME DispatchInv, NEW d \in Devices, NEW revision \in 1..MaxIdentity[d],
           CheckIn(d, revision)
    PROVE  DispatchInv'
  <1>. DEFINE seen == hub.observed[d]
              r == [identity_revision |-> revision, evidence |-> seen.evidence + 1,
                    ready |-> TRUE, fresh_until |-> now + FreshFor, accepted_at |-> now]
              candidate == [hub EXCEPT !.observed[d] = r]
  <1>1. TypeOK /\ SlotsAgree /\ WorkersInv
    BY DEF DispatchInv
  <1>2. hub \in Snapshot /\ Good(hub) /\ now \in Nat
    BY <1>1, HubIsGood, CallAssumption DEF TypeOK
  <1>3. hub.observed \in [Devices -> Observed] /\ seen \in Observed
    BY <1>2 DEF Snapshot
  <1>4. r \in Observed
    BY <1>2, <1>3, CallAssumption DEF Observed
  <1>5. [hub.observed EXCEPT ![d] = r] \in [Devices -> Observed]
    BY <1>3, <1>4
  <1>6. candidate \in Snapshot /\ candidate.operation = hub.operation
    BY <1>2, <1>5 DEF Snapshot
  <1>7. Good(candidate)
    BY <1>2, <1>6 DEF Good
  <1>8. /\ (PersistAndSwap(candidate) /\ UNCHANGED runtime) \/ PersistFailsLate(candidate)
        /\ UNCHANGED <<now, up, owner, crashes>>
    BY DEF CheckIn
  <1>9. NotBehind(candidate, hub)
    <2>1. candidate.observed = [hub.observed EXCEPT ![d] = r]
      BY <1>2 DEF Snapshot
    <2>2. \A e \in Devices : hub.observed[e].evidence \in Nat
      BY <1>3 DEF Observed
    <2>3. \A e \in Devices :
             candidate.observed[e].evidence >= hub.observed[e].evidence
      BY <1>3, <2>1, <2>2
    <2>4. NoneBehind(hub.operation, hub.operation)
      BY RankType DEF NoneBehind
    <2>. HIDE DEF candidate
    <2>5. QED
      BY <1>6, <2>3, <2>4 DEF NotBehind
  <1>. HIDE DEF candidate
  <1>10. /\ SlotsAgree' /\ op' = op /\ UNCHANGED runtime
        /\ disk' \in [newest : Snapshot, previous : Snapshot, ahead : BOOLEAN]
    BY <1>1, <1>6, <1>7, <1>8, <1>9, Persisting DEF op
  <1>11. WorkersInv'
    BY <1>1, <1>8, <1>10, Quiet DEF runtime, owner
  <1>12. hub' \in Snapshot
    BY <1>10, HubIsGood DEF Good, SlotsAgree, Base
  <1>13. TypeOK'
    BY <1>1, <1>8, <1>10, <1>12 DEF TypeOK, runtime, owner
  <1>14. QED
    BY <1>10, <1>11, <1>13 DEF DispatchInv

\* What a preview stores fits: nothing was sent, and the identity revisions are
\* those just observed.
LEMMA PreviewFits ==
    ASSUME TypeOK, op = NoOperation,
           NEW u, u = Previewed(Devices, hub.observed, now, Lifetime, Parallelism,
                                AttemptLimit),
           OperationValid(u)
    PROVE  Fits(u) /\ Flying(u) = {}
  <1>. DEFINE t(d) == NewTarget(hub.observed[d], now)
  <1>1. hub.observed \in [Devices -> Observed] /\ now \in Nat
    BY CallAssumption DEF TypeOK, Snapshot
  <1>2. ASSUME NEW d \in Devices
        PROVE  /\ t(d) \in Target
               /\ t(d).lifecycle \in {"Proposed", "Rejected"}
               /\ t(d).preflight.eligible => t(d).lifecycle = "Proposed"
               /\ t(d).preflight.identity_revision = hub.observed[d].identity_revision
    <2>1. hub.observed[d] \in Observed
      BY <1>1
    <2>2. Freshness(hub.observed[d], now) \in {"fresh", "stale", "offline"}
      BY DEF Freshness
    <2>3. /\ Preflight(hub.observed[d], now) \in PreflightRecord
          /\ Preflight(hub.observed[d], now).identity_revision
                = hub.observed[d].identity_revision
      BY <2>1, <2>2 DEF Preflight, PreflightRecord, Observed
    <2>4. (IF Preflight(hub.observed[d], now).eligible THEN "Proposed" ELSE "Rejected")
             \in Lifecycle
      BY DEF Lifecycle, Terminal
    <2>5. <<>> \in Seq(Requests)
      OBVIOUS
    <2>6. QED
      BY <2>3, <2>4, <2>5 DEF NewTarget, Target
  <1>3. /\ u.targets = [d \in Devices |-> t(d)]
        /\ u.created = now /\ u.expires = now + Lifetime
        /\ u.max_parallelism = Parallelism /\ u.max_attempts = AttemptLimit
        /\ u.last_transition = now
    BY DEF Previewed
  <1>4. u.targets \in [Devices -> Target \cup {NoTarget}]
    BY <1>2, <1>3
  <1>5. u \in Operation
    BY <1>1, <1>4, CallAssumption DEF Previewed, AttemptLimit, Operation
  <1>6. \A d \in TargetIds(u) : u.targets[d] = t(d) /\ d \in Devices
    BY <1>3 DEF TargetIds
  <1>. HIDE DEF t
  <1>7. Together(u)
    BY <1>2, <1>6 DEF Together, Eligible
  <1>8. Matching(u, hub.observed)
    BY <1>2, <1>6 DEF Matching
  <1>9. Flying(u) = {}
    BY <1>2, <1>6 DEF Flying, Those, InState, InFlight
  <1>10. Sent(op) = {} /\ NoneBehind(u, op)
    BY DEF Sent, Those, NoneBehind
  <1>11. QED
    BY <1>5, <1>7, <1>8, <1>9, <1>10 DEF Fits

\* The preview of an operation.
LEMMA PreviewStep ==
    ASSUME DispatchInv, PreviewOperation
    PROVE  DispatchInv'
  <1>. DEFINE u == Previewed(Devices, hub.observed, now, Lifetime, Parallelism,
                             AttemptLimit)
              candidate == [hub EXCEPT !.operation = u]
  <1>1. TypeOK /\ SlotsAgree /\ WorkersInv
    BY DEF DispatchInv
  <1>2. /\ op = NoOperation /\ OperationValid(u)
        /\ (PersistAndSwap(candidate) /\ UNCHANGED runtime) \/ PersistFailsLate(candidate)
        /\ UNCHANGED <<now, up, owner, crashes>>
    BY DEF PreviewOperation
  <1>3. Fits(u) /\ Flying(u) = {}
    BY <1>1, <1>2, PreviewFits
  <1>. HIDE DEF u
  <1>4. /\ SlotsAgree' /\ (op' = u \/ hub' = hub) /\ UNCHANGED runtime
        /\ disk' \in [newest : Snapshot, previous : Snapshot, ahead : BOOLEAN]
    BY <1>1, <1>2, <1>3, Storing
  <1>5. Flying(op) = {} /\ (op' = u \/ op' = op)
    BY <1>2, <1>4 DEF Flying, Those, op
  <1>6. Flying(op') = Flying(op) /\ Sent(op) \subseteq Sent(op')
    BY <1>3, <1>5 DEF Fits
  <1>7. WorkersInv'
    BY <1>1, <1>2, <1>4, <1>6, Quiet DEF runtime, owner
  <1>8. hub' \in Snapshot
    BY <1>4 DEF Good, SlotsAgree, Base
  <1>9. TypeOK'
    BY <1>1, <1>2, <1>4, <1>8 DEF TypeOK, runtime, owner
  <1>10. QED
    BY <1>4, <1>7, <1>9 DEF DispatchInv

\* The devices of the targets that are in a state are targets.
LEMMA ThoseAreTargets ==
    ASSUME NEW o, NEW states
    PROVE  /\ Those(o, states) \subseteq Devices
           /\ o # NoOperation => /\ InState(o, states) \subseteq TargetIds(o)
                                /\ Those(o, states) = InState(o, states)
  BY DEF Those, InState, TargetIds

\* Of waiting targets of the operation the hub holds, a dispatch fits; those
\* dispatched are in flight then, and none of them had been sent anything.
LEMMA DispatchFits ==
    ASSUME TypeOK, SlotsAgree, op # NoOperation, NEW S \in SUBSET Waiting,
           OperationValid(DispatchedAll(op, S))
    PROVE  /\ Fits(DispatchedAll(op, S))
           /\ Flying(DispatchedAll(op, S)) = Flying(op) \cup S
           /\ S \cap Sent(op) = {} /\ S \cap Flying(op) = {} /\ S \subseteq Devices
  <1>. DEFINE u == DispatchedAll(op, S)
  <1>1. op \in Operation
    BY HubIsGood
  <1>2. /\ S \in SUBSET TargetIds(op)
        /\ \A d \in S : op.targets[d].lifecycle = "Accepted"
    BY DEF Waiting, Held, InState
  <1>3. Changes(op, u, S, "Dispatched")
    BY <1>1, <1>2, DispatchedChanges
  <1>. HIDE DEF u
  <1>4. "Dispatched" \in WasSent /\ "Dispatched" \in InFlight
    BY DEF WasSent, InFlight
  <1>5. Fits(u)
    <2>1. \A d \in S : Rank("Dispatched") >= Rank(op.targets[d].lifecycle)
      BY <1>2 DEF Rank, InFlight
    <2>2. QED
      BY <1>2, <1>3, <1>4, <2>1, ChangeFits DEF u
  <1>6. u # NoOperation
    BY <1>5, NoOperationAssumption DEF Fits
  <1>7. InState(u, InFlight) = (InState(op, InFlight) \ S) \cup S
    BY <1>1, <1>3, <1>4, ChangedStates
  <1>8. S \cap InState(op, WasSent) = {} /\ S \cap InState(op, InFlight) = {}
    BY <1>2 DEF InState, WasSent, InFlight
  <1>9. QED
    BY <1>2, <1>5, <1>6, <1>7, <1>8 DEF Flying, Sent, Those, TargetIds, u

\* Confirming an operation and dispatching targets of it fits.
LEMMA ConfirmFits ==
    ASSUME TypeOK, SlotsAgree, op # NoOperation, MayConfirm(op, hub.observed, now),
           NEW S \in SUBSET Eligible(op),
           OperationValid(DispatchedAll(Confirmed(op, now), S))
    PROVE  /\ Fits(DispatchedAll(Confirmed(op, now), S))
           /\ Flying(DispatchedAll(Confirmed(op, now), S)) = S
           /\ Sent(op) = {} /\ Flying(op) = {} /\ S \subseteq Devices
  <1>. DEFINE c == Confirmed(op, now)
              u == DispatchedAll(c, S)
  <1>1. op \in Operation /\ OperationValid(op) /\ Together(op) /\ now \in Nat
    BY HubIsGood, CallAssumption DEF TypeOK
  <1>2. /\ InState(op, WasSent) = {} /\ InState(op, InFlight) = {}
        /\ Eligible(op) \cap InState(op, Terminal) = {}
    BY <1>1, ConfirmedFromProposed
  <1>3. Changes(op, c, Eligible(op), "Accepted")
    BY <1>1, ConfirmedChanges
  <1>4. c \in Operation /\ Eligible(c) = Eligible(op) /\ S \subseteq TargetIds(c)
    BY <1>1, <1>3, ChangedStates DEF Changes, Eligible
  <1>5. \A d \in Eligible(op) : c.targets[d].lifecycle = "Accepted"
    BY <1>3 DEF Changes, Eligible
  <1>6. Together(c)
    BY <1>1, <1>3, ChangedTogether
  <1>7. Changes(c, u, S, "Dispatched")
    BY <1>4, DispatchedChanges
  <1>. HIDE DEF u, c
  <1>8. u \in Operation /\ u # NoOperation
    BY <1>7, NoOperationAssumption DEF Changes
  <1>9. Together(u)
    BY <1>4, <1>5, <1>6, <1>7, ChangedTogether
  <1>10. S \cap InState(c, Terminal) = {}
    BY <1>5 DEF InState, Terminal
  <1>11. Matching(op, hub.observed) => Matching(u, hub.observed)
    BY <1>1, <1>2, <1>3, <1>4, <1>7, <1>10, ChangedMatching
  <1>12. Sent(op) = {} /\ Flying(op) = {}
    BY <1>2 DEF Sent, Flying, Those
  <1>13. "Accepted" \notin InFlight /\ "Dispatched" \in InFlight
    BY DEF InFlight
  <1>14. InState(c, InFlight) = {}
    BY <1>1, <1>2, <1>3, <1>13, ChangedStates
  <1>15. InState(u, InFlight) = S
    BY <1>4, <1>7, <1>13, <1>14, ChangedStates
  <1>16. S \subseteq Devices
    BY DEF Eligible, TargetIds
  <1>17. NoneBehind(u, op)
    <2>1. \A d \in Eligible(op) : op.targets[d].lifecycle = "Proposed"
      BY <1>1, ConfirmedFromProposed
    <2>2. \A d \in Eligible(op) : Rank("Accepted") >= Rank(op.targets[d].lifecycle)
      BY <2>1 DEF Rank, InFlight
    <2>3. \A d \in S : Rank("Dispatched") >= Rank(c.targets[d].lifecycle)
      BY <1>5 DEF Rank, InFlight
    <2>4. \A d \in TargetIds(op) :
             Rank(c.targets[d].lifecycle) >= Rank(op.targets[d].lifecycle)
      BY <1>3, <2>2, ChangedRank
    <2>5. \A d \in TargetIds(c) :
             Rank(u.targets[d].lifecycle) >= Rank(c.targets[d].lifecycle)
      BY <1>7, <2>3, ChangedRank
    <2>6. TargetIds(c) = TargetIds(op)
      BY <1>3 DEF Changes
    <2>7. ASSUME NEW d \in TargetIds(op)
          PROVE  Rank(u.targets[d].lifecycle) >= Rank(op.targets[d].lifecycle)
      BY <2>4, <2>5, <2>6, RankType
    <2>8. QED
      BY <1>8, <2>7 DEF NoneBehind
  <1>18. QED
    BY <1>1, <1>8, <1>9, <1>11, <1>12, <1>15, <1>16, <1>17
       DEF Fits, Flying, Those, u, c

\* A step that stores u and starts a sending task for each of S, or whose persist
\* fails after it has published the slot.
LEMMA SendingStep ==
    ASSUME DispatchInv, NEW u, NEW S \in SUBSET Devices, Fits(u), up,
           Flying(u) = Flying(op) \cup S, S \cap Sent(op) = {}, S \cap Flying(op) = {},
           \/ PersistAndSwap([hub EXCEPT !.operation = u]) /\ Spawn(S, "invoke")
           \/ PersistFailsLate([hub EXCEPT !.operation = u]),
           UNCHANGED <<up, invoked>>
    PROVE  /\ SlotsAgree' /\ WorkersInv' /\ hub' \in Snapshot
           /\ disk' \in [newest : Snapshot, previous : Snapshot, ahead : BOOLEAN]
           /\ workers' \in [Devices -> Seq(Phase)] /\ inflight' \subseteq Devices
           /\ PersistFailsLate([hub EXCEPT !.operation = u]) => UNCHANGED runtime
  <1>. DEFINE candidate == [hub EXCEPT !.operation = u]
  <1>1. TypeOK /\ SlotsAgree /\ WorkersInv
    BY DEF DispatchInv
  <1>2. /\ SlotsAgree'
        /\ disk' \in [newest : Snapshot, previous : Snapshot, ahead : BOOLEAN]
        /\ PersistAndSwap(candidate) => op' = u
        /\ PersistFailsLate(candidate) => hub' = hub /\ UNCHANGED runtime
    BY <1>1, Storing
  <1>3. hub' \in Snapshot
    BY <1>2 DEF Good, SlotsAgree, Base
  <1>. HIDE DEF candidate
  <1>4. ASSUME PersistAndSwap(candidate), Spawn(S, "invoke")
        PROVE  /\ WorkersInv'
               /\ workers' \in [Devices -> Seq(Phase)] /\ inflight' \subseteq Devices
    <2>1. op' = u
      BY <1>2, <1>4
    <2>2. Held(InFlight) = Flying(op) /\ Flying(op) \subseteq Devices
      BY DEF Held, Flying, Those
    <2>3. /\ inflight = Flying(op)
          /\ \A d \in Devices : Len(workers[d]) = IF d \in Flying(op) THEN 1 ELSE 0
      BY <1>1, <2>2 DEF WorkersInv, AttemptsHaveOneWorker, TypeOK
    <2>4. \A d \in Devices : invoked[d] > 0 => d \in Sent(op')
      BY <1>1, <2>1 DEF WorkersInv, SentIsRecorded, Fits
    <2>5. \A d \in S : invoked[d] = 0
      BY <1>1 DEF WorkersInv, SentIsRecorded, TypeOK
    <2>6. "invoke" \in Phase
      BY DEF Phase
    <2>7. SentIsRecorded /\ InvokedAtMostOnce
      BY <1>1 DEF WorkersInv
    <2>. HIDE DEF Phase
    <2>8. QED
      BY <1>1, <1>4, <2>1, <2>2, <2>3, <2>4, <2>5, <2>6, <2>7, Spawned
  <1>5. ASSUME hub' = hub, UNCHANGED runtime
        PROVE  /\ WorkersInv'
               /\ workers' \in [Devices -> Seq(Phase)] /\ inflight' \subseteq Devices
    BY <1>1, <1>5, Unmoved DEF runtime, TypeOK
  <1>6. QED
    BY <1>2, <1>3, <1>4, <1>5 DEF runtime, candidate

\* An execution confirms every eligible target and dispatches those that fit.
LEMMA ExecuteStep ==
    ASSUME DispatchInv, ExecuteOperation
    PROVE  DispatchInv'
  <1>1. TypeOK /\ SlotsAgree /\ WorkersInv
    BY DEF DispatchInv
  <1>2. /\ up /\ op # NoOperation /\ MayConfirm(op, hub.observed, now)
        /\ executed' = executed + 1
        /\ UNCHANGED <<now, up, invoked, delivered, crashes>>
    BY DEF ExecuteOperation
  <1>. DEFINE u(S) == DispatchedAll(Confirmed(op, now), S)
  <1>3. PICK S \in FirstOf(Eligible(op), op.max_parallelism) :
           /\ MayDispatchAll(Confirmed(op, now), S)
           /\ \/ /\ PersistAndSwap([hub EXCEPT !.operation = u(S)])
                 /\ Spawn(S, "invoke") /\ UNCHANGED schedulers
              \/ PersistFailsLate([hub EXCEPT !.operation = u(S)])
    BY DEF ExecuteOperation
  <1>4. S \in SUBSET Eligible(op) /\ OperationValid(u(S))
    BY <1>3 DEF FirstOf, MayDispatchAll
  <1>5. /\ Fits(u(S)) /\ Flying(u(S)) = S /\ Sent(op) = {} /\ Flying(op) = {}
        /\ S \in SUBSET Devices
    BY <1>1, <1>2, <1>4, ConfirmFits
  <1>. HIDE DEF u
  <1>6. /\ SlotsAgree' /\ WorkersInv' /\ hub' \in Snapshot
        /\ disk' \in [newest : Snapshot, previous : Snapshot, ahead : BOOLEAN]
        /\ workers' \in [Devices -> Seq(Phase)] /\ inflight' \subseteq Devices
        /\ PersistFailsLate([hub EXCEPT !.operation = u(S)]) => UNCHANGED runtime
    BY <1>2, <1>3, <1>5, SendingStep
  <1>7. schedulers' = schedulers
    BY <1>3, <1>6 DEF runtime
  <1>8. TypeOK'
    BY <1>1, <1>2, <1>6, <1>7 DEF TypeOK
  <1>9. QED
    BY <1>6, <1>8 DEF DispatchInv

\* The scheduler dispatches waiting targets.
LEMMA SchedulerDispatchesStep ==
    ASSUME DispatchInv, NEW known \in BOOLEAN, SchedulerDispatches(known)
    PROVE  DispatchInv'
  <1>1. TypeOK /\ SlotsAgree /\ WorkersInv
    BY DEF DispatchInv
  <1>2. /\ up /\ op # NoOperation /\ schedulers > 0
        /\ UNCHANGED <<now, up, owner, crashes>>
    BY DEF SchedulerDispatches, Waiting, Held
  <1>3. PICK S \in FirstOf(Waiting, Slots) :
           /\ MayDispatchAll(op, S)
           /\ \/ /\ PersistAndSwap([hub EXCEPT !.operation = DispatchedAll(op, S)])
                 /\ Spawn(S, "invoke") /\ schedulers' = schedulers - 1
              \/ PersistFailsLate([hub EXCEPT !.operation = DispatchedAll(op, S)])
    BY DEF SchedulerDispatches
  <1>4. S \in SUBSET Waiting /\ OperationValid(DispatchedAll(op, S))
    BY <1>3 DEF FirstOf, MayDispatchAll
  <1>. DEFINE u == DispatchedAll(op, S)
  <1>5. /\ Fits(u) /\ Flying(u) = Flying(op) \cup S
        /\ S \cap Sent(op) = {} /\ S \cap Flying(op) = {} /\ S \in SUBSET Devices
    BY <1>1, <1>2, <1>4, DispatchFits
  <1>6. \/ PersistAndSwap([hub EXCEPT !.operation = u]) /\ Spawn(S, "invoke")
        \/ PersistFailsLate([hub EXCEPT !.operation = u])
    BY <1>3
  <1>7. \/ schedulers' = schedulers - 1
        \/ PersistFailsLate([hub EXCEPT !.operation = u])
    BY <1>3
  <1>. HIDE DEF u
  <1>8. /\ SlotsAgree' /\ WorkersInv' /\ hub' \in Snapshot
        /\ disk' \in [newest : Snapshot, previous : Snapshot, ahead : BOOLEAN]
        /\ workers' \in [Devices -> Seq(Phase)] /\ inflight' \subseteq Devices
        /\ PersistFailsLate([hub EXCEPT !.operation = u]) => UNCHANGED runtime
    BY <1>2, <1>5, <1>6, SendingStep DEF owner
  <1>9. schedulers' \in Nat
    BY <1>1, <1>2, <1>7, <1>8 DEF TypeOK, runtime
  <1>10. TypeOK'
    BY <1>1, <1>2, <1>8, <1>9 DEF TypeOK, owner
  <1>11. QED
    BY <1>8, <1>10 DEF DispatchInv

\* Waiting targets of an expired preview are cancelled: none was in flight, and
\* none had been sent anything.
LEMMA SchedulerCancelsStep ==
    ASSUME DispatchInv, NEW known \in BOOLEAN, SchedulerCancels(known)
    PROVE  DispatchInv'
  <1>. DEFINE u == CancelledAll(op, Waiting)
              candidate == [hub EXCEPT !.operation = u]
  <1>1. TypeOK /\ SlotsAgree /\ WorkersInv
    BY DEF DispatchInv
  <1>2. /\ up /\ op # NoOperation /\ schedulers > 0
        /\ UNCHANGED <<now, up, owner, crashes>>
        /\ \/ /\ PersistAndSwap(candidate) /\ schedulers' = schedulers - 1
              /\ UNCHANGED <<inflight, workers>>
           \/ PersistFailsLate(candidate)
    BY DEF SchedulerCancels, Waiting, Held
  <1>3. op \in Operation /\ OperationValid(u)
    <2>1. op \in Operation
      BY <1>1, <1>2, HubIsGood
    <2>2. candidate.operation = u
      BY <1>1 DEF TypeOK, Snapshot
    <2>3. QED
      BY <2>1, <2>2 DEF SchedulerCancels
  <1>4. /\ Waiting \in SUBSET TargetIds(op)
        /\ \A d \in Waiting : op.targets[d].lifecycle = "Accepted"
    BY DEF Waiting, Held, InState
  <1>5. Changes(op, u, Waiting, "Cancelled")
    BY <1>1, <1>3, <1>4, CancelledChanges
  <1>. HIDE DEF u
  <1>6. Waiting \cap InState(op, WasSent) = {} /\ Waiting \cap InState(op, InFlight) = {}
    BY <1>4 DEF InState, WasSent, InFlight
  <1>7. Fits(u)
    <2>1. \A d \in Waiting : Rank("Cancelled") >= Rank(op.targets[d].lifecycle)
      BY <1>4 DEF Rank, InFlight
    <2>2. QED
      BY <1>1, <1>2, <1>3, <1>4, <1>5, <1>6, <2>1, ChangeFits
  <1>8. InState(u, InFlight) = InState(op, InFlight)
    <2>1. "Cancelled" \notin InFlight
      BY DEF InFlight
    <2>2. QED
      BY <1>3, <1>5, <1>6, <2>1, ChangedStates
  <1>9. Flying(u) = Flying(op)
    <2>1. u # NoOperation
      BY <1>7, NoOperationAssumption DEF Fits
    <2>2. QED
      BY <1>2, <1>8, <2>1 DEF Flying, Those
  <1>10. /\ SlotsAgree' /\ (op' = u \/ hub' = hub) /\ UNCHANGED <<inflight, workers>>
         /\ disk' \in [newest : Snapshot, previous : Snapshot, ahead : BOOLEAN]
         /\ schedulers' = schedulers \/ schedulers' = schedulers - 1
    BY <1>1, <1>2, <1>7, Storing DEF runtime
  <1>11. Flying(op') = Flying(op) /\ Sent(op) \subseteq Sent(op')
    BY <1>7, <1>9, <1>10 DEF Fits, op
  <1>12. WorkersInv'
    BY <1>1, <1>2, <1>10, <1>11, Quiet DEF owner
  <1>13. hub' \in Snapshot
    BY <1>10 DEF Good, SlotsAgree, Base
  <1>14. TypeOK'
    BY <1>1, <1>2, <1>10, <1>13 DEF TypeOK, owner
  <1>15. QED
    BY <1>10, <1>12, <1>14 DEF DispatchInv

\* A scheduler call that has nothing to do, or may not do it.
LEMMA SchedulerReturnsStep ==
    ASSUME DispatchInv, SchedulerIdle \/ SchedulerRefused
    PROVE  DispatchInv'
  <1>1. /\ TypeOK /\ SlotsAgree /\ WorkersInv
        /\ SchedulerReturns /\ schedulers > 0
    BY DEF DispatchInv, SchedulerIdle, SchedulerRefused
  <1>2. UNCHANGED <<now, up, hub, disk, inflight, workers, owner, crashes>>
        /\ schedulers' = schedulers - 1
    BY <1>1 DEF SchedulerReturns
  <1>3. WorkersInv'
    BY <1>1, <1>2, Quiet DEF op, owner
  <1>4. SlotsAgree'
    BY <1>1, <1>2, SlotsUntouched
  <1>5. TypeOK'
    BY <1>1, <1>2 DEF TypeOK, owner
  <1>6. QED
    BY <1>3, <1>4, <1>5 DEF DispatchInv

\* A worker that has work left belongs to an attempt in flight.
LEMMA WorkerIsInFlight ==
    ASSUME DispatchInv, NEW d \in Devices, NEW i \in 1..Len(workers[d]), up
    PROVE  /\ op # NoOperation /\ d \in InState(op, InFlight) /\ d \in TargetIds(op)
           /\ op.targets[d].lifecycle \in InFlight
  <1>1. Len(workers[d]) = IF d \in Held(InFlight) THEN 1 ELSE 0
    BY DEF DispatchInv, WorkersInv, AttemptsHaveOneWorker
  <1>2. d \in Held(InFlight)
    BY <1>1
  <1>3. QED
    BY <1>2 DEF Held, InState

\* Sending, polling, receiving and giving up do not touch the hub.
LEMMA WorkerAdvancesStep ==
    ASSUME DispatchInv, NEW d \in Devices, NEW i \in 1..Len(workers[d]),
           \/ WorkerInvokes(d, i) \/ WorkerStartsPolling(d, i) \/ WorkerReceives(d, i)
           \/ WorkerPollFails(d, i) \/ WorkerTimesOut(d, i)
    PROVE  DispatchInv'
  <1>1. TypeOK /\ SlotsAgree /\ WorkersInv
    BY DEF DispatchInv
  <1>2. \E was \in Phase, is \in Phase \ {"invoke"} :
           /\ WorkerAt(d, i, was) /\ Advance(d, i, is)
           /\ \/ invoked' = invoked
              \/ was = "invoke" /\ invoked' = [invoked EXCEPT ![d] = @ + 1]
           /\ delivered' \subseteq Devices /\ executed' = executed
    <2>1. CASE WorkerInvokes(d, i)
      <3>1. "invoke" \in Phase /\ "resume" \in Phase \ {"invoke"}
        BY DEF Phase
      <3>2. delivered' \subseteq Devices
        BY <1>1, <2>1 DEF WorkerInvokes, Exchanged, TypeOK
      <3>3. QED
        BY <2>1, <3>1, <3>2 DEF WorkerInvokes
    <2>2. CASE WorkerStartsPolling(d, i)
      BY <1>1, <2>2 DEF WorkerStartsPolling, Phase, owner, TypeOK
    <2>3. CASE WorkerReceives(d, i)
      BY <1>1, <2>3 DEF WorkerReceives, Phase, owner, TypeOK
    <2>4. CASE WorkerPollFails(d, i)
      BY <1>1, <2>4 DEF WorkerPollFails, Phase, owner, TypeOK
    <2>5. CASE WorkerTimesOut(d, i)
      BY <1>1, <2>5 DEF WorkerTimesOut, Phase, owner, TypeOK
    <2>6. QED
      BY <2>1, <2>2, <2>3, <2>4, <2>5
  <1>3. PICK was \in Phase, is \in Phase \ {"invoke"} :
           /\ WorkerAt(d, i, was) /\ Advance(d, i, is)
           /\ \/ invoked' = invoked
              \/ was = "invoke" /\ invoked' = [invoked EXCEPT ![d] = @ + 1]
           /\ delivered' \subseteq Devices /\ executed' = executed
    BY <1>2
  <1>4. /\ WorkersInv'
        /\ workers' \in [Devices -> Seq(Phase)] /\ invoked' \in [Devices -> Nat]
    BY <1>1, <1>3, Advanced
  <1>5. UNCHANGED <<now, up, hub, disk, inflight, schedulers, crashes>>
    BY <1>3 DEF Advance
  <1>6. TypeOK' /\ SlotsAgree'
    BY <1>1, <1>3, <1>4, <1>5, SlotsUntouched DEF TypeOK
  <1>7. QED
    BY <1>4, <1>6 DEF DispatchInv

\* A worker finds its target settled only if another ended the attempt, which the
\* invariant rules out.
LEMMA WorkerFindsSettledStep ==
    ASSUME DispatchInv, NEW d \in Devices, NEW i \in 1..Len(workers[d]),
           WorkerFindsSettled(d, i)
    PROVE  FALSE
  <1>1. up /\ d \in Held(Terminal)
    BY DEF WorkerFindsSettled, WorkerAt
  <1>2. op.targets[d].lifecycle \in InFlight
    BY <1>1, WorkerIsInFlight
  <1>3. QED
    BY <1>1, <1>2 DEF Held, InState, Terminal, InFlight

\* The result of an attempt in flight, or its absence, settles the target and
\* fits.
LEMMA CommitFits ==
    ASSUME TypeOK, SlotsAgree, op # NoOperation, NEW d \in InState(op, InFlight),
           NEW u, OperationValid(u),
           u \in {Applied(op, d, RequestOf(d), now), Finished(op, d, "Expired", now)}
    PROVE  Fits(u) /\ Flying(u) = Flying(op) \ {d}
  <1>1. op \in Operation /\ now \in Nat /\ d \in TargetIds(op)
    BY HubIsGood, CallAssumption DEF TypeOK, InState
  <1>2. op.targets[d] \in Target /\ d \in Devices /\ RequestOf(d) \in Requests
    BY <1>1, TargetsType, RequestAssumption DEF RequestOf
  <1>3. op.targets[d].lifecycle \in InFlight
    BY DEF InState
  <1>4. PICK t \in Target :
           /\ t.preflight = op.targets[d].preflight
           /\ t.lifecycle \in {"Applied", "Expired"}
           /\ u = Moved(op, d, now, t)
    <2>1. CASE u = Applied(op, d, RequestOf(d), now)
      <3>. DEFINE t == [op.targets[d] EXCEPT !.lifecycle = "Applied",
                                             !.receipt = RequestOf(d)]
      <3>1. /\ t \in Target /\ t.preflight = op.targets[d].preflight
            /\ t.lifecycle = "Applied"
        BY <1>2 DEF Target, Lifecycle, Terminal
      <3>2. QED
        BY <2>1, <3>1 DEF Applied
    <2>2. CASE u = Finished(op, d, "Expired", now)
      <3>. DEFINE t == [op.targets[d] EXCEPT !.lifecycle = "Expired"]
      <3>1. /\ t \in Target /\ t.preflight = op.targets[d].preflight
            /\ t.lifecycle = "Expired"
        BY <1>2 DEF Target, Lifecycle, Terminal
      <3>2. QED
        BY <2>2, <3>1 DEF Finished
    <2>3. QED
      BY <2>1, <2>2
  <1>5. Changes(op, u, {d}, t.lifecycle)
    BY <1>1, <1>4, MovedChanges
  <1>6. t.lifecycle \in WasSent /\ t.lifecycle \notin InFlight /\ t.lifecycle # "Proposed"
    BY <1>4 DEF WasSent, InFlight
  <1>7. \A e \in {d} : op.targets[e].lifecycle \in {"Accepted", "Dispatched", "Running"}
    BY <1>3 DEF InFlight
  <1>8. Fits(u)
    <2>1. \A e \in {d} : Rank(t.lifecycle) >= Rank(op.targets[e].lifecycle)
      BY <1>3, <1>4 DEF Rank, InFlight
    <2>2. QED
      BY <1>5, <1>6, <1>7, <2>1, ChangeFits
  <1>9. InState(u, InFlight) = InState(op, InFlight) \ {d}
    BY <1>1, <1>5, <1>6, ChangedStates
  <1>10. u # NoOperation
    BY <1>8, NoOperationAssumption DEF Fits
  <1>11. QED
    BY <1>8, <1>9, <1>10 DEF Flying, Those

\* A step that stores u, in which the attempt of d has ended, and retires its
\* worker, or whose persist fails after it has published the slot.
LEMMA SettlingStep ==
    ASSUME DispatchInv, NEW d \in Devices, NEW i \in 1..Len(workers[d]), up,
           NEW u, Fits(u), Flying(u) = Flying(op) \ {d},
           \/ /\ PersistAndSwap([hub EXCEPT !.operation = u])
              /\ Retire(d, i) /\ schedulers' = schedulers + 1
           \/ PersistFailsLate([hub EXCEPT !.operation = u]),
           UNCHANGED <<now, up, owner, crashes>>
    PROVE  DispatchInv'
  <1>. DEFINE candidate == [hub EXCEPT !.operation = u]
  <1>1. TypeOK /\ SlotsAgree /\ WorkersInv
    BY DEF DispatchInv
  <1>2. /\ SlotsAgree'
        /\ disk' \in [newest : Snapshot, previous : Snapshot, ahead : BOOLEAN]
        /\ PersistAndSwap(candidate) => op' = u
        /\ PersistFailsLate(candidate) => hub' = hub /\ UNCHANGED runtime
    BY <1>1, Storing
  <1>. HIDE DEF candidate
  <1>3. /\ WorkersInv'
        /\ workers' \in [Devices -> Seq(Phase)] /\ inflight' \subseteq Devices
        /\ schedulers' \in Nat
    <2>1. CASE PersistFailsLate(candidate)
      <3>1. hub' = hub /\ UNCHANGED runtime
        BY <1>2, <2>1
      <3>2. WorkersInv'
        BY <1>1, <3>1, Unmoved DEF owner
      <3>3. QED
        BY <1>1, <3>1, <3>2 DEF TypeOK, runtime
    <2>2. CASE PersistAndSwap(candidate) /\ Retire(d, i) /\ schedulers' = schedulers + 1
      <3>1. Flying(op') = Flying(op) \ {d} /\ Sent(op) \subseteq Sent(op')
        BY <1>2, <2>2 DEF Fits
      <3>2. /\ WorkersInv'
            /\ workers' \in [Devices -> Seq(Phase)] /\ inflight' \subseteq Devices
        BY <1>1, <2>2, <3>1, Retired DEF owner
      <3>3. QED
        BY <1>1, <2>2, <3>2 DEF TypeOK
    <2>3. QED
      BY <2>1, <2>2 DEF candidate
  <1>4. hub' \in Snapshot
    BY <1>2 DEF Good, SlotsAgree, Base
  <1>5. TypeOK'
    BY <1>1, <1>2, <1>3, <1>4 DEF TypeOK, owner
  <1>6. QED
    BY <1>2, <1>3, <1>5 DEF DispatchInv

\* A worker commits the result of its attempt.
LEMMA WorkerCommitsStep ==
    ASSUME DispatchInv, NEW d \in Devices, NEW i \in 1..Len(workers[d]),
           NEW known \in BOOLEAN, WorkerCommits(d, i, known)
    PROVE  DispatchInv'
  <1>1. TypeOK /\ SlotsAgree /\ WorkersInv
    BY DEF DispatchInv
  <1>2. PICK u \in {Applied(op, d, RequestOf(d), now), Finished(op, d, "Expired", now)} :
           /\ up /\ OperationValid(u)
           /\ \/ /\ PersistAndSwap([hub EXCEPT !.operation = u])
                 /\ Retire(d, i) /\ schedulers' = schedulers + 1
              \/ PersistFailsLate([hub EXCEPT !.operation = u])
    <2>. DEFINE received == WorkerAt(d, i, "receipt")
              /\ MayApply(op, d, op.targets[d].preflight.identity_revision,
                          RequestOf(d), now)
                unknown == WorkerAt(d, i, "unknown") /\ MayFinish(op, d, now)
                results == (IF received THEN {Applied(op, d, RequestOf(d), now)} ELSE {})
                           \cup
                           (IF unknown THEN {Finished(op, d, "Expired", now)} ELSE {})
    <2>1. \E u \in results :
             /\ OperationValid(u)
             /\ \/ /\ PersistAndSwap([hub EXCEPT !.operation = u])
                   /\ Retire(d, i) /\ schedulers' = schedulers + 1
                \/ PersistFailsLate([hub EXCEPT !.operation = u])
      BY DEF WorkerCommits
    <2>2. results # {} => up
      BY DEF WorkerAt
    <2>3. results \subseteq {Applied(op, d, RequestOf(d), now),
                            Finished(op, d, "Expired", now)}
      OBVIOUS
    <2>. HIDE DEF results
    <2>4. QED
      BY <2>1, <2>2, <2>3
  <1>3. UNCHANGED <<now, up, owner, crashes>>
    BY DEF WorkerCommits
  <1>4. op # NoOperation /\ d \in InState(op, InFlight)
    BY <1>2, WorkerIsInFlight
  <1>5. Fits(u) /\ Flying(u) = Flying(op) \ {d}
    BY <1>1, <1>2, <1>4, CommitFits
  <1>6. QED
    BY <1>2, <1>3, <1>5, SettlingStep

\* A crash ends every task and leaves the slots.
LEMMA CrashStep ==
    ASSUME DispatchInv, Crash
    PROVE  DispatchInv'
  <1>1. TypeOK /\ SlotsAgree /\ WorkersInv
    BY DEF DispatchInv
  <1>2. /\ up' = FALSE /\ inflight' = {} /\ schedulers' = 0
        /\ workers' = [d \in Devices |-> <<>>]
        /\ crashes' = crashes + 1 /\ crashes < MaxCrashes
        /\ UNCHANGED <<now, hub, disk, owner>>
    BY DEF Crash
  <1>3. \A d \in Devices : workers'[d] = <<>>
    BY <1>2
  <1>4. workers' \in [Devices -> Seq(Phase)]
    BY <1>2
  <1>5. \A d \in Devices : 1..Len(workers'[d]) = {}
    BY <1>3
  <1>6. WorkersInv'
    BY <1>1, <1>2, <1>3, <1>5
       DEF WorkersInv, AttemptsHaveOneWorker, DownIsIdle, SentIsRecorded,
           InvokedAtMostOnce, owner, op
  <1>7. crashes' \in 0..MaxCrashes
    BY <1>1, <1>2, CallAssumption DEF TypeOK
  <1>8. TypeOK'
    BY <1>1, <1>2, <1>4, <1>7 DEF TypeOK, owner
  <1>9. QED
    BY <1>1, <1>2, <1>6, <1>8, SlotsUntouched DEF DispatchInv

\* A restart takes up a slot that has sent all that was sent, and a polling task
\* for each attempt that was in flight.
LEMMA RestartStep ==
    ASSUME DispatchInv, Restart
    PROVE  DispatchInv'
  <1>1. TypeOK /\ SlotsAgree /\ WorkersInv
    BY DEF DispatchInv
  <1>2. PICK snapshot \in RestoredFrom :
           /\ hub' = snapshot
           /\ disk' = [disk EXCEPT !.ahead = snapshot # disk.newest]
           /\ Spawn(Recovered(snapshot), RecoveryPhase)
           /\ schedulers' \in {0, 1}
    BY DEF Restart
  <1>3. ~up /\ up' = TRUE /\ UNCHANGED <<now, owner, crashes>>
    BY DEF Restart
  <1>4. \/ snapshot = disk.newest /\ Restorable(disk.newest)
        \/ snapshot = disk.previous /\ Restorable(disk.previous) /\ ~Restorable(disk.newest)
    BY <1>2 DEF RestoredFrom
  <1>5. /\ disk'.newest = disk.newest /\ disk'.previous = disk.previous
        /\ disk'.ahead = (snapshot # disk.newest)
        /\ disk' \in [newest : Snapshot, previous : Snapshot, ahead : BOOLEAN]
    BY <1>1, <1>2 DEF TypeOK
  <1>6. Sent(op) \subseteq Sent(snapshot.operation)
    BY <1>1, <1>4 DEF SlotsAgree, Base, op
  <1>7. SlotsAgree'
    <2>1. Good(disk'.newest) /\ Good(disk'.previous) /\ hub' = Base'
      BY <1>1, <1>2, <1>4, <1>5 DEF SlotsAgree, Base
    <2>2. disk'.ahead =>
             Sent(disk'.previous.operation) \subseteq Sent(disk'.newest.operation)
      BY <1>1, <1>4, <1>5 DEF SlotsAgree
    <2>3. ~disk'.ahead /\ Restorable(disk'.previous) => Restorable(disk'.newest)
      BY <1>4, <1>5
    <2>4. NotBehind(disk'.newest, disk'.previous)
      BY <1>1, <1>5 DEF SlotsAgree
    <2>5. QED
      BY <2>1, <2>2, <2>3, <2>4 DEF SlotsAgree
  <1>8. Recovered(snapshot) = Flying(op') /\ Recovered(snapshot) \subseteq Devices
    BY <1>2 DEF Recovered, Flying, Those, InState, TargetIds, op
  <1>9. RecoveryPhase \in Phase /\ RecoveryPhase # "invoke"
    BY DEF RecoveryPhase, Phase
  <1>10. /\ inflight = {}
         /\ \A d \in Devices : Len(workers[d]) = IF d \in {} THEN 1 ELSE 0
    BY <1>1, <1>3 DEF WorkersInv, DownIsIdle
  <1>11. \A d \in Devices : invoked[d] > 0 => d \in Sent(op')
    BY <1>1, <1>2, <1>6 DEF WorkersInv, SentIsRecorded, op
  <1>12. SentIsRecorded /\ InvokedAtMostOnce
    BY <1>1 DEF WorkersInv
  <1>. HIDE DEF Phase
  <1>13. /\ WorkersInv'
         /\ workers' \in [Devices -> Seq(Phase)] /\ inflight' \subseteq Devices
    <2>1. {} \in SUBSET Devices /\ {} \cap Recovered(snapshot) = {}
          /\ Flying(op') = {} \cup Recovered(snapshot)
      BY <1>8
    <2>2. QED
      BY <1>1, <1>2, <1>3, <1>8, <1>9, <1>10, <1>11, <1>12, <2>1, Spawned DEF owner
  <1>14. hub' \in Snapshot
    BY <1>7 DEF Good, SlotsAgree, Base
  <1>15. TypeOK'
    BY <1>1, <1>2, <1>3, <1>5, <1>13, <1>14 DEF TypeOK, owner
  <1>16. QED
    BY <1>7, <1>13, <1>15 DEF DispatchInv

-----------------------------------------------------------------------------
(* The theorems.                                                             *)

\* The hub starts with nothing previewed, both slots alike.
LEMMA InitHolds ==
    ASSUME Init
    PROVE  DispatchInv
  <1>1. hub.observed \in [Devices -> Observed]
    BY CallAssumption DEF Init, Observed
  <1>2. hub \in Snapshot /\ hub.operation = NoOperation
    BY <1>1 DEF Init, Snapshot
  <1>3. disk = [newest |-> hub, previous |-> hub, ahead |-> FALSE]
    BY DEF Init
  <1>4. Restorable(hub)
    BY <1>2 DEF Restorable
  <1>5. SlotsAgree
    <2>1. NotBehind(hub, hub)
      BY <1>1, <1>2 DEF NotBehind, NoneBehind, Observed
    <2>2. QED
      BY <1>2, <1>3, <1>4, <2>1 DEF SlotsAgree, Base, Good
  <1>6. \A d \in Devices : workers[d] = <<>> /\ invoked[d] = 0
    BY DEF Init
  <1>7. Held(InFlight) = {}
    BY <1>2 DEF Held, op
  <1>8. WorkersInv
    BY <1>6, <1>7 DEF WorkersInv, AttemptsHaveOneWorker, DownIsIdle, SentIsRecorded,
                      InvokedAtMostOnce, Init
  <1>9. workers \in [Devices -> Seq(Phase)]
    BY DEF Init
  <1>10. TypeOK
    BY <1>2, <1>3, <1>9, CallAssumption DEF TypeOK, Init
  <1>11. QED
    BY <1>5, <1>8, <1>10 DEF DispatchInv

\* Types, the two slots, and the tasks: however handlers, workers, the scheduler,
\* failing persists, crashes and restarts interleave, the invariant stays.
THEOREM Invariance == Spec => []DispatchInv
  <1>1. Init => DispatchInv
    BY InitHolds
  <1>2. DispatchInv /\ [Next]_vars => DispatchInv'
    <2>. SUFFICES ASSUME DispatchInv, [Next]_vars PROVE DispatchInv'
      OBVIOUS
    <2>1. CASE UNCHANGED vars
      <3>1. UNCHANGED <<now, up, hub, disk, inflight, workers, schedulers, invoked,
                        delivered, executed, crashes>>
        BY <2>1 DEF vars
      <3>2. TypeOK' /\ WorkersInv' /\ SlotsAgree'
        BY <3>1, Unmoved, SlotsUntouched DEF TypeOK, DispatchInv, runtime
      <3>3. QED
        BY <3>2 DEF DispatchInv
    <2>2. CASE Tick
      BY <2>2, TickStep
    <2>3. ASSUME NEW d \in Devices, NEW revision \in 1..MaxIdentity[d], CheckIn(d, revision)
          PROVE  DispatchInv'
      BY <2>3, CheckInStep
    <2>4. CASE PreviewOperation
      BY <2>4, PreviewStep
    <2>5. CASE ExecuteOperation
      BY <2>5, ExecuteStep
    <2>6. ASSUME NEW d \in Devices, NEW i \in 1..Len(workers[d]), WorkerStep(d, i)
          PROVE  DispatchInv'
      <3>1. CASE \/ WorkerInvokes(d, i) \/ WorkerStartsPolling(d, i) \/ WorkerReceives(d, i)
                 \/ WorkerPollFails(d, i) \/ WorkerTimesOut(d, i)
        BY <3>1, WorkerAdvancesStep
      <3>2. CASE WorkerFindsSettled(d, i)
        BY <3>2, WorkerFindsSettledStep
      <3>3. ASSUME NEW known \in BOOLEAN, WorkerCommits(d, i, known) PROVE DispatchInv'
        BY <3>3, WorkerCommitsStep
      <3>4. QED
        BY <2>6, <3>1, <3>2, <3>3 DEF WorkerStep
    <2>7. CASE SchedulerIdle \/ SchedulerRefused
      BY <2>7, SchedulerReturnsStep
    <2>8. ASSUME NEW known \in BOOLEAN, SchedulerDispatches(known) \/ SchedulerCancels(known)
          PROVE  DispatchInv'
      BY <2>8, SchedulerDispatchesStep, SchedulerCancelsStep
    <2>9. CASE Crash
      BY <2>9, CrashStep
    <2>10. CASE Restart
      BY <2>10, RestartStep
    <2>11. QED
      BY <2>1, <2>2, <2>3, <2>4, <2>5, <2>6, <2>7, <2>8, <2>9, <2>10 DEF Next
  <1>3. QED
    BY <1>1, <1>2, PTL DEF Spec

\* Every variable keeps its type.
THEOREM TypeCorrect == Spec => []TypeOK
  <1>1. DispatchInv => TypeOK
    BY DEF DispatchInv
  <1>2. QED
    BY <1>1, Invariance, PTL

\* spawn_owner_work, schedule_recovered_owner_work and the failing persists: the
\* attempts in flight, the entries of inflight_kiosk_targets and the running
\* workers are the same.
THEOREM OneWorkerEach == Spec => []AttemptsHaveOneWorker
  <1>1. DispatchInv => AttemptsHaveOneWorker
    BY DEF DispatchInv, WorkersInv
  <1>2. QED
    BY <1>1, Invariance, PTL

\* Persist before send: whatever a headset has been sent is in the newest slot.
THEOREM SentStaysDurable == Spec => []SentIsDurable
  <1>1. DispatchInv => SentIsDurable
    <2>. SUFFICES ASSUME DispatchInv, NEW d \in Devices, invoked[d] > 0
                  PROVE  /\ disk.newest.operation # NoOperation
                         /\ d \in InState(disk.newest.operation, WasSent)
      BY DEF SentIsDurable
    <2>1. d \in Sent(op)
      BY DEF DispatchInv, WorkersInv, SentIsRecorded
    <2>2. Sent(op) \subseteq Sent(disk.newest.operation)
      BY DEF DispatchInv, SlotsAgree, Base, op
    <2>3. QED
      BY <2>1, <2>2 DEF Sent, Those
  <1>2. QED
    BY <1>1, Invariance, PTL

\* No crash, recovery, failing persist or second execution has a headset sent the
\* request of its attempt twice.
THEOREM InvokedOnce == Spec => []InvokedAtMostOnce
  <1>1. DispatchInv => InvokedAtMostOnce
    BY DEF DispatchInv, WorkersInv
  <1>2. QED
    BY <1>1, Invariance, PTL

\* The report of a cancellation before any owner request was sent is true.
THEOREM CancelledWasNeverSent == Spec => []CancelledNeverSent
  <1>1. DispatchInv => CancelledNeverSent
    <2>. SUFFICES ASSUME DispatchInv, NEW d \in Held({"Cancelled"})
                  PROVE  invoked[d] = 0
      BY DEF CancelledNeverSent
    <2>1. d \in Devices /\ d \notin Sent(op)
      BY DEF Held, Sent, Those, InState, WasSent, InFlight
    <2>2. invoked[d] \in Nat /\ ~(invoked[d] > 0)
      BY <2>1 DEF DispatchInv, TypeOK, WorkersInv, SentIsRecorded
    <2>3. QED
      BY <2>2
  <1>2. QED
    BY <1>1, Invariance, PTL

\* At any time the hub has at most max_parallelism targets in
\* inflight_kiosk_targets, those it recovered included.
WorkersWithinParallelism ==
    up /\ op # NoOperation => Cardinality(inflight) <= op.max_parallelism

\* The dispatches of a handler, of the scheduler and of a recovery together keep
\* to the parallelism of the preview.
THEOREM WorkersBounded == Spec => []WorkersWithinParallelism
  <1>1. DispatchInv => WorkersWithinParallelism
    <2>. SUFFICES ASSUME DispatchInv, up, op # NoOperation
                  PROVE  Cardinality(inflight) <= op.max_parallelism
      BY DEF WorkersWithinParallelism
    <2>1. inflight = InState(op, InFlight)
      BY DEF DispatchInv, TypeOK, WorkersInv, AttemptsHaveOneWorker, Held, InState,
             TargetIds
    <2>2. OperationValid(op)
      BY HubIsGood DEF DispatchInv
    <2>3. QED
      BY <2>1, <2>2 DEF OperationValid
  <1>2. QED
    BY <1>1, Invariance, PTL

\* A restart, from whichever slot, shows no target behind the state that was
\* visible before the crash; only one that has to fall back to the older slot may
\* have lost a check-in.
THEOREM VisibleStays == Spec => VisibleSurvives
  <1>. DEFINE Survived ==
                ~up /\ up' =>
                  /\ Restorable(disk.newest) => \A d \in Devices :
                        hub'.observed[d].evidence >= hub.observed[d].evidence
                  /\ op # NoOperation =>
                       /\ hub'.operation # NoOperation
                       /\ \A d \in TargetIds(op) :
                             Rank(hub'.operation.targets[d].lifecycle)
                                >= Rank(op.targets[d].lifecycle)
  <1>1. DispatchInv /\ [Next]_vars => [Survived]_vars
    <2>. SUFFICES ASSUME DispatchInv, Next, ~up, up'
                  PROVE  /\ Restorable(disk.newest) => \A d \in Devices :
                               hub'.observed[d].evidence >= hub.observed[d].evidence
                         /\ NoneBehind(hub'.operation, op)
      BY DEF NoneBehind
    <2>1. Restart
      BY DEF Next, Tick, CheckIn, PreviewOperation, ExecuteOperation, WorkerStep,
             WorkerInvokes, WorkerStartsPolling, WorkerReceives, WorkerPollFails,
             WorkerTimesOut, WorkerFindsSettled, WorkerCommits, WorkerAt, Advance,
             SchedulerIdle, SchedulerRefused, SchedulerReturns, SchedulerDispatches,
             SchedulerCancels, Crash
    <2>2. hub' = disk.newest
          \/ (~Restorable(disk.newest) /\ Restorable(disk.previous) /\ hub' = disk.previous)
      BY <2>1 DEF Restart, RestoredFrom
    <2>3. /\ hub = Base /\ NotBehind(disk.newest, disk.previous)
          /\ ~disk.ahead /\ Restorable(disk.previous) /\ ~Restorable(disk.newest) =>
                disk.previous.operation = disk.newest.operation
      BY DEF DispatchInv, SlotsAgree
    <2>4. NoneBehind(op, op)
      BY RankType DEF NoneBehind
    <2>5. \A d \in Devices : hub.observed[d].evidence \in Nat
      BY DEF DispatchInv, TypeOK, Snapshot, Observed
    <2>6. QED
      BY <2>2, <2>3, <2>4, <2>5 DEF NotBehind, Base, op
  <1>2. QED
    BY <1>1, Invariance, PTL DEF Spec, VisibleSurvives

=============================================================================
