---------------------------- MODULE WindowsHotspot ----------------------------
(***************************************************************************)
(* The Windows hotspot of the hub's own machine: the operation ledger and  *)
(* the observed ownership of FleetHub                                      *)
(* (crates/fleet-hub/src/windows_hotspot.rs), and the handlers, workers    *)
(* and start of the local hub that drive it through the Hostess provider.  *)
(*                                                                         *)
(* There is one hotspot.  An operation carries a lease on it that ends     *)
(* with its preview.  A handler works on a copy of the hub under the lock, *)
(* persists it, adopts it and then hands the provider's request to a       *)
(* worker; the worker answers outside the lock.  Handlers read the clock   *)
(* before they wait for the lock, so their time may lie Lag behind.        *)
(*                                                                         *)
(* The Manifold authority may refuse a dispatch, which leaves everything   *)
(* as it was; the provider may answer anything its adapter lets through.   *)
(***************************************************************************)
EXTENDS Integers, FiniteSets

CONSTANTS
    Operations,      \* as many as MAX_WINDOWS_HOTSPOT_OPERATIONS
    Generations,     \* ownership generations the provider issues
    NoGeneration, NoRequest, NoReceipt, NoOperation,
    Lifetime,        \* WINDOWS_HOTSPOT_PREVIEW_LIFETIME_MS
    Lag,             \* bound of the model on the wait for the lock
    MaxTime          \* bound of the model on the clock

ASSUME TimesAssumption == Lifetime \in Nat \ {0} /\ Lag \in Nat /\ MaxTime \in Nat
ASSUME NoGenerationAssumption == NoGeneration \notin Generations

Time == 0..MaxTime
Actions == {"status", "start", "ensure", "stop"}

\* What the hub believes of the hotspot; the generation is Fleet's own.
Unknown == [owner |-> "unknown", generation |-> NoGeneration]
Nobody == [owner |-> "none", generation |-> NoGeneration]
External == [owner |-> "external", generation |-> NoGeneration]
Fleet(g) == [owner |-> "fleet", generation |-> g]
Observation == {Unknown, Nobody, External} \cup {Fleet(g) : g \in Generations}

Request ==
    [operation : Operations, action : Actions, at : Time,
     generation : Generations \cup {NoGeneration}]

\* Names, owners and resource identifiers are abstracted; "other" stands for
\* every reason that is not compared.
Receipt ==
    [verified : BOOLEAN, state : {"on", "off", "other"},
     generation : Generations \cup {NoGeneration},
     reason : {"external", "prior_boot", "restarted", "other"}]

\* Of a receipt that was applied only the generation it verified is kept here.
Operation ==
    [action : Actions, expires : 0..(MaxTime + Lifetime),
     previewed : Generations \cup {NoGeneration},
     lifecycle : {"proposed", "rejected", "dispatched", "applied", "failed", "expired"},
     request : Request \cup {NoRequest},
     receipt : Generations \cup {NoGeneration, NoReceipt}]

ASSUME NothingAssumption ==
    /\ NoRequest \notin Request /\ NoOperation \notin Operation
    /\ NoReceipt \notin Receipt \cup Generations \cup {NoGeneration}

VARIABLES
    now,
    up,
    hub,             \* runtime.hub: operations and observation
    disk,            \* the newest durable state of the same
    worker,          \* inflight operations: the request its worker was given
    sent             \* history: requests handed to the provider

vars == <<now, up, hub, disk, worker, sent>>

Hub == [operations : [Operations -> Operation \cup {NoOperation}],
        observation : Observation]

Known(h, o) == h.operations[o] # NoOperation
InState(h, states) ==
    {o \in Operations : Known(h, o) /\ h.operations[o].lifecycle \in states}
InFlight == {o \in Operations : worker[o] # NoRequest}

-----------------------------------------------------------------------------
(* The ledger.                                                               *)

\* has_active_hotspot_lease.  Accepted operations are dispatched in the same
\* critical section, so no stored operation is Accepted or Running.
Leased(h, except, t) ==
    \E o \in InState(h, {"dispatched"}) \ {except} : h.operations[o].expires >= t

\* The eligibility of an action on what is observed.
Rightful(h, a) ==
    \/ a = "status"
    \/ a \in {"start", "ensure"} /\ h.observation.owner # "external"
    \/ a = "stop" /\ h.observation.owner = "fleet"

\* preview_windows_hotspot
Previewed(h, o, a, t) ==
    [h EXCEPT !.operations[o] =
        [action |-> a, expires |-> t + Lifetime, previewed |-> h.observation.generation,
         lifecycle |-> IF ~Leased(h, o, t) /\ Rightful(h, a) THEN "proposed" ELSE "rejected",
         request |-> NoRequest, receipt |-> NoReceipt]]

\* mutant: recovery forgets what was already dispatched
RecoveredProposals(h, t) ==
    [h EXCEPT !.operations = [o \in Operations |->
        IF o \in InState(h, {"proposed"}) /\ h.operations[o].expires < t
        THEN [h.operations[o] EXCEPT !.lifecycle = "expired"]
        ELSE h.operations[o]]]

\* recover_windows_hotspot
Recovered(h, t) ==
    [h EXCEPT !.operations = [o \in Operations |->
        IF o \in InState(h, {"proposed", "dispatched"}) /\ h.operations[o].expires < t
        THEN [h.operations[o] EXCEPT !.lifecycle = "expired"]
        ELSE h.operations[o]]]

\* confirm_windows_hotspot and prepare_windows_hotspot_invocation: what the
\* request of an operation says.
MayDispatch(h, o, t) ==
    LET p == h.operations[o] IN
    /\ o \in InState(h, {"proposed"}) /\ t <= p.expires
    /\ ~Leased(h, o, t)
    /\ p.action \in {"ensure", "stop"} => h.observation.generation = p.previewed
    /\ p.action = "stop" => p.previewed # NoGeneration

RequestOf(h, o, t) ==
    [operation |-> o, action |-> h.operations[o].action, at |-> t,
     generation |-> IF h.operations[o].action \in {"ensure", "stop"}
                    THEN h.observation.generation ELSE NoGeneration]

Dispatched(h, o, t) ==
    [h EXCEPT !.operations[o].lifecycle = "dispatched",
              !.operations[o].request = RequestOf(h, o, t)]

\* A verified receipt must say what its action means.
Meant(request, receipt) ==
    /\ request.action \in {"start", "ensure"} =>
          receipt.state = "on" /\ receipt.generation # NoGeneration
    /\ request.action = "ensure" =>
          request.generation \in {NoGeneration, receipt.generation}
    /\ request.action = "stop" =>
          /\ receipt.state = "off" /\ receipt.generation = NoGeneration
          /\ request.generation # NoGeneration

\* mutant: whatever is on and names a generation is taken for Fleet's own
AdoptsWhatIsOn(h, request, receipt) ==
    CASE receipt.verified /\ receipt.state = "on" /\ receipt.generation # NoGeneration ->
            Fleet(receipt.generation)
      [] ~(receipt.verified /\ receipt.state = "on" /\ receipt.generation # NoGeneration) ->
            h.observation

\* What a receipt tells of the hotspot.  A status that names no generation, or
\* Fleet's own, leaves Fleet's ownership as it is.
Observed(h, request, receipt) ==
    LET prior == h.observation
        own == prior.owner = "fleet"
        verified(actions, state) ==
            receipt.verified /\ request.action \in actions /\ receipt.state = state
    IN
    IF verified({"start", "ensure"}, "on") THEN Fleet(receipt.generation)
    ELSE IF verified({"status"}, "on")
    THEN IF own /\ receipt.generation \in {NoGeneration, prior.generation}
         THEN prior ELSE External
    ELSE IF verified({"stop", "status"}, "off") THEN Nobody
    ELSE IF receipt.state = "on"
    THEN IF own /\ receipt.reason = "other" THEN prior ELSE External
    ELSE IF receipt.state = "off" /\ receipt.reason \in {"restarted", "prior_boot"}
    THEN Nobody
    ELSE IF receipt.reason = "restarted" THEN Unknown
    ELSE prior

\* mutant: a verified receipt is believed whatever it says
AcceptsAny(h, o, receipt) == o \in InState(h, {"dispatched"})

\* apply_windows_hotspot_receipt
Accepts(h, o, receipt) ==
    /\ o \in InState(h, {"dispatched"})
    /\ receipt.verified => Meant(h.operations[o].request, receipt)

Settled(h, o, receipt) ==
    [h EXCEPT !.operations[o].lifecycle = IF receipt.verified THEN "applied" ELSE "failed",
              !.operations[o].receipt =
                  IF receipt.verified THEN receipt.generation ELSE NoGeneration,
              !.observation = Observed(h, h.operations[o].request, receipt)]

\* mutant: an operation fails whatever became of it
FailableAlways(h, o) == Known(h, o)

\* fail_windows_hotspot_operation
Failable(h, o) == o \in InState(h, {"dispatched"})
Failed(h, o) == [h EXCEPT !.operations[o].lifecycle = "failed"]

\* What FleetHub::restore demands of these operations and
\* WindowsHotspotOperation::validate of each.
ValidOperation(p) ==
    /\ p.lifecycle = "dispatched" => p.request # NoRequest
    /\ p.request # NoRequest =>
          /\ p.request.action = p.action
          /\ p.action = "stop" => p.request.generation # NoGeneration
          /\ p.action \in {"status", "start"} => p.request.generation = NoGeneration
    /\ p.receipt # NoReceipt => p.request # NoRequest

Restorable(h) ==
    /\ Cardinality(InState(h, {"dispatched"})) <= 1
    /\ \A o \in Operations : Known(h, o) => ValidOperation(h.operations[o])

-----------------------------------------------------------------------------
(* The local hub.                                                            *)

\* What a persist may come to: done, published though it reports a failure, or
\* not written.
Outcomes == {"done", "published", "failed"}

Persist(candidate, outcome) ==
    /\ disk' = IF outcome = "failed" THEN disk ELSE candidate
    /\ hub' = IF outcome = "done" THEN candidate ELSE hub

Reading == {t \in Time : t <= now /\ t + Lag >= now}

\* mutant: the request is handed over whether or not it could be persisted
SendAnyway(o, request, outcome) ==
    /\ worker' = [worker EXCEPT ![o] = request]
    /\ sent' = sent \cup {request}

\* spawn_windows_hotspot_owner_work, once the dispatch is durable.
Send(o, request, outcome) ==
    IF outcome = "done"
    THEN worker' = [worker EXCEPT ![o] = request] /\ sent' = sent \cup {request}
    ELSE UNCHANGED <<worker, sent>>

\* The preview handler; an unexpired proposal of the same action is answered again.
Preview(o, a, t, outcome) ==
    /\ up /\ ~Known(hub, o)
    /\ ~\E p \in InState(hub, {"proposed"}) :
          hub.operations[p].expires >= t /\ hub.operations[p].action = a
    /\ Persist(Previewed(hub, o, a, t), outcome)
    /\ UNCHANGED <<now, up, worker, sent>>

\* The execute handler: a proposal is confirmed and dispatched; an operation
\* that is dispatched and has lost its worker is handed over again as it is.
Execute(o, t, outcome) ==
    LET h == Recovered(hub, t)
        candidate == IF MayDispatch(h, o, t) THEN Dispatched(h, o, t) ELSE h
    IN
    /\ up /\ o \notin InFlight
    /\ o \in InState(candidate, {"dispatched"})
    /\ Persist(candidate, outcome)
    /\ Send(o, candidate.operations[o].request, outcome)
    /\ UNCHANGED <<now, up>>

\* The worker ends: its receipt is applied, or the operation fails; what the
\* ledger refuses, as that of an expired operation, or cannot persist is lost.
Answer(o, receipt, outcome) ==
    /\ up /\ o \in InFlight
    /\ worker' = [worker EXCEPT ![o] = NoRequest]
    /\ IF receipt # NoReceipt /\ Accepts(hub, o, receipt)
       THEN Persist(Settled(hub, o, receipt), outcome)
       ELSE IF Failable(hub, o) THEN Persist(Failed(hub, o), outcome)
       ELSE UNCHANGED <<hub, disk>>
    /\ UNCHANGED <<now, up, sent>>

Tick == now < MaxTime /\ now' = now + 1 /\ UNCHANGED <<up, hub, disk, worker, sent>>

\* The process dies and its workers with it.
Crash ==
    /\ up /\ up' = FALSE
    /\ worker' = [o \in Operations |-> NoRequest]
    /\ UNCHANGED <<now, hub, disk, sent>>

\* The start: FleetHub::restore and schedule_recovered_windows_hotspot_work,
\* without which nothing is served.
Restart ==
    LET h == Recovered(disk, now)
        resumed == {o \in InState(h, {"dispatched"}) : h.operations[o].expires >= now}
    IN
    /\ ~up /\ up' = TRUE
    /\ Restorable(disk)
    /\ hub' = h /\ disk' = h
    /\ worker' = [o \in Operations |->
                     IF o \in resumed THEN h.operations[o].request ELSE NoRequest]
    /\ sent' = sent \cup {h.operations[o].request : o \in resumed}
    /\ UNCHANGED now

Init ==
    /\ now = 0 /\ up = TRUE
    /\ hub = [operations |-> [o \in Operations |-> NoOperation], observation |-> Unknown]
    /\ disk = hub
    /\ worker = [o \in Operations |-> NoRequest]
    /\ sent = {}

Next ==
    \/ \E o \in Operations, a \in Actions, t \in Reading, c \in Outcomes : Preview(o, a, t, c)
    \/ \E o \in Operations, t \in Reading, c \in Outcomes : Execute(o, t, c)
    \/ \E o \in Operations, r \in Receipt \cup {NoReceipt}, c \in Outcomes : Answer(o, r, c)
    \/ Tick
    \/ Crash
    \/ Restart

Spec == Init /\ [][Next]_vars

-----------------------------------------------------------------------------
(* Properties.                                                               *)

\* Every variable has its type.
TypeOK ==
    /\ now \in Time /\ up \in BOOLEAN
    /\ hub \in Hub /\ disk \in Hub
    /\ worker \in [Operations -> Request \cup {NoRequest}]
    /\ sent \subseteq Request

\* One operation at a time holds the hotspot: the ledger, in memory and on disk,
\* is one that the next start accepts, which tolerates a single operation under
\* way whether or not its lease has ended, and of the workers that call the
\* provider at most one has a lease that has not ended.
OneHolder ==
    /\ Restorable(hub) /\ Restorable(disk)
    /\ \A o, p \in InFlight :
          hub.operations[o].expires >= now /\ hub.operations[p].expires >= now => o = p

\* Whatever the provider was asked on behalf of an operation is the request the
\* durable state names for it, so a repeated execution, a persist that fails and
\* a restart never ask it for something else ("retains its exact request").
SentIsDurable ==
    \A r \in sent :
        Known(disk, r.operation) /\ disk.operations[r.operation].request = r

\* Fleet believes the hotspot its own, and may stop it, only with a generation
\* that a verified start or ensure of its own reported: neither a status, nor a
\* failure, nor a lost answer makes it adopt a hotspot somebody else started.
OwnershipIsVerified ==
    \A h \in {hub, disk} : h.observation.owner = "fleet" =>
        \E o \in InState(h, {"applied"}) :
            /\ h.operations[o].action \in {"start", "ensure"}
            /\ h.operations[o].receipt = h.observation.generation

\* An operation that is settled stays so, over late answers and restarts.
SettledForGood ==
    [][\A o \in InState(hub, {"rejected", "applied", "failed", "expired"}) :
          hub'.operations[o] = hub.operations[o]]_vars
=============================================================================
