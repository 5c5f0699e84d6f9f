------------------------- MODULE WindowsHotspot_proofs -------------------------
(***************************************************************************)
(* Proofs about WindowsHotspot for every set of operations and every lease.*)
(*                                                                         *)
(* The argument: whatever a handler, a worker or a start makes of a sound  *)
(* ledger is a sound ledger that keeps what was settled and what was       *)
(* asked for (Moved).  Memory and disk are each such a ledger, and what    *)
(* memory calls settled the disk does too, so a restart is a move as well. *)
(***************************************************************************)
EXTENDS WindowsHotspot, FiniteSetTheorems, TLAPS

Final == {"rejected", "applied", "failed", "expired"}

\* An operation and the request made for it; nothing is asked for a proposal.
Sound(o, p) ==
    /\ ValidOperation(p)
    /\ p.request # NoRequest =>
          p.request.operation = o /\ p.lifecycle \notin {"proposed", "rejected"}

Proven(h) ==
    h.observation.owner = "fleet" =>
        \E o \in InState(h, {"applied"}) :
            /\ h.operations[o].action \in {"start", "ensure"}
            /\ h.operations[o].receipt = h.observation.generation

\* A sound ledger: one operation under way, whether or not its lease has ended.
SoundLedger(h) ==
    /\ h \in Hub
    /\ \A o, p \in InState(h, {"dispatched"}) : o = p
    /\ \A o \in Operations : Known(h, o) => Sound(o, h.operations[o])
    /\ Proven(h)

\* The ledger g, which a call at time t made of h, is sound and keeps what h has;
\* of what was under way in h only the operation `but` may have been concluded
\* before its lease ended.
Moved(h, g, but, t) ==
    /\ SoundLedger(g)
    /\ \A o \in InState(h, Final) : g.operations[o] = h.operations[o]
    /\ \A o \in Operations : Known(h, o) =>
          /\ Known(g, o)
          /\ g.operations[o].expires = h.operations[o].expires
          /\ h.operations[o].request # NoRequest =>
                g.operations[o].request = h.operations[o].request
    /\ \A o \in InState(h, {"dispatched"}) \ {but} :
          o \in InState(g, {"dispatched"}) \/ g.operations[o].expires < t

\* A worker belongs to an operation that is under way or whose lease has ended.
WorkersAreKnown ==
    \A o \in InFlight :
        /\ Known(hub, o)
        /\ o \in InState(hub, {"dispatched"}) \/ hub.operations[o].expires < now

\* What was asked is what memory and disk say was asked.
AskedIsKept ==
    \A r \in sent, h \in {hub, disk} :
        Known(h, r.operation) /\ h.operations[r.operation].request = r

SettledIsOnDisk == \A o \in InState(hub, Final) : disk.operations[o] = hub.operations[o]

\* The inductive invariant.
IInv ==
    /\ TypeOK
    /\ SoundLedger(hub) /\ SoundLedger(disk)
    /\ WorkersAreKnown
    /\ AskedIsKept
    /\ SettledIsOnDisk

-----------------------------------------------------------------------------
(* The calls of the ledger move it.                                          *)

\* One operation is given a new record, and the hotspot is seen as b.
Changed(h, o, p, b) == [operations |-> [h.operations EXCEPT ![o] = p], observation |-> b]

\* No other operation changes.
LEMMA OneChanged ==
    ASSUME NEW h \in Hub, NEW o \in Operations, NEW p \in Operation, NEW b \in Observation
    PROVE  /\ Changed(h, o, p, b) \in Hub
           /\ Changed(h, o, p, b).operations[o] = p /\ Known(Changed(h, o, p, b), o)
           /\ \A q \in Operations \ {o} :
                 Changed(h, o, p, b).operations[q] = h.operations[q]
           /\ Changed(h, o, p, b).observation = b
BY NothingAssumption DEF Hub, Known, Changed

\* preview_windows_hotspot adds an operation that holds nothing.
LEMMA PreviewMoves ==
    ASSUME NEW h, SoundLedger(h), NEW o \in Operations, ~Known(h, o),
           NEW a \in Actions, NEW t \in Time
    PROVE  Moved(h, Previewed(h, o, a, t), o, t)
<1> DEFINE p == [action |-> a, expires |-> t + Lifetime,
                 previewed |-> h.observation.generation,
                 lifecycle |-> IF ~Leased(h, o, t) /\ Rightful(h, a)
                               THEN "proposed" ELSE "rejected",
                 request |-> NoRequest, receipt |-> NoReceipt]
           g == Previewed(h, o, a, t)
<1>1. h \in Hub
  BY DEF SoundLedger
<1>2. h.observation.generation \in Generations \cup {NoGeneration}
  BY <1>1 DEF Hub, Observation, Unknown, Nobody, External, Fleet
<1>3. p \in Operation
  BY <1>2, TimesAssumption DEF Operation, Time
<1>4. g = Changed(h, o, p, h.observation)
  BY <1>1 DEF Previewed, Hub, Changed
<1>5. h.observation \in Observation
  BY <1>1 DEF Hub
<1> HIDE DEF p, g
<1>6. /\ g \in Hub
      /\ g.operations[o] = p /\ Known(g, o)
      /\ \A q \in Operations \ {o} : g.operations[q] = h.operations[q]
      /\ g.observation = h.observation
  BY <1>1, <1>3, <1>4, <1>5, OneChanged
<1>7. p.lifecycle \in {"proposed", "rejected"} /\ p.request = NoRequest /\ p.receipt = NoReceipt
  BY DEF p
<1>8. \A S : o \notin InState(h, S)
  BY DEF InState
<1>9. SoundLedger(g)
  <2>1. \A q, r \in InState(g, {"dispatched"}) : q = r
    BY <1>6, <1>7 DEF SoundLedger, InState, Known
  <2>2. \A q \in Operations : Known(g, q) => Sound(q, g.operations[q])
    BY <1>6, <1>7 DEF SoundLedger, Sound, ValidOperation, Known
  <2>3. Proven(g)
    <3> SUFFICES ASSUME h.observation.owner = "fleet"
                 PROVE  \E q \in InState(g, {"applied"}) :
                            /\ g.operations[q].action \in {"start", "ensure"}
                            /\ g.operations[q].receipt = h.observation.generation
      BY <1>6 DEF Proven
    <3>1. PICK q \in InState(h, {"applied"}) :
              /\ h.operations[q].action \in {"start", "ensure"}
              /\ h.operations[q].receipt = h.observation.generation
      BY DEF SoundLedger, Proven
    <3>2. q \in Operations \ {o}
      BY <1>8 DEF InState
    <3> QED
      BY <1>6, <3>1, <3>2 DEF InState, Known
  <2> QED
    BY <1>6, <2>1, <2>2, <2>3 DEF SoundLedger
<1> QED
  BY <1>6, <1>8, <1>9 DEF Moved, g, Known, InState

\* recover_windows_hotspot ends leases that are over, and nothing else.
LEMMA RecoveryMoves ==
    ASSUME NEW h, SoundLedger(h), NEW o, NEW t \in Time
    PROVE  /\ Moved(h, Recovered(h, t), o, t)
           /\ \A q \in InState(Recovered(h, t), {"dispatched"}) :
                 Recovered(h, t).operations[q].expires >= t
           /\ Recovered(h, t).observation = h.observation
<1> DEFINE g == Recovered(h, t)
           Over == {q \in InState(h, {"proposed", "dispatched"}) : h.operations[q].expires < t}
<1>1. h \in Hub
  BY DEF SoundLedger
<1>2. \A q \in Operations : Known(h, q) => h.operations[q] \in Operation
  BY <1>1 DEF Hub, Known
<1>3. /\ g = [operations |-> [q \in Operations |->
                 IF q \in Over THEN [h.operations[q] EXCEPT !.lifecycle = "expired"]
                 ELSE h.operations[q]],
              observation |-> h.observation]
  BY <1>1 DEF Recovered, Hub
<1>4. \A q \in Operations :
          g.operations[q] = IF q \in Over THEN [h.operations[q] EXCEPT !.lifecycle = "expired"]
                            ELSE h.operations[q]
  BY <1>3
<1>5. \A q \in Over :
          /\ q \in Operations /\ Known(h, q) /\ g.operations[q] \in Operation
          /\ g.operations[q].lifecycle = "expired"
          /\ g.operations[q].expires = h.operations[q].expires
          /\ g.operations[q].request = h.operations[q].request
          /\ g.operations[q].receipt = h.operations[q].receipt
          /\ g.operations[q].action = h.operations[q].action
  <2> SUFFICES ASSUME NEW q \in Over
               PROVE  /\ q \in Operations /\ Known(h, q) /\ g.operations[q] \in Operation
                      /\ g.operations[q].lifecycle = "expired"
                      /\ g.operations[q].expires = h.operations[q].expires
                      /\ g.operations[q].request = h.operations[q].request
                      /\ g.operations[q].receipt = h.operations[q].receipt
                      /\ g.operations[q].action = h.operations[q].action
    OBVIOUS
  <2>1. q \in Operations /\ Known(h, q)
    BY DEF InState
  <2>2. h.operations[q] \in Operation
    BY <1>2, <2>1
  <2>3. g.operations[q] = [h.operations[q] EXCEPT !.lifecycle = "expired"]
    BY <1>4, <2>1
  <2> HIDE DEF g, Over
  <2> QED
    BY <2>1, <2>2, <2>3 DEF Operation
<1>6. g \in Hub /\ g.observation = h.observation
  <2>1. \A q \in Operations : g.operations[q] \in Operation \cup {NoOperation}
    BY <1>1, <1>4, <1>5 DEF Hub
  <2>2. DOMAIN g.operations = Operations /\ g.observation = h.observation
    BY <1>3
  <2>3. g.operations \in [Operations -> Operation \cup {NoOperation}]
    BY <1>3, <1>4, <2>1
  <2> QED
    BY <1>1, <1>3, <2>2, <2>3 DEF Hub
<1> HIDE DEF g
<1>7. \A q \in Operations : Known(g, q) <=> Known(h, q)
  BY <1>4, <1>5, NothingAssumption DEF Known
<1>8. \A q \in Operations \ Over : g.operations[q] = h.operations[q]
  BY <1>4
<1>9. /\ InState(g, {"dispatched"}) = InState(h, {"dispatched"}) \ Over
      /\ InState(h, {"applied"}) \subseteq InState(g, {"applied"}) \ Over
      /\ InState(h, Final) \cap Over = {}
  BY <1>5, <1>7, <1>8 DEF InState, Final
<1>10. SoundLedger(g)
  <2>1. \A q \in Operations : Known(g, q) => Sound(q, g.operations[q])
    <3>1. ASSUME NEW q \in Over PROVE Sound(q, g.operations[q])
      BY <1>5, <3>1 DEF SoundLedger, Sound, ValidOperation, InState
    <3> QED
      BY <1>7, <1>8, <3>1 DEF SoundLedger
  <2>2. Proven(g)
    BY <1>6, <1>8, <1>9 DEF SoundLedger, Proven, InState
  <2> QED
    BY <1>6, <1>9, <2>1, <2>2 DEF SoundLedger
<1>11. Moved(h, g, o, t)
  <2>1. \A q \in InState(h, Final) : g.operations[q] = h.operations[q]
    BY <1>8, <1>9 DEF InState
  <2>2. \A q \in Operations : Known(h, q) =>
            /\ Known(g, q) /\ g.operations[q].expires = h.operations[q].expires
            /\ g.operations[q].request = h.operations[q].request
    BY <1>5, <1>7, <1>8
  <2>3. \A q \in InState(h, {"dispatched"}) :
            q \in InState(g, {"dispatched"}) \/ g.operations[q].expires < t
    BY <1>5, <1>9
  <2> QED
    BY <1>10, <2>1, <2>2, <2>3 DEF Moved
<1>12. \A q \in InState(g, {"dispatched"}) : g.operations[q].expires >= t
  <2>1. \A q \in Operations : Known(h, q) => h.operations[q].expires \in Int
    BY <1>2, TimesAssumption DEF Operation
  <2> QED
    BY <1>8, <1>9, <2>1, TimesAssumption DEF InState, Time
<1> QED
  BY <1>6, <1>11, <1>12 DEF g

\* prepare_windows_hotspot_invocation: no other lease is running, so with the
\* leases that are over ended no other operation is under way.
LEMMA DispatchMoves ==
    ASSUME NEW h, SoundLedger(h), NEW o \in Operations, NEW t \in Time, MayDispatch(h, o, t),
           \A q \in InState(h, {"dispatched"}) : h.operations[q].expires >= t
    PROVE  Moved(h, Dispatched(h, o, t), o, t)
<1> DEFINE r == RequestOf(h, o, t)
           p == [h.operations[o] EXCEPT !.lifecycle = "dispatched", !.request = r]
           g == Dispatched(h, o, t)
<1>1. h \in Hub /\ h.observation \in Observation
  BY DEF SoundLedger, Hub
<1>2. /\ Known(h, o) /\ h.operations[o] \in Operation
      /\ h.operations[o].lifecycle = "proposed"
  BY <1>1 DEF MayDispatch, InState, Hub, Known
<1>3. h.observation.generation \in Generations \cup {NoGeneration}
  BY <1>1 DEF Observation, Unknown, Nobody, External, Fleet
<1>4. r \in Request /\ r.operation = o /\ r.action = h.operations[o].action
  BY <1>2, <1>3 DEF RequestOf, Request, Operation
<1>5. /\ p \in Operation /\ p.lifecycle = "dispatched" /\ p.request = r
      /\ p.expires = h.operations[o].expires /\ p.action = h.operations[o].action
  BY <1>2, <1>4 DEF Operation
<1>6. g = Changed(h, o, p, h.observation)
  <2> DEFINE f == [h.operations EXCEPT ![o].lifecycle = "dispatched"]
  <2>1. [h EXCEPT !.operations[o].lifecycle = "dispatched"] = [operations |-> f, observation |-> h.observation]
    BY <1>1 DEF Hub
  <2>2. [f EXCEPT ![o].request = r] = [h.operations EXCEPT ![o] = p]
    BY <1>1, <1>2 DEF Hub, Operation
  <2>3. g = [[operations |-> f, observation |-> h.observation]
                EXCEPT !.operations[o].request = r]
    BY <2>1 DEF Dispatched
  <2> HIDE DEF f, g, p
  <2> QED
    BY <2>2, <2>3 DEF Changed
<1>7. /\ p.action = "stop" => r.generation # NoGeneration
      /\ p.action \in {"status", "start"} => r.generation = NoGeneration
  BY <1>5 DEF RequestOf, MayDispatch
<1>8. h.operations[o].request = NoRequest
  BY <1>2 DEF SoundLedger, Sound
<1>9. InState(h, {"dispatched"}) \subseteq {o}
  BY DEF MayDispatch, Leased
<1> HIDE DEF r, p, g
<1>10. /\ g \in Hub
       /\ g.operations[o] = p /\ Known(g, o)
       /\ \A q \in Operations \ {o} : g.operations[q] = h.operations[q]
       /\ g.observation = h.observation
  BY <1>1, <1>5, <1>6, OneChanged
<1>11. SoundLedger(g)
  <2>1. InState(g, {"dispatched"}) \subseteq {o}
    BY <1>9, <1>10 DEF InState, Known
  <2>2. Sound(o, p)
    BY <1>4, <1>5, <1>7, NothingAssumption DEF Sound, ValidOperation
  <2>3. \A q \in Operations : Known(g, q) => Sound(q, g.operations[q])
    BY <1>10, <2>2 DEF SoundLedger, Known
  <2>4. Proven(g)
    BY <1>2, <1>10 DEF SoundLedger, Proven, InState, Known
  <2> QED
    BY <1>10, <2>1, <2>3, <2>4 DEF SoundLedger
<1>12. \A q \in InState(h, Final) : q \in Operations \ {o}
  BY <1>2 DEF InState, Final
<1> QED
  BY <1>5, <1>8, <1>9, <1>10, <1>11, <1>12 DEF Moved, g, Known, InState

\* A move and another make one.
LEMMA MovesCompose ==
    ASSUME NEW h, NEW k, NEW g, NEW o \in Operations, NEW t,
           Moved(h, k, o, t), Moved(k, g, o, t)
    PROVE  Moved(h, g, o, t)
<1>1. \A q \in InState(h, Final) : g.operations[q] = h.operations[q]
  <2> SUFFICES ASSUME NEW q \in InState(h, Final) PROVE g.operations[q] = h.operations[q]
    OBVIOUS
  <2>1. q \in InState(k, Final) /\ k.operations[q] = h.operations[q]
    BY DEF Moved, InState, Known
  <2> QED
    BY <2>1 DEF Moved
<1>2. \A q \in Operations : Known(h, q) =>
          /\ Known(g, q)
          /\ g.operations[q].expires = h.operations[q].expires
          /\ h.operations[q].request # NoRequest =>
                g.operations[q].request = h.operations[q].request
  BY DEF Moved
<1>3. \A q \in InState(h, {"dispatched"}) \ {o} :
          q \in InState(g, {"dispatched"}) \/ g.operations[q].expires < t
  <2> SUFFICES ASSUME NEW q \in InState(h, {"dispatched"}) \ {o}
               PROVE  q \in InState(g, {"dispatched"}) \/ g.operations[q].expires < t
    OBVIOUS
  <2>1. CASE q \in InState(k, {"dispatched"})
    BY <2>1 DEF Moved
  <2>2. CASE k.operations[q].expires < t
    BY <2>2 DEF Moved, InState
  <2> QED
    BY <2>1, <2>2 DEF Moved
<1> QED
  BY <1>1, <1>2, <1>3 DEF Moved

\* The execute handler: recovery, then the dispatch if it may be.
LEMMA ExecutionMoves ==
    ASSUME NEW h, SoundLedger(h), NEW o \in Operations, NEW t \in Time
    PROVE  LET k == Recovered(h, t) IN
           Moved(h, IF MayDispatch(k, o, t) THEN Dispatched(k, o, t) ELSE k, o, t)
<1> DEFINE k == Recovered(h, t)
<1>1. /\ Moved(h, k, o, t)
      /\ \A q \in InState(k, {"dispatched"}) : k.operations[q].expires >= t
  BY RecoveryMoves
<1>2. SoundLedger(k)
  BY <1>1 DEF Moved
<1> HIDE DEF k
<1>3. ASSUME MayDispatch(k, o, t) PROVE Moved(h, Dispatched(k, o, t), o, t)
  <2>1. Moved(k, Dispatched(k, o, t), o, t)
    BY <1>1, <1>2, <1>3, DispatchMoves
  <2> QED
    BY <1>1, <2>1, MovesCompose
<1> QED
  BY <1>1, <1>3 DEF k

\* apply_windows_hotspot_receipt.  Ownership comes from the receipt of this
\* operation, or was there before.
LEMMA SettlementMoves ==
    ASSUME NEW h, SoundLedger(h), NEW o \in Operations, NEW t,
           NEW receipt \in Receipt, Accepts(h, o, receipt)
    PROVE  Moved(h, Settled(h, o, receipt), o, t)
<1> DEFINE kept == IF receipt.verified THEN receipt.generation ELSE NoGeneration
           to == IF receipt.verified THEN "applied" ELSE "failed"
           p == [h.operations[o] EXCEPT !.lifecycle = to, !.receipt = kept]
           b == Observed(h, h.operations[o].request, receipt)
           g == Settled(h, o, receipt)
<1>1. h \in Hub /\ h.observation \in Observation
  BY DEF SoundLedger, Hub
<1>2. /\ Known(h, o) /\ h.operations[o] \in Operation
      /\ h.operations[o].lifecycle = "dispatched"
  BY <1>1 DEF Accepts, InState, Hub, Known
<1>3. kept \in Generations \cup {NoGeneration}
  BY DEF Receipt
<1>4. /\ p \in Operation /\ p.lifecycle = to /\ p.receipt = kept
      /\ p.expires = h.operations[o].expires /\ p.action = h.operations[o].action
      /\ p.request = h.operations[o].request
  BY <1>2, <1>3 DEF Operation
<1>5. g = Changed(h, o, p, b)
  <2> DEFINE f == [h.operations EXCEPT ![o].lifecycle = to]
  <2>1. [h EXCEPT !.operations[o].lifecycle = to] = [operations |-> f, observation |-> h.observation]
    BY <1>1 DEF Hub
  <2>2. [f EXCEPT ![o].receipt = kept] = [h.operations EXCEPT ![o] = p]
    BY <1>1, <1>2 DEF Hub, Operation
  <2>3. g = [[operations |-> f, observation |-> h.observation]
                EXCEPT !.operations[o].receipt = kept, !.observation = b]
    BY <2>1 DEF Settled
  <2> HIDE DEF f, g, p, b
  <2> QED
    BY <2>2, <2>3 DEF Changed
<1>6. /\ h.operations[o].request # NoRequest
      /\ h.operations[o].request.action = h.operations[o].action
  BY <1>2 DEF SoundLedger, Sound, ValidOperation
<1>7. receipt.verified => Meant(h.operations[o].request, receipt)
  BY DEF Accepts
<1>8. \/ /\ b = Fleet(receipt.generation) /\ receipt.generation \in Generations
         /\ receipt.verified /\ h.operations[o].action \in {"start", "ensure"}
      \/ b \in {h.observation, Unknown, Nobody, External}
  <2>1. receipt.generation \in Generations \cup {NoGeneration}
    BY DEF Receipt
  <2> QED
    BY <1>6, <1>7, <2>1 DEF Observed, Meant
<1>9. b \in Observation
  BY <1>1, <1>8 DEF Observation
<1> HIDE DEF p, b, g
<1>10. /\ g \in Hub
       /\ g.operations[o] = p /\ Known(g, o)
       /\ \A q \in Operations \ {o} : g.operations[q] = h.operations[q]
       /\ g.observation = b
  BY <1>1, <1>4, <1>5, <1>9, OneChanged
<1>11. \A q \in InState(h, {"dispatched"}) : q = o
  BY <1>2 DEF SoundLedger, InState
<1>12. SoundLedger(g)
  <2>1. InState(g, {"dispatched"}) = {}
    BY <1>4, <1>10, <1>11 DEF InState, Known
  <2>2. Sound(o, p)
    <3>1. Sound(o, h.operations[o])
      BY <1>2 DEF SoundLedger
    <3> QED
      BY <1>2, <1>4, <1>6, <3>1 DEF Sound, ValidOperation
  <2>3. \A q \in Operations : Known(g, q) => Sound(q, g.operations[q])
    BY <1>10, <2>2 DEF SoundLedger, Known
  <2>4. Proven(g)
    <3>1. CASE b = Fleet(receipt.generation) /\ receipt.verified
               /\ h.operations[o].action \in {"start", "ensure"}
      BY <1>4, <1>10, <3>1 DEF Proven, InState, Fleet
    <3>2. CASE b \in {Unknown, Nobody, External}
      BY <1>10, <3>2 DEF Proven, Unknown, Nobody, External
    <3>3. CASE b = h.observation /\ h.observation.owner = "fleet"
      <4>1. PICK q \in InState(h, {"applied"}) :
                /\ h.operations[q].action \in {"start", "ensure"}
                /\ h.operations[q].receipt = h.observation.generation
        BY <3>3 DEF SoundLedger, Proven
      <4>2. q \in Operations \ {o}
        BY <1>2 DEF InState
      <4> QED
        BY <1>10, <3>3, <4>1, <4>2 DEF Proven, InState, Known
    <3>4. CASE b = h.observation /\ h.observation.owner # "fleet"
      BY <1>10, <3>4 DEF Proven
    <3> QED
      BY <1>8, <3>1, <3>2, <3>3, <3>4
  <2> QED
    BY <1>10, <2>1, <2>3, <2>4 DEF SoundLedger
<1>13. \A q \in InState(h, Final) : q \in Operations \ {o}
  BY <1>2 DEF InState, Final
<1> QED
  BY <1>4, <1>10, <1>11, <1>12, <1>13 DEF Moved, g, Known, InState

\* fail_windows_hotspot_operation
LEMMA FailureMoves ==
    ASSUME NEW h, SoundLedger(h), NEW o \in Operations, NEW t, Failable(h, o)
    PROVE  Moved(h, Failed(h, o), o, t)
<1> DEFINE p == [h.operations[o] EXCEPT !.lifecycle = "failed"]
           g == Failed(h, o)
<1>1. h \in Hub /\ h.observation \in Observation
  BY DEF SoundLedger, Hub
<1>2. /\ Known(h, o) /\ h.operations[o] \in Operation
      /\ h.operations[o].lifecycle = "dispatched"
  BY <1>1 DEF Failable, InState, Hub, Known
<1>3. /\ p \in Operation /\ p.lifecycle = "failed" /\ p.receipt = h.operations[o].receipt
      /\ p.expires = h.operations[o].expires /\ p.action = h.operations[o].action
      /\ p.request = h.operations[o].request
  BY <1>2 DEF Operation
<1>4. g = Changed(h, o, p, h.observation)
  BY <1>1, <1>2 DEF Failed, Changed, Hub, Operation
<1> HIDE DEF p, g
<1>5. /\ g \in Hub
      /\ g.operations[o] = p /\ Known(g, o)
      /\ \A q \in Operations \ {o} : g.operations[q] = h.operations[q]
      /\ g.observation = h.observation
  BY <1>1, <1>3, <1>4, OneChanged
<1>6. \A q \in InState(h, {"dispatched"}) : q = o
  BY <1>2 DEF SoundLedger, InState
<1>7. SoundLedger(g)
  <2>1. InState(g, {"dispatched"}) = {}
    BY <1>3, <1>5, <1>6 DEF InState, Known
  <2>2. Sound(o, p)
    BY <1>2, <1>3 DEF SoundLedger, Sound, ValidOperation
  <2>3. \A q \in Operations : Known(g, q) => Sound(q, g.operations[q])
    BY <1>5, <2>2 DEF SoundLedger, Known
  <2>4. Proven(g)
    <3> SUFFICES ASSUME h.observation.owner = "fleet"
                 PROVE  \E q \in InState(g, {"applied"}) :
                            /\ g.operations[q].action \in {"start", "ensure"}
                            /\ g.operations[q].receipt = h.observation.generation
      BY <1>5 DEF Proven
    <3>1. PICK q \in InState(h, {"applied"}) :
              /\ h.operations[q].action \in {"start", "ensure"}
              /\ h.operations[q].receipt = h.observation.generation
      BY DEF SoundLedger, Proven
    <3>2. q \in Operations \ {o}
      BY <1>2 DEF InState
    <3> QED
      BY <1>5, <3>1, <3>2 DEF InState, Known
  <2> QED
    BY <1>5, <2>1, <2>3, <2>4 DEF SoundLedger
<1>8. \A q \in InState(h, Final) : q \in Operations \ {o}
  BY <1>2 DEF InState, Final
<1> QED
  BY <1>3, <1>5, <1>6, <1>7, <1>8 DEF Moved, g, Known, InState

-----------------------------------------------------------------------------
(* The steps of the local hub.                                               *)

\* The invariant holds at the start.
LEMMA InitHolds == Init => IInv
<1> SUFFICES ASSUME Init PROVE IInv
  OBVIOUS
<1>1. hub \in Hub /\ disk = hub /\ hub.observation = Unknown
      /\ \A o \in Operations : ~Known(hub, o)
  BY DEF Init, Hub, Observation, Known
<1>2. InFlight = {} /\ sent = {}
  BY DEF Init, InFlight
<1>3. TypeOK
  BY <1>1, TimesAssumption DEF Init, TypeOK, Time
<1>4. SoundLedger(hub)
  BY <1>1 DEF SoundLedger, InState, Proven, Unknown
<1> QED
  BY <1>1, <1>2, <1>3, <1>4 DEF IInv, WorkersAreKnown, AskedIsKept, SettledIsOnDisk, InState

\* A handler or a worker persists a move of the ledger in memory, whatever comes
\* of it.  It ends the worker of the operation `but` or, once the request of an
\* operation is durable, starts one.
LEMMA PersistKeeps ==
    ASSUME IInv, NEW g, NEW but \in Operations, NEW t \in Time, t <= now,
           Moved(hub, g, but, t),
           NEW c \in Outcomes, Persist(g, c), UNCHANGED <<now, up>>,
           worker' \in [Operations -> Request \cup {NoRequest}],
           \A o \in Operations : worker'[o] # NoRequest =>
              \/ o \in InFlight /\ o # but
              \/ c = "done" /\ o \in InState(g, {"dispatched"}),
           \A r \in sent' :
              \/ r \in sent
              \/ c = "done" /\ r \in Request
                    /\ Known(g, r.operation) /\ g.operations[r.operation].request = r
    PROVE  /\ IInv'
           /\ \A o \in InState(hub, Final) : hub'.operations[o] = hub.operations[o]
<1>1. /\ hub' \in {hub, g} /\ disk' \in {disk, g}
      /\ hub' = g => disk' = g \/ g = hub
      /\ c = "done" => hub' = g /\ disk' = g
  BY DEF Persist, Outcomes
<1>2. /\ SoundLedger(hub) /\ SoundLedger(disk) /\ SoundLedger(g)
      /\ \A o \in InState(hub, Final) : g.operations[o] = hub.operations[o]
  BY DEF IInv, Moved
<1>3. SoundLedger(hub') /\ SoundLedger(disk')
  BY <1>1, <1>2
<1>4. TypeOK'
  BY <1>3 DEF TypeOK, IInv, SoundLedger, Moved
<1>5. WorkersAreKnown'
  <2> SUFFICES ASSUME NEW o \in Operations, worker'[o] # NoRequest
               PROVE  /\ Known(hub', o)
                      /\ o \in InState(hub', {"dispatched"}) \/ hub'.operations[o].expires < now
    BY DEF WorkersAreKnown, InFlight
  <2>1. CASE c = "done" /\ o \in InState(g, {"dispatched"})
    BY <1>1, <2>1 DEF InState
  <2>2. CASE o \in InFlight /\ o # but
    <3>1. /\ Known(hub, o)
          /\ o \in InState(hub, {"dispatched"}) \/ hub.operations[o].expires < now
      BY <2>2 DEF IInv, WorkersAreKnown
    <3>2. /\ Known(g, o) /\ g.operations[o].expires = hub.operations[o].expires
          /\ \/ o \in InState(g, {"dispatched"}) \/ g.operations[o].expires < t
             \/ o \notin InState(hub, {"dispatched"})
      BY <2>2, <3>1 DEF Moved
    <3>3. g.operations[o].expires \in Int /\ t \in Int /\ now \in Int
      <4>1. g.operations[o] \in Operation
        BY <1>2, <3>2 DEF SoundLedger, Hub, Known
      <4> QED
        BY <4>1, TimesAssumption DEF Operation, Time, IInv, TypeOK
    <3>4. o \in InState(g, {"dispatched"}) \/ g.operations[o].expires < now
      BY <3>1, <3>2, <3>3
    <3> QED
      BY <1>1, <3>1, <3>2, <3>4
  <2> QED
    BY <2>1, <2>2
<1>6. AskedIsKept'
  <2> SUFFICES ASSUME NEW r \in sent', NEW h \in {hub', disk'}
               PROVE  Known(h, r.operation) /\ h.operations[r.operation].request = r
    BY DEF AskedIsKept
  <2>1. CASE r \in sent
    <3>1. \A k \in {hub, disk} : Known(k, r.operation) /\ k.operations[r.operation].request = r
      BY <2>1 DEF IInv, AskedIsKept
    <3>2. r \in Request /\ r # NoRequest /\ r.operation \in Operations
      BY <2>1, NothingAssumption DEF IInv, TypeOK, Request
    <3>3. Known(g, r.operation) /\ g.operations[r.operation].request = r
      BY <3>1, <3>2 DEF Moved
    <3> QED
      BY <1>1, <3>1, <3>3
  <2>2. CASE c = "done" /\ Known(g, r.operation) /\ g.operations[r.operation].request = r
    BY <1>1, <2>2
  <2> QED
    BY <2>1, <2>2
<1>7. SettledIsOnDisk'
  <2> SUFFICES ASSUME NEW o \in InState(hub', Final)
               PROVE  disk'.operations[o] = hub'.operations[o]
    BY DEF SettledIsOnDisk
  <2>1. CASE hub' = disk'
    BY <2>1
  <2>2. CASE hub' = hub /\ disk' \in {disk, g}
    BY <1>2, <2>2 DEF IInv, SettledIsOnDisk
  <2> QED
    BY <1>1, <2>1, <2>2
<1> QED
  BY <1>1, <1>2, <1>3, <1>4, <1>5, <1>6, <1>7 DEF IInv

\* What one step keeps: the invariant, and what memory calls settled.
Kept ==
    /\ IInv'
    /\ \A o \in InState(hub, Final) : hub'.operations[o] = hub.operations[o]

\* A preview.
LEMMA PreviewKeeps ==
    ASSUME IInv, NEW o \in Operations, NEW a \in Actions, NEW t \in Reading,
           NEW c \in Outcomes, Preview(o, a, t, c)
    PROVE  Kept
<1>1. t \in Time /\ t <= now
  BY DEF Reading
<1>2. Moved(hub, Previewed(hub, o, a, t), o, t)
  BY <1>1, PreviewMoves DEF IInv, Preview
<1>3. o \notin InFlight
  BY DEF IInv, WorkersAreKnown, Preview
<1> HIDE DEF IInv, Moved
<1>4. /\ Persist(Previewed(hub, o, a, t), c) /\ UNCHANGED <<now, up>>
      /\ worker' = worker /\ sent' = sent
  BY DEF Preview
<1>5. worker \in [Operations -> Request \cup {NoRequest}]
  BY DEF IInv, TypeOK
<1> DEFINE g == Previewed(hub, o, a, t)
<1> HIDE DEF g
<1>6. /\ \A q \in Operations : worker'[q] # NoRequest => q \in InFlight /\ q # o
      /\ \A r \in sent' : r \in sent
  BY <1>3, <1>4 DEF InFlight
<1>7. Moved(hub, g, o, t) /\ Persist(g, c)
  BY <1>2, <1>4 DEF g
<1> QED
  BY <1>1, <1>4, <1>5, <1>6, <1>7, PersistKeeps DEF Kept

\* A confirmation.
LEMMA ExecuteKeeps ==
    ASSUME IInv, NEW o \in Operations, NEW t \in Reading, NEW c \in Outcomes, Execute(o, t, c)
    PROVE  Kept
<1> DEFINE k == Recovered(hub, t)
           g == IF MayDispatch(k, o, t) THEN Dispatched(k, o, t) ELSE k
           request == g.operations[o].request
<1>1. t \in Time /\ t <= now
  BY DEF Reading
<1>2. Moved(hub, g, o, t)
  BY <1>1, ExecutionMoves DEF IInv
<1>3. /\ o \notin InFlight /\ o \in InState(g, {"dispatched"})
      /\ Persist(g, c) /\ Send(o, request, c) /\ UNCHANGED <<now, up>>
  BY DEF Execute
<1> HIDE DEF g
<1>4. worker \in [Operations -> Request \cup {NoRequest}]
  BY DEF IInv, TypeOK
<1>5. Known(g, o) /\ request \in Request /\ request.operation = o
  <2>1. /\ Known(g, o) /\ g.operations[o] \in Operation
        /\ g.operations[o].lifecycle = "dispatched"
    BY <1>2, <1>3 DEF Moved, SoundLedger, InState, Known, Hub
  <2> QED
    BY <1>2, <2>1 DEF Moved, SoundLedger, Sound, ValidOperation, Operation
<1> HIDE DEF request
<1>6. /\ worker' \in [Operations -> Request \cup {NoRequest}]
      /\ \A q \in Operations : worker'[q] # NoRequest =>
            \/ q \in InFlight /\ q # o
            \/ c = "done" /\ q \in InState(g, {"dispatched"})
      /\ \A r \in sent' : r \in sent \/ (c = "done" /\ r = request)
  <2>1. CASE c = "done"
    BY <1>3, <1>4, <1>5, <2>1 DEF Send, InFlight
  <2>2. CASE c # "done"
    <3>1. worker' = worker /\ sent' = sent
      BY <1>3, <2>2 DEF Send
    <3>2. \A q \in Operations : worker[q] # NoRequest => q \in InFlight /\ q # o
      BY <1>3 DEF InFlight
    <3> QED
      BY <1>4, <3>1, <3>2
  <2> QED
    BY <2>1, <2>2
<1>7. \A r \in sent' :
         \/ r \in sent
         \/ c = "done" /\ r \in Request
               /\ Known(g, r.operation) /\ g.operations[r.operation].request = r
  BY <1>5, <1>6 DEF request
<1> QED
  BY <1>1, <1>2, <1>3, <1>6, <1>7, PersistKeeps DEF Kept

\* An answer of the provider.
LEMMA AnswerKeeps ==
    ASSUME IInv, NEW o \in Operations, NEW receipt \in Receipt \cup {NoReceipt},
           NEW c \in Outcomes, Answer(o, receipt, c)
    PROVE  Kept
<1>1. /\ UNCHANGED <<now, up, sent>> /\ worker' = [worker EXCEPT ![o] = NoRequest]
      /\ worker \in [Operations -> Request \cup {NoRequest}]
  BY DEF Answer, IInv, TypeOK
<1>2. /\ worker' \in [Operations -> Request \cup {NoRequest}]
      /\ \A q \in Operations : worker'[q] # NoRequest => q \in InFlight /\ q # o
      /\ \A r \in sent' : r \in sent
  BY <1>1 DEF InFlight
<1>3. now \in Time /\ now <= now /\ SoundLedger(hub)
  BY DEF IInv, TypeOK, Time
<1>4. ASSUME NEW g, Moved(hub, g, o, now), NEW d \in Outcomes, Persist(g, d) PROVE Kept
  BY <1>1, <1>2, <1>3, <1>4, PersistKeeps DEF Kept
<1>5. CASE receipt # NoReceipt /\ Accepts(hub, o, receipt)
  <2>1. Moved(hub, Settled(hub, o, receipt), o, now)
    BY <1>3, <1>5, SettlementMoves
  <2> QED
    BY <1>4, <1>5, <2>1 DEF Answer
<1>6. CASE ~(receipt # NoReceipt /\ Accepts(hub, o, receipt)) /\ Failable(hub, o)
  <2>1. Moved(hub, Failed(hub, o), o, now)
    BY <1>3, <1>6, FailureMoves
  <2> QED
    BY <1>4, <1>6, <2>1 DEF Answer
<1>7. CASE ~(receipt # NoReceipt /\ Accepts(hub, o, receipt)) /\ ~Failable(hub, o)
  <2>1. Moved(hub, hub, o, now)
    BY <1>3 DEF Moved
  <2>2. "failed" \in Outcomes /\ Persist(hub, "failed")
    BY <1>7 DEF Answer, Persist, Outcomes
  <2> QED
    BY <1>4, <2>1, <2>2
<1> QED
  BY <1>5, <1>6, <1>7

\* A lease that has ended stays ended.
LEMMA TickKeeps == IInv /\ Tick => Kept
<1> SUFFICES ASSUME IInv, Tick PROVE Kept
  OBVIOUS
<1>1. now \in Int /\ now' = now + 1 /\ UNCHANGED <<up, hub, disk, worker, sent>>
  BY DEF Tick, IInv, TypeOK, Time
<1>2. WorkersAreKnown'
  <2> SUFFICES ASSUME NEW o \in InFlight, o \notin InState(hub, {"dispatched"})
               PROVE  Known(hub, o) /\ hub.operations[o].expires < now + 1
    BY <1>1 DEF WorkersAreKnown, InFlight, IInv
  <2>1. o \in Operations /\ Known(hub, o) /\ hub.operations[o].expires < now
    BY DEF IInv, WorkersAreKnown, InFlight
  <2>2. hub.operations[o].expires \in Int
    BY <2>1, TimesAssumption DEF IInv, SoundLedger, Hub, Known, Operation
  <2> QED
    BY <1>1, <2>1, <2>2
<1>3. TypeOK'
  BY <1>1, TimesAssumption DEF IInv, TypeOK, Tick, Time
<1> QED
  BY <1>1, <1>2, <1>3 DEF IInv, Kept, AskedIsKept, SettledIsOnDisk

\* A crash.
LEMMA CrashKeeps == IInv /\ Crash => Kept
<1> SUFFICES ASSUME IInv, Crash PROVE Kept
  OBVIOUS
<1>1. UNCHANGED <<now, hub, disk, sent>> /\ up' = FALSE
      /\ worker' = [o \in Operations |-> NoRequest]
  BY DEF Crash
<1> QED
  BY <1>1 DEF IInv, Kept, TypeOK, WorkersAreKnown, InFlight, AskedIsKept, SettledIsOnDisk

\* A start moves the ledger on disk, which has what memory had settled.
LEMMA RestartKeeps == IInv /\ Restart => Kept
<1> SUFFICES ASSUME IInv, Restart PROVE Kept
  OBVIOUS
<1> DEFINE h == Recovered(disk, now)
           resumed == {o \in InState(h, {"dispatched"}) : h.operations[o].expires >= now}
<1>1. /\ up' = TRUE /\ now' = now /\ hub' = h /\ disk' = h
      /\ worker' = [o \in Operations |->
                       IF o \in resumed THEN h.operations[o].request ELSE NoRequest]
      /\ sent' = sent \cup {h.operations[o].request : o \in resumed}
  BY DEF Restart
<1>2. Moved(disk, h, NoOperation, now)
  BY RecoveryMoves DEF IInv, TypeOK
<1>3. resumed \subseteq InState(h, {"dispatched"})
  OBVIOUS
<1> HIDE DEF h, resumed
<1>4. SoundLedger(h) /\ h \in Hub
  BY <1>2 DEF Moved, SoundLedger
<1>5. \A o \in resumed : /\ o \in Operations /\ Known(h, o)
                         /\ h.operations[o].request \in Request
                         /\ h.operations[o].request.operation = o
  BY <1>3, <1>4 DEF SoundLedger, Sound, ValidOperation, InState, Hub, Known, Operation
<1>6. TypeOK'
  BY <1>1, <1>4, <1>5 DEF IInv, TypeOK
<1>7. WorkersAreKnown'
  BY <1>1, <1>3, <1>5 DEF WorkersAreKnown, InFlight
<1>8. \A r \in sent' : Known(h, r.operation) /\ h.operations[r.operation].request = r
  <2>1. ASSUME NEW r \in sent PROVE Known(h, r.operation) /\ h.operations[r.operation].request = r
    <3>1. /\ Known(disk, r.operation) /\ disk.operations[r.operation].request = r
          /\ r.operation \in Operations /\ r # NoRequest
      BY <2>1, NothingAssumption DEF IInv, AskedIsKept, TypeOK, Request
    <3> QED
      BY <1>2, <3>1 DEF Moved
  <2> QED
    BY <1>1, <1>5, <2>1
<1>9. \A o \in InState(hub, Final) : h.operations[o] = hub.operations[o]
  <2> SUFFICES ASSUME NEW o \in InState(hub, Final) PROVE h.operations[o] = hub.operations[o]
    OBVIOUS
  <2>1. disk.operations[o] = hub.operations[o]
    BY DEF IInv, SettledIsOnDisk
  <2>2. o \in InState(disk, Final)
    BY <2>1 DEF InState, Known
  <2> QED
    BY <1>2, <2>1, <2>2 DEF Moved
<1> QED
  BY <1>1, <1>4, <1>6, <1>7, <1>8, <1>9 DEF Kept, IInv, AskedIsKept, SettledIsOnDisk

\* Every step.
LEMMA NextKeeps == IInv /\ [Next]_vars => Kept
<1> SUFFICES ASSUME IInv, [Next]_vars PROVE Kept
  OBVIOUS
<1>1. CASE UNCHANGED vars
  BY <1>1 DEF vars, IInv, Kept, TypeOK, WorkersAreKnown, InFlight, AskedIsKept, SettledIsOnDisk
<1> QED
  BY <1>1, PreviewKeeps, ExecuteKeeps, AnswerKeeps, TickKeeps, CrashKeeps, RestartKeeps DEF Next

-----------------------------------------------------------------------------
(* The theorems.                                                             *)

\* Every ledger is sound, and memory and disk agree on what is settled.
THEOREM Invariance == Spec => []IInv
<1>1. Init => IInv
  BY InitHolds
<1>2. IInv /\ [Next]_vars => IInv'
  BY NextKeeps DEF Kept
<1> QED
  BY <1>1, <1>2, PTL DEF Spec

\* Every variable has its type.
THEOREM TypeCorrect == Spec => []TypeOK
<1>1. IInv => TypeOK
  BY DEF IInv
<1> QED
  BY <1>1, Invariance, PTL

\* One operation at a time holds the hotspot, in memory, on disk, and among the
\* workers whose lease has not ended; and a start accepts the ledger on disk.
THEOREM OneOperationHolds == Spec => []OneHolder
<1>1. ASSUME NEW h, SoundLedger(h) PROVE Restorable(h)
  <2>1. Cardinality(InState(h, {"dispatched"})) <= 1
    <3>1. CASE InState(h, {"dispatched"}) = {}
      BY <3>1, FS_EmptySet
    <3>2. ASSUME NEW o \in InState(h, {"dispatched"})
          PROVE  Cardinality(InState(h, {"dispatched"})) <= 1
      <4>1. InState(h, {"dispatched"}) = {o}
        BY <1>1, <3>2 DEF SoundLedger
      <4> QED
        BY <4>1, FS_Singleton
    <3> QED
      BY <3>1, <3>2
  <2>2. \A o \in Operations : Known(h, o) => ValidOperation(h.operations[o])
    BY <1>1 DEF SoundLedger, Sound
  <2> QED
    BY <2>1, <2>2 DEF Restorable
<1>2. IInv => OneHolder
  <2> SUFFICES ASSUME IInv PROVE OneHolder
    OBVIOUS
  <2>1. Restorable(hub) /\ Restorable(disk)
    BY <1>1 DEF IInv
  <2>2. ASSUME NEW o \in InFlight, hub.operations[o].expires >= now
        PROVE  o \in InState(hub, {"dispatched"})
    <3>1. /\ o \in Operations /\ Known(hub, o)
          /\ o \in InState(hub, {"dispatched"}) \/ hub.operations[o].expires < now
      BY DEF IInv, WorkersAreKnown, InFlight
    <3>2. hub.operations[o].expires \in Int /\ now \in Int
      BY <3>1, TimesAssumption DEF IInv, TypeOK, Time, SoundLedger, Hub, Known, Operation
    <3> QED
      BY <2>2, <3>1, <3>2
  <2>3. \A o, p \in InState(hub, {"dispatched"}) : o = p
    BY DEF IInv, SoundLedger
  <2> QED
    BY <2>1, <2>2, <2>3 DEF OneHolder
<1> QED
  BY <1>2, Invariance, PTL

\* What the provider was asked is what the durable state says it was asked.
THEOREM RequestsAreDurable == Spec => []SentIsDurable
<1>1. IInv => SentIsDurable
  BY DEF IInv, AskedIsKept, SentIsDurable
<1> QED
  BY <1>1, Invariance, PTL

\* The hotspot is taken for Fleet's own only on a verified start or ensure.
THEOREM OwnershipIsProven == Spec => []OwnershipIsVerified
<1>1. IInv => OwnershipIsVerified
  BY DEF IInv, SoundLedger, Proven, OwnershipIsVerified
<1> QED
  BY <1>1, Invariance, PTL

\* An operation that is settled stays so, over late answers and restarts.
THEOREM SettledStays == Spec => SettledForGood
<1>1. IInv /\ [Next]_vars =>
          [\A o \in InState(hub, {"rejected", "applied", "failed", "expired"}) :
              hub'.operations[o] = hub.operations[o]]_vars
  BY NextKeeps DEF Kept, Final
<1> QED
  BY <1>1, Invariance, PTL DEF Spec, SettledForGood
=============================================================================
