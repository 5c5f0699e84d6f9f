-------------------------- MODULE QuestWifiAdb_proofs --------------------------
(***************************************************************************)
(* Proofs about QuestWifiAdb for every finite set of operations and        *)
(* headsets, every provider and every number of slots.                     *)
(*                                                                         *)
(* The argument: whatever a handler, a worker or a sweep writes follows    *)
(* the ledger in memory (Follows): it takes no target back before its      *)
(* dispatch and applies nothing without its facts.  So memory is never     *)
(* ahead of the disk, and a restart finds dispatched what was sent.  A     *)
(* worker is started only for a headset nobody works on, in a batch that   *)
(* names it once and fits what is free.                                    *)
(***************************************************************************)
EXTENDS QuestWifiAdb, FiniteSetTheorems, TLAPS

Ledgers == [Operations -> Operation \cup {NoOperation}]

\* The states of a target that has been dispatched.
Past == {"dispatched", "running", "applied", "failed"}
PastOf(h) == {p \in Pairs : StateOf(h, p) \in Past}

\* What an applied target shows (derived_effect_applied and the routes).
ProvenBy(a, r) == Effective(a, r) /\ (r.route = "classic" => a = "classic")
Proven(h) ==
    \A p \in Pairs : StateOf(h, p) = "applied" =>
        ProvenBy(h[p[1]].action, h[p[1]].targets[p[2]].receipt)

Follows(h, c) == c \in Ledgers /\ Proven(c) /\ PastOf(h) \subseteq PastOf(c)

\* One worker for a headset, all of them within the slots, each for a target
\* that is past acceptance; a hub that is down has none.
WorkersInv ==
    /\ \A p, q \in InFlight : p[2] = q[2] => p = q
    /\ Cardinality(InFlight) <= Slots
    /\ ~up => InFlight = {}
    /\ InFlight \subseteq PastOf(hub)

IInv ==
    /\ TypeOK
    /\ Proven(hub) /\ Proven(disk)
    /\ PastOf(hub) \subseteq PastOf(disk)
    /\ WorkersInv

-----------------------------------------------------------------------------
\* A pair is an operation and a headset.
LEMMA PairFields ==
    /\ \A p \in Pairs : /\ p[1] \in Operations /\ p[2] \in Devices
                        /\ p = <<p[1], p[2]>>
    /\ \A o \in Operations, d \in Devices : <<o, d>> \in Pairs
BY DEF Pairs

\* There are finitely many pairs.
LEMMA FinitePairs == \A S \in SUBSET Pairs : IsFiniteSet(S) /\ Cardinality(S) \in Nat
<1>1. IsFiniteSet(Pairs)
  BY DevicesAssumption, FS_Product DEF Pairs
<1> QED
  BY <1>1, FS_Subset, FS_CardinalityType

\* The state of a target is read from its operation.
LEMMA StateFields ==
    ASSUME NEW h \in Ledgers, NEW p \in Pairs
    PROVE  /\ Known(h, p[1]) => /\ h[p[1]] \in Operation
                                /\ h[p[1]].targets[p[2]] \in Target
                                /\ StateOf(h, p) = h[p[1]].targets[p[2]].state
           /\ ~Known(h, p[1]) => StateOf(h, p) = "untargeted"
<1>1. p[1] \in Operations /\ p[2] \in Devices
  BY PairFields
<1>2. ASSUME Known(h, p[1])
      PROVE  h[p[1]] \in Operation /\ h[p[1]].targets[p[2]] \in Target
  <2>1. h[p[1]] \in Operation
    BY <1>1, <1>2 DEF Ledgers, Known
  <2> QED
    BY <1>1, <2>1 DEF Operation
<1> QED
  BY <1>2 DEF StateOf

\* Put gives the targets it names the state and leaves the others alone.
LEMMA PutOperation ==
    ASSUME NEW h \in Ledgers, NEW ps, NEW state \in States, NEW o \in Operations,
           Known(h, o)
    PROVE  /\ Put(h, ps, state)[o] \in Operation
           /\ Put(h, ps, state)[o].action = h[o].action
           /\ \A d \in Devices :
                 /\ Put(h, ps, state)[o].targets[d].receipt = h[o].targets[d].receipt
                 /\ Put(h, ps, state)[o].targets[d].state =
                       IF <<o, d>> \in ps THEN state ELSE h[o].targets[d].state
<1> DEFINE x == h[o]
           t == [d \in Devices |->
                   IF <<o, d>> \in ps THEN [x.targets[d] EXCEPT !.state = state]
                                      ELSE x.targets[d]]
<1>1. x \in Operation
  BY DEF Ledgers, Known
<1>2. \A d \in Devices : x.targets[d] \in Target
  BY <1>1 DEF Operation
<1>3. \A d \in Devices : /\ t[d] \in Target
                         /\ t[d].receipt = x.targets[d].receipt
                         /\ t[d].state = IF <<o, d>> \in ps THEN state ELSE x.targets[d].state
  <2> SUFFICES ASSUME NEW d \in Devices
               PROVE  /\ t[d] \in Target
                      /\ t[d].receipt = x.targets[d].receipt
                      /\ t[d].state = IF <<o, d>> \in ps THEN state ELSE x.targets[d].state
    OBVIOUS
  <2>1. x.targets[d] \in Target
    BY <1>2
  <2> QED
    BY <2>1 DEF Target
<1>4. Put(h, ps, state)[o] = [x EXCEPT !.targets = t]
  BY DEF Put
<1>5. t \in [Devices -> Target]
  BY <1>3
<1> HIDE DEF t, x
<1>6. /\ [x EXCEPT !.targets = t] \in Operation
      /\ [x EXCEPT !.targets = t].action = x.action
      /\ [x EXCEPT !.targets = t].targets = t
  BY <1>1, <1>5 DEF Operation
<1> QED
  BY <1>3, <1>4, <1>6 DEF x

\* A target of an unknown operation stays unknown.
LEMMA PutUnknown ==
    ASSUME NEW h \in Ledgers, NEW ps, NEW state, NEW o \in Operations, ~Known(h, o)
    PROVE  Put(h, ps, state)[o] = NoOperation
BY DEF Put, Known

\* A target put past acceptance stays past, and one that is applied is one that
\* was: no call of Put applies.
LEMMA PutFollows ==
    ASSUME NEW h \in Ledgers, Proven(h), NEW ps, NEW state \in States \ {"applied"},
           \/ state \in Past
           \/ \A p \in Pairs : p \in ps => StateOf(h, p) \notin Past
    PROVE  /\ Follows(h, Put(h, ps, state))
           /\ \A p \in Pairs : StateOf(Put(h, ps, state), p) =
                 IF p \in ps /\ Known(h, p[1]) THEN state ELSE StateOf(h, p)
<1> DEFINE c == Put(h, ps, state)
<1>1. c \in Ledgers
  <2>1. \A o \in Operations : c[o] \in Operation \cup {NoOperation}
    BY PutOperation, PutUnknown
  <2>2. c = [o \in Operations |-> c[o]]
    BY DEF Put
  <2> HIDE DEF c
  <2> QED
    BY <2>1, <2>2 DEF Ledgers
<1>2. \A o \in Operations : Known(c, o) <=> Known(h, o)
  BY PutOperation, PutUnknown, NoOperationAssumption DEF Known
<1>3. ASSUME NEW p \in Pairs, Known(h, p[1])
      PROVE  /\ c[p[1]].action = h[p[1]].action
             /\ c[p[1]].targets[p[2]].receipt = h[p[1]].targets[p[2]].receipt
             /\ StateOf(c, p) = IF p \in ps THEN state ELSE StateOf(h, p)
  <2>1. p[1] \in Operations /\ p[2] \in Devices /\ p = <<p[1], p[2]>>
    BY PairFields
  <2>2. /\ c[p[1]].action = h[p[1]].action
        /\ c[p[1]].targets[p[2]].receipt = h[p[1]].targets[p[2]].receipt
        /\ c[p[1]].targets[p[2]].state =
              IF <<p[1], p[2]>> \in ps THEN state ELSE h[p[1]].targets[p[2]].state
    BY <1>3, <2>1, PutOperation
  <2> HIDE DEF c
  <2> QED
    BY <1>2, <1>3, <2>1, <2>2, Zenon DEF StateOf
<1>4. \A p \in Pairs : ~Known(h, p[1]) => StateOf(c, p) = StateOf(h, p)
  BY <1>2, PairFields DEF StateOf
<1> HIDE DEF c
<1>5. \A p \in Pairs : StateOf(c, p) =
          IF p \in ps /\ Known(h, p[1]) THEN state ELSE StateOf(h, p)
  BY <1>3, <1>4
<1>6. Proven(c)
  <2> SUFFICES ASSUME NEW p \in Pairs, StateOf(c, p) = "applied"
               PROVE  ProvenBy(c[p[1]].action, c[p[1]].targets[p[2]].receipt)
    BY DEF Proven
  <2>1. StateOf(h, p) = "applied"
    BY <1>5
  <2>2. Known(h, p[1])
    BY <2>1 DEF StateOf
  <2> QED
    BY <1>3, <2>1, <2>2 DEF Proven
<1>7. PastOf(h) \subseteq PastOf(c)
  BY <1>5 DEF PastOf
<1> QED
  BY <1>1, <1>5, <1>6, <1>7 DEF Follows, c

\* What follows what follows follows.
LEMMA FollowsOn ==
    ASSUME NEW h, NEW c, NEW k, Follows(h, c), Follows(c, k)
    PROVE  Follows(h, k)
BY DEF Follows

-----------------------------------------------------------------------------
(* What the handlers, the workers and the sweep write.                       *)

\* A preview comes after the ledger it was made from.
LEMMA PreviewFollows ==
    ASSUME NEW h \in Ledgers, Proven(h), NEW o \in Operations, ~Known(h, o),
           NEW a \in AllActions, NEW ds
    PROVE  Follows(h, Previewed(h, o, a, ds))
<1> DEFINE c == Previewed(h, o, a, ds)
           t == [d \in Devices |->
                   [state |-> IF d \in ds THEN "proposed" ELSE "untargeted",
                    receipt |-> NoReceipt]]
           x == [action |-> a, confirmed |-> FALSE, targets |-> t]
<1>1. t \in [Devices -> Target]
  BY DEF Target, States
<1>2. x \in Operation
  <2> HIDE DEF t
  <2> QED
    BY <1>1 DEF Operation
<1>3. c = [h EXCEPT ![o] = x]
  BY DEF Previewed
<1>4. \A d \in Devices : x.targets[d].state \in {"proposed", "untargeted"}
  OBVIOUS
<1> HIDE DEF x, t, c
<1>5. c \in Ledgers /\ c[o] = x /\ \A q \in Operations \ {o} : c[q] = h[q]
  BY <1>2, <1>3 DEF Ledgers
<1>6. ASSUME NEW p \in Pairs
      PROVE  /\ p[1] = o => /\ StateOf(h, p) = "untargeted"
                            /\ StateOf(c, p) \in {"proposed", "untargeted"}
             /\ p[1] # o => StateOf(c, p) = StateOf(h, p) /\ c[p[1]] = h[p[1]]
  <2>1. p[1] \in Operations /\ p[2] \in Devices
    BY PairFields
  <2> QED
    BY <1>4, <1>5, <2>1 DEF StateOf, Known
<1>7. Proven(c)
  BY <1>6 DEF Proven
<1>8. PastOf(h) \subseteq PastOf(c)
  BY <1>6 DEF PastOf, Past
<1> QED
  BY <1>5, <1>7, <1>8 DEF Follows, c

\* So does a confirmation.
LEMMA ConfirmFollows ==
    ASSUME NEW h \in Ledgers, Proven(h), NEW o \in Operations, Known(h, o)
    PROVE  Follows(h, Confirmed(h, o))
<1> DEFINE g == [h EXCEPT ![o].confirmed = TRUE]
           ps == {p \in {o} \X Devices : StateOf(h, p) = "proposed"}
<1>1. h[o] \in Operation
  BY DEF Ledgers, Known
<1>2. /\ [h[o] EXCEPT !.confirmed = TRUE] \in Operation
      /\ [h[o] EXCEPT !.confirmed = TRUE].action = h[o].action
      /\ [h[o] EXCEPT !.confirmed = TRUE].targets = h[o].targets
  BY <1>1 DEF Operation
<1>3. /\ g \in Ledgers
      /\ \A q \in Operations : Known(h, q) => g[q].action = h[q].action
                                              /\ g[q].targets = h[q].targets
      /\ \A q \in Operations : Known(g, q) <=> Known(h, q)
  <2> DEFINE y == [h[o] EXCEPT !.confirmed = TRUE]
  <2>1. g = [h EXCEPT ![o] = y]
    BY DEF Ledgers
  <2>2. y \in Operation /\ y.action = h[o].action /\ y.targets = h[o].targets
    BY <1>2
  <2> HIDE DEF y, g
  <2> QED
    BY <2>1, <2>2, NoOperationAssumption DEF Ledgers, Known
<1> HIDE DEF g
<1>4. \A p \in Pairs : StateOf(g, p) = StateOf(h, p)
  BY <1>3, PairFields DEF StateOf
<1>5. Proven(g)
  <2> SUFFICES ASSUME NEW p \in Pairs, StateOf(g, p) = "applied"
               PROVE  ProvenBy(g[p[1]].action, g[p[1]].targets[p[2]].receipt)
    BY DEF Proven
  <2>1. StateOf(h, p) = "applied" /\ p[1] \in Operations
    BY <1>4, PairFields
  <2>2. Known(h, p[1])
    BY <2>1 DEF StateOf
  <2> QED
    BY <1>3, <2>1, <2>2 DEF Proven
<1>6. Follows(h, g)
  BY <1>3, <1>4, <1>5 DEF Follows, PastOf
<1>7. \A p \in Pairs : p \in ps => StateOf(g, p) \notin Past
  BY <1>4 DEF Past
<1>8. Follows(g, Put(g, ps, "accepted"))
  <2> HIDE DEF ps
  <2> QED
    BY <1>3, <1>5, <1>7, PutFollows DEF States
<1> QED
  BY <1>6, <1>8, FollowsOn DEF Confirmed, g

\* So does a receipt that applies.
LEMMA ApplyFollows ==
    ASSUME NEW h \in Ledgers, Proven(h), NEW p \in Pairs, Known(h, p[1]),
           NEW r \in Receipts, Valid(h[p[1]].action, r)
    PROVE  Follows(h, Applied(h, p, r))
<1> DEFINE o == p[1]
           x == [state |-> IF r.effect THEN "applied" ELSE "running", receipt |-> r]
           t == [h[o].targets EXCEPT ![p[2]] = x]
           y == [h[o] EXCEPT !.targets = t]
           c == Applied(h, p, r)
<1>1. o \in Operations /\ p[2] \in Devices /\ p = <<o, p[2]>> /\ h[o] \in Operation
  BY PairFields, StateFields
<1>2. x \in Target
  BY DEF Target, States
<1>3. /\ t \in [Devices -> Target] /\ t[p[2]] = x
      /\ \A d \in Devices : d # p[2] => t[d] = h[o].targets[d]
  <2> HIDE DEF x
  <2> QED
    BY <1>1, <1>2 DEF Operation
<1>4. y \in Operation /\ y.action = h[o].action /\ y.targets = t
  <2> HIDE DEF t
  <2> QED
    BY <1>1, <1>3 DEF Operation
<1>5. c = [h EXCEPT ![o] = y]
  BY DEF Applied
<1> HIDE DEF y, c
<1>6. /\ c \in Ledgers /\ c[o] = y /\ \A q \in Operations : q # o => c[q] = h[q]
      /\ Known(c, o)
  BY <1>1, <1>4, <1>5, NoOperationAssumption DEF Ledgers, Known
<1>7. x.state \in {"applied", "running"} /\ x.receipt = r
      /\ (x.state = "applied" => r.effect)
  OBVIOUS
<1> HIDE DEF x, t
<1>8. c[o].targets[p[2]] = x /\ c[o].action = h[o].action /\ StateOf(c, p) = x.state
  BY <1>1, <1>3, <1>4, <1>6, Zenon DEF StateOf
<1>9. ASSUME NEW q \in Pairs, q # p
      PROVE  /\ StateOf(c, q) = StateOf(h, q)
             /\ StateOf(h, q) = "applied" =>
                   /\ c[q[1]].action = h[q[1]].action
                   /\ c[q[1]].targets[q[2]] = h[q[1]].targets[q[2]]
  <2>1. q[1] \in Operations /\ q[2] \in Devices /\ q = <<q[1], q[2]>>
    BY PairFields
  <2>2. CASE q[1] = o
    <3>1. q[2] # p[2]
      BY <1>1, <1>9, <2>1, <2>2
    <3>2. c[o].targets[q[2]] = h[o].targets[q[2]]
      BY <1>3, <1>4, <1>6, <2>1, <3>1
    <3> QED
      BY <1>6, <1>8, <2>2, <3>2 DEF StateOf
  <2>3. CASE q[1] # o
    BY <1>6, <2>1, <2>3 DEF StateOf, Known
  <2> QED
    BY <2>2, <2>3
<1>10. x.state = "applied" => ProvenBy(h[o].action, r)
  <2>1. h[o].action \in AllActions
    BY <1>1 DEF Operation
  <2> QED
    BY <1>7, <2>1 DEF Valid, ProvenBy, AllActions, Modern
<1>11. Proven(c)
  <2> SUFFICES ASSUME NEW q \in Pairs, StateOf(c, q) = "applied"
               PROVE  ProvenBy(c[q[1]].action, c[q[1]].targets[q[2]].receipt)
    BY DEF Proven
  <2>1. CASE q = p
    BY <1>7, <1>8, <1>10, <2>1
  <2>2. CASE q # p
    BY <1>9, <2>2 DEF Proven
  <2> QED
    BY <2>1, <2>2
<1>12. PastOf(h) \subseteq PastOf(c)
  BY <1>7, <1>8, <1>9 DEF PastOf, Past
<1> QED
  BY <1>6, <1>11, <1>12 DEF Follows, c

-----------------------------------------------------------------------------
(* The steps.                                                                *)

\* A save keeps both ledgers sound and memory behind the disk.
LEMMA PersistKeeps ==
    ASSUME IInv, NEW c, Follows(hub, c), NEW outcome, Persist(c, outcome)
    PROVE  /\ hub' \in Ledgers /\ disk' \in Ledgers
           /\ Proven(hub)' /\ Proven(disk)'
           /\ PastOf(hub)' \subseteq PastOf(disk)'
           /\ PastOf(hub) \subseteq PastOf(hub)'
           /\ outcome = "done" => hub' = c
BY DEF IInv, TypeOK, Ledgers, Persist, Follows, PastOf, Proven

\* A batch of workers for headsets nobody works on, one for each, that fits.
LEMMA StartKeeps ==
    ASSUME IInv, NEW batch \in SUBSET Pairs,
           \A p \in batch : p[2] \notin Reserved,
           \A p, q \in batch : p[2] = q[2] => p = q,
           Cardinality(batch) <= Free,
           InFlight' = InFlight \cup batch
    PROVE  /\ \A p, q \in InFlight' : p[2] = q[2] => p = q
           /\ Cardinality(InFlight') <= Slots
<1>1. \A p \in batch, q \in InFlight : p[2] # q[2]
  BY DEF Reserved
<1>2. InFlight \cap batch = {}
  BY <1>1
<1>3. IsFiniteSet(InFlight) /\ IsFiniteSet(batch)
      /\ Cardinality(InFlight) \in Nat /\ Cardinality(batch) \in Nat
  BY FinitePairs DEF InFlight
<1>4. Cardinality(InFlight') = Cardinality(InFlight) + Cardinality(batch)
  <2>1. Cardinality(InFlight \cup batch)
           = Cardinality(InFlight) + Cardinality(batch) - Cardinality(InFlight \cap batch)
    BY <1>3, FS_Union, Zenon
  <2>2. Cardinality(InFlight \cap batch) = 0
    BY <1>2, FS_EmptySet, Zenon
  <2>3. Cardinality(InFlight') = Cardinality(InFlight \cup batch)
    OBVIOUS
  <2> QED
    BY <1>3, <2>1, <2>2, <2>3
<1> QED
  BY <1>1, <1>3, <1>4, SlotsAssumption DEF IInv, WorkersInv, Free

\* A worker that has its answer leaves.
LEMMA SettleStep ==
    ASSUME IInv, up, NEW p \in InFlight, NEW c, Follows(hub, c),
           NEW outcome, Settle(p, c, outcome)
    PROVE  IInv'
<1>1. /\ hub' \in Ledgers /\ disk' \in Ledgers /\ Proven(hub)' /\ Proven(disk)'
      /\ PastOf(hub)' \subseteq PastOf(disk)' /\ PastOf(hub) \subseteq PastOf(hub)'
  BY PersistKeeps DEF Settle
<1>2. /\ work' = [work EXCEPT ![p] = "none"]
      /\ sweeps' \in Nat /\ spoiled' \in BOOLEAN
      /\ UNCHANGED <<up, lapsed, configured, due>>
  BY DEF Settle, IInv, TypeOK
<1>3. work' \in [Pairs -> {"none", "begin", "expired", "calling"}]
  BY <1>2 DEF IInv, TypeOK, InFlight
<1>4. TypeOK'
  BY <1>1, <1>2, <1>3 DEF IInv, TypeOK, Ledgers
<1>5. InFlight' = InFlight \ {p}
  BY <1>2 DEF IInv, TypeOK, InFlight
<1>6. Cardinality(InFlight') <= Slots
  <2>1. IsFiniteSet(InFlight) /\ Cardinality(InFlight) \in Nat
        /\ Cardinality(InFlight') \in Nat
    BY FinitePairs DEF InFlight
  <2>2. Cardinality(InFlight') <= Cardinality(InFlight)
    BY <1>5, <2>1, FS_Subset
  <2> QED
    BY <2>1, <2>2, SlotsAssumption DEF IInv, WorkersInv
<1>7. WorkersInv'
  BY <1>1, <1>2, <1>5, <1>6 DEF IInv, WorkersInv
<1> QED
  BY <1>1, <1>4, <1>7 DEF IInv

\* What holds after a step that starts no worker and ends none.
LEMMA QuietStep ==
    ASSUME IInv, NEW c, Follows(hub, c), NEW outcome, Persist(c, outcome),
           due' \in [Operations -> Nat], sweeps' \in Nat, spoiled' \in BOOLEAN,
           UNCHANGED <<up, lapsed, configured, work>>
    PROVE  IInv'
<1>1. /\ hub' \in Ledgers /\ disk' \in Ledgers /\ Proven(hub)' /\ Proven(disk)'
      /\ PastOf(hub)' \subseteq PastOf(disk)' /\ PastOf(hub) \subseteq PastOf(hub)'
  BY PersistKeeps
<1>2. TypeOK'
  BY <1>1 DEF IInv, TypeOK, Ledgers
<1>3. InFlight' = InFlight
  BY DEF InFlight
<1>4. WorkersInv'
  BY <1>1, <1>3 DEF IInv, WorkersInv
<1> QED
  BY <1>1, <1>2, <1>4 DEF IInv

\* A step that ends no worker and, if its save succeeds, starts a batch of them
\* for targets past acceptance.
LEMMA BatchStep ==
    ASSUME IInv, up, NEW batch \in SUBSET Pairs, NEW outcome,
           \A p \in batch : p[2] \notin Reserved,
           \A p, q \in batch : p[2] = q[2] => p = q,
           Cardinality(batch) <= Free,
           work' = [p \in Pairs |->
                      IF p \in batch /\ outcome = "done" THEN "begin" ELSE work[p]],
           hub' \in Ledgers, disk' \in Ledgers, Proven(hub)', Proven(disk)',
           PastOf(hub)' \subseteq PastOf(disk)', PastOf(hub) \subseteq PastOf(hub)',
           outcome = "done" => batch \subseteq PastOf(hub)',
           due' \in [Operations -> Nat], sweeps' \in Nat, spoiled' \in BOOLEAN,
           UNCHANGED <<up, lapsed, configured>>
    PROVE  IInv'
<1>1. TypeOK'
  <2>1. work' \in [Pairs -> {"none", "begin", "expired", "calling"}]
    BY DEF IInv, TypeOK
  <2> QED
    BY <2>1 DEF IInv, TypeOK, Ledgers
<1>2. InFlight' = InFlight \cup IF outcome = "done" THEN batch ELSE {}
  BY DEF InFlight
<1>3. /\ \A p, q \in InFlight' : p[2] = q[2] => p = q
      /\ Cardinality(InFlight') <= Slots
  <2>1. CASE outcome = "done"
    <3>1. InFlight' = InFlight \cup batch
      BY <1>2, <2>1
    <3> QED
      BY <3>1, StartKeeps
  <2>2. CASE outcome # "done"
    <3>1. InFlight' = InFlight
      BY <1>2, <2>2
    <3> QED
      BY <3>1 DEF IInv, WorkersInv
  <2> QED
    BY <2>1, <2>2
<1>4. InFlight' \subseteq PastOf(hub)'
  BY <1>2 DEF IInv, WorkersInv
<1>5. WorkersInv'
  BY <1>3, <1>4 DEF WorkersInv
<1> QED
  BY <1>1, <1>5 DEF IInv

\* A preview.
LEMMA PreviewStep ==
    ASSUME IInv, NEW o \in Operations, NEW a \in Actions, NEW ds, NEW outcome,
           Preview(o, a, ds, outcome)
    PROVE  IInv'
<1>1. hub \in Ledgers /\ Proven(hub) /\ a \in AllActions
  BY InputsAssumption DEF IInv, TypeOK, Ledgers
<1>2. Follows(hub, Previewed(hub, o, a, ds))
  BY <1>1, PreviewFollows DEF Preview
<1> QED
  BY <1>2, QuietStep DEF Preview, runtime, IInv, TypeOK

\* A confirmation.
LEMMA ExecuteStep ==
    ASSUME IInv, NEW o \in Operations, NEW outcome, Execute(o, outcome)
    PROVE  IInv'
<1>1. hub \in Ledgers /\ Proven(hub)
  BY DEF IInv, TypeOK, Ledgers
<1>2. Follows(hub, Confirmed(hub, o))
  BY <1>1, ConfirmFollows DEF Execute
<1>3. due' \in [Operations -> Nat]
  BY DEF Execute, IInv, TypeOK
<1> QED
  BY <1>2, <1>3, QuietStep DEF Execute, IInv, TypeOK

\* A scheduler that comes too late.
LEMMA ScheduleExpiredStep ==
    ASSUME IInv, NEW o \in Operations, NEW outcome, ScheduleExpired(o, outcome)
    PROVE  IInv'
<1>1. hub \in Ledgers /\ Proven(hub)
  BY DEF IInv, TypeOK, Ledgers
<1>2. Follows(hub, Put(hub, {o} \X Pending(o), "failed"))
  BY <1>1, PutFollows DEF Past, States
<1>3. due' \in [Operations -> Nat]
  BY DEF ScheduleExpired, IInv, TypeOK
<1> QED
  BY <1>2, <1>3, QuietStep DEF ScheduleExpired, IInv, TypeOK

\* A batch is saved as dispatched, then its workers start.
LEMMA ScheduleStep ==
    ASSUME IInv, NEW o \in Operations, NEW seen, NEW refused, NEW skipped,
           NEW outcome, Schedule(o, seen, refused, skipped, outcome)
    PROVE  IInv'
<1> DEFINE failed == refused \cup (seen \cap Reserved) \cup (seen \ configured)
           sent == {o} \X (seen \ (failed \cup skipped))
           first == Put(hub, {o} \X failed, "failed")
           second == Put(first, sent, "dispatched")
<1>1. due' \in [Operations -> Nat] /\ UNCHANGED <<up, lapsed, configured, sweeps>>
  BY DEF Schedule, IInv, TypeOK
<1>2. CASE Free <= 0
  <2>1. UNCHANGED <<hub, disk, work, spoiled>>
    BY <1>2 DEF Schedule
  <2>2. TypeOK'
    BY <1>1, <2>1 DEF IInv, TypeOK
  <2> QED
    BY <1>1, <2>1, <2>2 DEF IInv, WorkersInv, InFlight, PastOf, Proven, StateOf, Known
<1>3. CASE ~(Free <= 0)
  <2>1. /\ up /\ seen \subseteq Pending(o)
        /\ Cardinality(sent) <= Free
        /\ Persist(second, outcome) /\ StartWork(sent, outcome)
        /\ spoiled' \in BOOLEAN
    BY <1>3 DEF Schedule, Dispatched, IInv, TypeOK
  <2>2. sent \in SUBSET Pairs
        /\ \A p \in sent : /\ p[1] = o /\ p[2] \in seen /\ p[2] \notin Reserved
                           /\ p = <<o, p[2]>>
    BY <2>1 DEF Pending, Pairs
  <2> HIDE DEF sent, failed
  <2>3. hub \in Ledgers /\ Proven(hub)
    BY DEF IInv, TypeOK, Ledgers
  <2>4. /\ Follows(hub, first)
        /\ \A p \in Pairs : StateOf(first, p) =
              IF p \in {o} \X failed /\ Known(hub, p[1]) THEN "failed" ELSE StateOf(hub, p)
    BY <2>3, PutFollows DEF Past, States
  <2>5. first \in Ledgers /\ Proven(first)
    BY <2>4 DEF Follows
  <2>6. /\ Follows(first, second)
        /\ \A p \in Pairs : StateOf(second, p) =
              IF p \in sent /\ Known(first, p[1]) THEN "dispatched" ELSE StateOf(first, p)
    <3> HIDE DEF first
    <3> QED
      BY <2>5, PutFollows DEF Past, States
  <2>7. Follows(hub, second)
    <3> HIDE DEF first, second
    <3> QED
      BY <2>4, <2>6, FollowsOn
  <2>8. /\ hub' \in Ledgers /\ disk' \in Ledgers /\ Proven(hub)' /\ Proven(disk)'
        /\ PastOf(hub)' \subseteq PastOf(disk)' /\ PastOf(hub) \subseteq PastOf(hub)'
        /\ outcome = "done" => hub' = second
    <3> HIDE DEF second
    <3> QED
      BY <2>1, <2>7, PersistKeeps
  <2>9. sent \subseteq PastOf(second)
    <3> SUFFICES ASSUME NEW p \in sent
                 PROVE  p \in PastOf(second)
      OBVIOUS
    <3>1. p \in Pairs /\ p[1] = o /\ p = <<o, p[2]>> /\ p[2] \in Pending(o)
      BY <2>1, <2>2
    <3>2. StateOf(hub, p) = "accepted"
      BY <3>1 DEF Pending
    <3>3. StateOf(first, p) \in {"failed", "accepted"}
      BY <2>4, <3>1, <3>2
    <3>4. Known(first, p[1])
      BY <3>3 DEF StateOf
    <3>5. StateOf(second, p) = "dispatched"
      BY <2>6, <3>1, <3>4
    <3> QED
      BY <3>1, <3>5 DEF PastOf, Past
  <2>10. outcome = "done" => sent \subseteq PastOf(hub')
    BY <2>8, <2>9
  <2> HIDE DEF first, second
  <2>11. \A p, q \in sent : p[2] = q[2] => p = q
    BY <2>2
  <2>12. work' = [p \in Pairs |-> IF p \in sent /\ outcome = "done" THEN "begin" ELSE work[p]]
    BY <2>1 DEF StartWork
  <2> QED
    BY <1>1, <2>1, <2>2, <2>8, <2>10, <2>11, <2>12, BatchStep DEF IInv, TypeOK
<1> QED
  BY <1>2, <1>3

\* A worker begins.
LEMMA BeginStep ==
    ASSUME IInv, NEW p \in Pairs, Begin(p)
    PROVE  IInv'
<1>1. TypeOK'
  BY DEF IInv, TypeOK, Begin
<1>2. InFlight' = InFlight
  BY DEF IInv, TypeOK, Begin, InFlight
<1>3. UNCHANGED <<up, hub, disk>>
  BY DEF Begin
<1> QED
  BY <1>1, <1>2, <1>3 DEF IInv, WorkersInv, PastOf, Proven, StateOf, Known

\* A call that came to nothing is settled.
LEMMA SettleFailureStep ==
    ASSUME IInv, NEW p \in Pairs, NEW outcome, SettleFailure(p, outcome)
    PROVE  IInv'
<1>1. p \in InFlight
  BY DEF SettleFailure, InFlight
<1>2. Follows(hub, Put(hub, {p}, "failed"))
  BY PutFollows DEF IInv, TypeOK, Ledgers, Past, States
<1> QED
  BY <1>1, <1>2, SettleStep DEF SettleFailure

\* A receipt is settled.
LEMMA SettleReceiptStep ==
    ASSUME IInv, NEW p \in Pairs, NEW r \in Receipts, NEW status, NEW outcome,
           SettleReceipt(p, r, status, outcome)
    PROVE  IInv'
<1>1. p \in InFlight
  BY DEF SettleReceipt, InFlight
<1>2. Known(hub, p[1])
  BY DEF SettleReceipt, Applies, StateOf
<1>3. Follows(hub, Applied(hub, p, r))
  BY <1>2, ApplyFollows DEF SettleReceipt, Answers, IInv, TypeOK, Ledgers
<1> QED
  BY <1>1, <1>3, SettleStep DEF SettleReceipt

\* A sweep: what has expired or is not configured fails, and workers start for
\* headsets nobody works on.
LEMMA SweepStep ==
    ASSUME IInv, NEW late, NEW again, NEW outcome, Sweep(late, again, outcome)
    PROVE  IInv'
<1> DEFINE over == {p \in Pairs : /\ StateOf(hub, p) = "dispatched"
                                  /\ p[1] \in late \/ p[2] \notin configured}
<1>1. hub \in Ledgers /\ disk \in Ledgers /\ Proven(hub) /\ Proven(disk)
      /\ PastOf(hub) \subseteq PastOf(disk)
  BY DEF IInv, TypeOK, Ledgers
<1>2. /\ up /\ sweeps' \in Nat /\ spoiled' \in BOOLEAN
      /\ due' \in [Operations -> Nat] /\ UNCHANGED <<up, lapsed, configured>>
  BY DEF Sweep, IInv, TypeOK
<1>3. /\ hub' \in Ledgers /\ disk' \in Ledgers /\ Proven(hub)' /\ Proven(disk)'
      /\ PastOf(hub)' \subseteq PastOf(disk)' /\ PastOf(hub) \subseteq PastOf(hub)'
  <2>1. CASE over = {}
    <3>1. UNCHANGED <<hub, disk>>
      BY <2>1 DEF Sweep
    <3> QED
      BY <1>1, <3>1 DEF PastOf, Proven, StateOf, Known
  <2>2. CASE over # {}
    <3>1. Persist(Put(hub, over, "failed"), outcome)
      BY <2>2 DEF Sweep
    <3>2. Follows(hub, Put(hub, over, "failed"))
      BY <1>1, PutFollows DEF Past, States
    <3> HIDE DEF over
    <3> QED
      BY <3>1, <3>2, PersistKeeps
  <2> QED
    BY <2>1, <2>2
<1>4. /\ again \subseteq {p \in Idle(late) : p[2] \notin Reserved}
      /\ \A p, q \in again : p[2] = q[2] => p = q
      /\ Cardinality(again) <= Free
  BY DEF Sweep, Chosen
<1>5. /\ again \in SUBSET Pairs
      /\ \A p \in again : p[2] \notin Reserved
      /\ again \subseteq PastOf(hub)
  BY <1>4 DEF Idle, PastOf, Past
<1>6. work' = [p \in Pairs |-> IF p \in again /\ outcome = "done" THEN "begin" ELSE work[p]]
  BY DEF Sweep
<1>7. outcome = "done" => again \subseteq PastOf(hub)'
  BY <1>3, <1>5
<1> HIDE DEF over
<1> QED
  BY <1>2, <1>3, <1>4, <1>5, <1>6, <1>7, BatchStep

\* A preview expires.
LEMMA LapseStep == ASSUME IInv, NEW o \in Operations, Lapse(o) PROVE IInv'
<1>1. TypeOK' /\ UNCHANGED <<up, hub, disk, work>>
  BY DEF IInv, TypeOK, Lapse, runtime
<1> QED
  BY <1>1 DEF IInv, WorkersInv, InFlight, PastOf, Proven, StateOf, Known

\* The hub stops: its workers are gone.
LEMMA CrashStep == ASSUME IInv, Crash PROVE IInv'
<1>1. TypeOK' /\ UNCHANGED <<hub, disk>>
  BY DEF IInv, TypeOK, Crash
<1>2. InFlight' = {}
  BY DEF Crash, InFlight
<1>3. Cardinality(InFlight') <= Slots
  BY <1>2, FS_EmptySet, SlotsAssumption
<1> QED
  BY <1>1, <1>2, <1>3 DEF IInv, WorkersInv, PastOf, Proven, StateOf, Known

\* The hub starts with what is saved.
LEMMA RestartStep ==
    ASSUME IInv, NEW devices \in Configurations, Restart(devices)
    PROVE  IInv'
<1>1. TypeOK'
  BY DevicesAssumption DEF IInv, TypeOK, Restart
<1>2. hub' = disk /\ disk' = disk /\ InFlight' = {}
  BY DEF IInv, WorkersInv, Restart, InFlight
<1>3. Cardinality(InFlight') <= Slots
  BY <1>2, FS_EmptySet, SlotsAssumption
<1> QED
  BY <1>1, <1>2, <1>3 DEF IInv, WorkersInv, PastOf, Proven, StateOf, Known

-----------------------------------------------------------------------------
(* The theorems.                                                             *)

\* The invariant holds at the start.
LEMMA Initially == Init => IInv
<1> SUFFICES ASSUME Init PROVE IInv
  OBVIOUS
<1>1. TypeOK
  BY DEF Init, TypeOK
<1>2. InFlight = {}
  BY DEF Init, InFlight
<1>3. Cardinality(InFlight) <= Slots
  BY <1>2, FS_EmptySet, SlotsAssumption
<1>4. \A p \in Pairs : StateOf(hub, p) = "untargeted" /\ StateOf(disk, p) = "untargeted"
  BY PairFields DEF Init, StateOf, Known
<1> QED
  BY <1>1, <1>2, <1>3, <1>4 DEF IInv, WorkersInv, Proven, PastOf, Past

\* Every step keeps the inductive invariant.
LEMMA Inductive == IInv /\ [Next]_vars => IInv'
<1> SUFFICES ASSUME IInv, [Next]_vars PROVE IInv'
  OBVIOUS
<1>1. ASSUME NEW o \in Operations, NEW a \in Actions, NEW c \in Outcomes,
             NEW ds \in EligibleChoices(o), Preview(o, a, ds, c)
      PROVE  IInv'
  BY <1>1, PreviewStep
<1>2. ASSUME NEW o \in Operations, NEW c \in Outcomes, Execute(o, c)
      PROVE  IInv'
  BY <1>2, ExecuteStep
<1>3. ASSUME NEW o \in Operations, Scheduling(o)
      PROVE  IInv'
  BY <1>3, ScheduleExpiredStep, ScheduleStep DEF Scheduling
<1>4. ASSUME NEW p \in Pairs, Begin(p) \/ Settling(p)
      PROVE  IInv'
  BY <1>4, BeginStep, SettleFailureStep, SettleReceiptStep DEF Settling
<1>5. ASSUME Sweeping
      PROVE  IInv'
  BY <1>5, SweepStep DEF Sweeping
<1>6. ASSUME Task PROVE IInv'
  BY <1>3, <1>4, <1>5, <1>6 DEF Task
<1>7. CASE \E o \in Operations : Lapse(o)
  BY <1>7, LapseStep
<1>8. CASE Crash
  BY <1>8, CrashStep
<1>9. CASE \E devices \in Configurations : Restart(devices)
  BY <1>9, RestartStep
<1>10. CASE UNCHANGED vars
  <2>1. TypeOK' /\ UNCHANGED <<up, hub, disk, work>>
    BY <1>10 DEF IInv, TypeOK, vars, runtime
  <2> QED
    BY <2>1 DEF IInv, WorkersInv, InFlight, PastOf, Proven, StateOf, Known
<1> QED
  BY <1>1, <1>2, <1>6, <1>7, <1>8, <1>9, <1>10 DEF Next

\* The inductive invariant holds in every state.
LEMMA Invariance == Spec => []IInv
BY Initially, Inductive, PTL DEF Spec

\* Every variable has its type in every state of the hub.
THEOREM TypeCorrect == Spec => []TypeOK
<1>1. IInv => TypeOK
  BY DEF IInv
<1> QED
  BY <1>1, Invariance, PTL

\* Whatever schedulers and sweeps overlap, a headset has one worker at most and
\* all workers fit the slots (prepare_pending_connectivity_batch,
\* schedule_recovered_connectivity_work, connectivity_dispatch_slots).
THEOREM OneWorkerEach == Spec => []OneWorkerPerHeadset
<1>1. IInv => OneWorkerPerHeadset
  <2> SUFFICES ASSUME IInv PROVE OneWorkerPerHeadset
    OBVIOUS
  <2> DEFINE device == [p \in InFlight |-> p[2]]
  <2>1. IsFiniteSet(InFlight)
    BY FinitePairs DEF InFlight
  <2>2. device \in Bijection(InFlight, Reserved)
    <3>1. device \in [InFlight -> Reserved]
      BY DEF Reserved
    <3>2. \A p, q \in InFlight : device[p] = device[q] => p = q
      BY DEF IInv, WorkersInv
    <3>3. \A d \in Reserved : \E p \in InFlight : device[p] = d
      BY DEF Reserved
    <3> HIDE DEF device
    <3> QED
      BY <3>1, <3>2, <3>3 DEF Bijection, Injection, IsInjective, Surjection
  <2> HIDE DEF device
  <2>3. Cardinality(Reserved) = Cardinality(InFlight)
    BY <2>1, <2>2, FS_Bijection DEF ExistsBijection
  <2> QED
    BY <2>3 DEF OneWorkerPerHeadset, IInv, WorkersInv
<1> QED
  BY <1>1, Invariance, PTL

\* An applied target has the facts its action is for, in memory and on disk
\* (derived_effect_applied, QuestWifiAdbOwnerReceipt::validate,
\* apply_quest_wifi_adb_receipt).
THEOREM AppliedProven == Spec => []AppliedIsProven
<1>1. IInv => AppliedIsProven
  BY DEF IInv, Proven, ProvenBy, AppliedIsProven
<1> QED
  BY <1>1, Invariance, PTL

\* The provider is called only for a target that is durably past acceptance:
\* the batch is saved before its workers start, and no later save takes a
\* target back.
THEOREM CalledStaysDurable == Spec => []CalledIsDurable
<1>1. IInv => CalledIsDurable
  <2> SUFFICES ASSUME IInv, NEW p \in Pairs, work[p] = "calling"
               PROVE  StateOf(disk, p) \in Past
    BY DEF CalledIsDurable, Past
  <2>1. p \in InFlight
    BY DEF InFlight
  <2>2. p \in PastOf(disk)
    BY <2>1 DEF IInv, WorkersInv
  <2> QED
    BY <2>2 DEF PastOf
<1> QED
  BY <1>1, Invariance, PTL
=============================================================================
