------------------------ MODULE PackageRelease_proofs ------------------------
(***************************************************************************)
(* Proofs about PackageRelease for every set of headsets, operations and   *)
(* requests, every parallelism and every number of crashes.                *)
(*                                                                         *)
(* The argument: whatever a call makes of a target it moves it forward     *)
(* (Step): a claim is replaced only when it has lapsed, by a request the   *)
(* target has not seen; what is acknowledged keeps its claim; what is      *)
(* settled stays.  The durable slots are the hub moved forward, so a       *)
(* restart is such a step too; and a claim the owner holds is the one in   *)
(* force for its target or has lapsed.  What is stored is always what the  *)
(* contract accepts, so that it can be said what a guard lets through.     *)
(***************************************************************************)
EXTENDS PackageRelease, FiniteSetTheorems, TLAPS

Operations == [retention : {"active", "archived"}, expires : Deadlines,
               targets : UNION {[S -> Target] : S \in SUBSET Devices}]
Ledger == [OperationIds -> Operations \cup {NoOperation}]

\* How a call may move a target t to u at a time.
Step(t, u, time) ==
    /\ t.consumed \subseteq u.consumed
    /\ \/ u.owner_claim = t.owner_claim
       \/ /\ t.owner_claim = NoClaim \/ Lapsed(t, time)
          /\ u.owner_claim = NoClaim \/ u.owner_claim.request \in Requests \ t.consumed
    /\ t.lifecycle \in Terminal => u = t
    /\ t.acknowledged # None =>
          /\ u.owner_claim = t.owner_claim /\ u.acknowledged = t.acknowledged
          /\ \/ u.progress = t.progress
             \/ t.progress = NoProgress
             \/ u.progress.observed > t.progress.observed

Moves(h, g, time) ==
    \A o \in Known(h) :
        /\ o \in Known(g) /\ Members(g[o]) = Members(h[o])
        /\ \A d \in Members(h[o]) : Step(h[o].targets[d], g[o].targets[d], time)

TargetsFit(h) == \A o \in Known(h) : \A d \in Members(h[o]) : TargetValid(h[o].targets[d])

ClaimsFit(h) ==
    \A o \in Known(h) : \A d \in Eligible(h[o]) : ClaimsValid(h[o].targets[d])

\* An operation is confirmed for all its targets at once.
ConfirmedAtOnce(h) ==
    \A o \in Known(h) : \A d, e \in Eligible(h[o]) :
        h[o].targets[d].lifecycle = "proposed" => h[o].targets[e].lifecycle = "proposed"

\* No two active targets have consumed the same request.
ConsumedApart(h) ==
    \A o, p \in Active(h) : \A d \in Members(h[o]), e \in Members(h[p]) :
        o # p \/ d # e => h[o].targets[d].consumed \cap h[p].targets[e].consumed = {}

Good(h) ==
    /\ h \in Ledger
    /\ TargetsFit(h) /\ ClaimsFit(h) /\ ConfirmedAtOnce(h) /\ ConsumedApart(h)

\* A call that adds, archives and deletes no operation.
SameOperations(h, g) == Known(g) = Known(h) /\ Active(g) = Active(h)

HeldClaim == [operation : OperationIds, device : Devices, request : Requests,
              expires : Deadlines]

\* A claim of C is the one in force for its target, or has lapsed.
Honours(h, C, time) ==
    \A c \in C :
        /\ c.operation \in Known(h) /\ c.device \in Members(h[c.operation])
        /\ c.request \in TargetOf(h, c).consumed
        /\ IF Binds(h, c) THEN TargetOf(h, c).owner_claim.expires = c.expires
           ELSE c.expires <= time

HeldApart ==
    \A c1, c2 \in held :
        c1.operation = c2.operation /\ c1.device = c2.device /\ c1.request = c2.request
            => c1 = c2

IInv ==
    /\ now \in Times /\ facts \in [Devices -> Facts] /\ held \subseteq HeldClaim
    /\ Good(hub) /\ Good(disk) /\ Moves(hub, disk, now)
    /\ Honours(hub, held, now) /\ Honours(disk, held, now)
    /\ HeldApart

-----------------------------------------------------------------------------
(* Lemmas about the ledger.                                                  *)

\* A stored operation is told from none by its retention.
LEMMA KnownOperations ==
    ASSUME NEW h \in Ledger
    PROVE  /\ \A o \in OperationIds : o \in Known(h) <=> h[o] \in Operations
           /\ \A o \in Known(h) :
                 /\ o \in OperationIds /\ h[o] \in Operations
                 /\ Members(h[o]) \subseteq Devices
                 /\ \A d \in Members(h[o]) : h[o].targets[d] \in Target
<1>1. NoOperation \notin Operations
  BY NoneAssumption DEF NoOperation, Operations
<1>2. \A o \in OperationIds : o \in Known(h) <=> h[o] \in Operations
  BY <1>1 DEF Known, Ledger
<1>3. ASSUME NEW op \in Operations
      PROVE  /\ Members(op) \subseteq Devices
             /\ \A d \in Members(op) : op.targets[d] \in Target
  <2>1. PICK S \in SUBSET Devices : op.targets \in [S -> Target]
    BY DEF Operations
  <2> QED
    BY <2>1 DEF Members
<1> QED
  BY <1>2, <1>3 DEF Known

\* What replacing one target changes.
LEMMA Replacing ==
    ASSUME NEW h \in Ledger, NEW o \in Known(h), NEW d \in Members(h[o]), NEW t \in Target
    PROVE  LET g == Replace(h, o, d, t) IN
           /\ g \in Ledger /\ Known(g) = Known(h) /\ Active(g) = Active(h)
           /\ \A p \in Known(h) :
                 /\ g[p].expires = h[p].expires /\ g[p].retention = h[p].retention
                 /\ Members(g[p]) = Members(h[p])
                 /\ \A e \in Members(h[p]) :
                       g[p].targets[e] = IF p = o /\ e = d THEN t ELSE h[p].targets[e]
<1> DEFINE g == Replace(h, o, d, t)
<1>0. o \in OperationIds /\ h[o] \in Operations
  BY KnownOperations
<1>1. g = [h EXCEPT ![o] = [h[o] EXCEPT !.targets = [h[o].targets EXCEPT ![d] = t]]]
  BY DEF Replace
<1>2. PICK S \in SUBSET Devices : h[o].targets \in [S -> Target]
  BY <1>0 DEF Operations
<1> DEFINE f == [h[o].targets EXCEPT ![d] = t]
<1>3. f \in [S -> Target] /\ f[d] = t /\ \A e \in S : e # d => f[e] = h[o].targets[e]
  BY <1>2 DEF Members
<1> HIDE DEF f
<1> DEFINE op == [h[o] EXCEPT !.targets = f]
<1>4. /\ op \in Operations /\ op.targets = f
      /\ op.retention = h[o].retention /\ op.expires = h[o].expires
  BY <1>0, <1>3 DEF Operations
<1>5. g = [h EXCEPT ![o] = op]
  BY <1>1 DEF f
<1> HIDE DEF op, g
<1>6. g \in Ledger /\ g[o] = op /\ \A p \in OperationIds : p # o => g[p] = h[p]
  BY <1>0, <1>4, <1>5 DEF Ledger
<1>7. Known(g) = Known(h)
  BY <1>4, <1>6, KnownOperations, <1>0 DEF Known
<1>8. Active(g) = Active(h)
  BY <1>4, <1>6, <1>7, KnownOperations DEF Active
<1>9. ASSUME NEW p \in Known(h)
      PROVE  /\ g[p].expires = h[p].expires /\ g[p].retention = h[p].retention
             /\ Members(g[p]) = Members(h[p])
             /\ \A e \in Members(h[p]) :
                   g[p].targets[e] = IF p = o /\ e = d THEN t ELSE h[p].targets[e]
  <2>1. CASE p = o
    BY <2>1, <1>2, <1>3, <1>4, <1>6 DEF Members
  <2>2. CASE p # o
    BY <2>2, <1>6, KnownOperations
  <2> QED
    BY <2>1, <2>2
<1> QED
  BY <1>6, <1>7, <1>8, <1>9 DEF g

\* A call that moves one target forward, with at most a request that no active
\* target has consumed, keeps the ledger in order.
LEMMA ReplacingMoves ==
    ASSUME NEW h, Good(h), NEW o \in Known(h), NEW d \in Members(h[o]),
           NEW u \in Target, NEW time, Step(h[o].targets[d], u, time),
           OperationValid(Replace(h, o, d, u)[o]),
           \/ u.consumed = h[o].targets[d].consumed
           \/ \E r \in Requests \ Consumed(h) : u.consumed = h[o].targets[d].consumed \cup {r},
           u.facts = h[o].targets[d].facts,
           u.lifecycle # "proposed", h[o].targets[d].lifecycle # "proposed"
    PROVE  LET g == Replace(h, o, d, u) IN
           Good(g) /\ Moves(h, g, time) /\ SameOperations(h, g)
<1> DEFINE g == Replace(h, o, d, u)
           t == h[o].targets[d]
<1>1. /\ g \in Ledger /\ Known(g) = Known(h) /\ Active(g) = Active(h)
      /\ \A p \in Known(h) :
            /\ Members(g[p]) = Members(h[p])
            /\ \A e \in Members(h[p]) :
                  g[p].targets[e] = IF p = o /\ e = d THEN u ELSE h[p].targets[e]
  BY Replacing DEF Good
<1>u. TargetValid(u) /\ (u.facts \in Fit => ClaimsValid(u))
  <2>1. /\ TargetValid(g[o].targets[d])
        /\ d \in Eligible(g[o]) => ClaimsValid(g[o].targets[d])
    BY <1>1 DEF OperationValid, TargetsValid, g
  <2>2. g[o].targets[d] = u /\ d \in Members(g[o])
    BY <1>1
  <2> HIDE DEF g
  <2> QED
    BY <2>1, <2>2 DEF Eligible
<1> HIDE DEF g
<1>c. ClaimsFit(g)
  <2> SUFFICES ASSUME NEW p \in Known(h), NEW e \in Eligible(g[p])
               PROVE  ClaimsValid(g[p].targets[e])
    BY <1>1 DEF ClaimsFit
  <2>1. e \in Members(h[p]) /\ g[p].targets[e].facts \in Fit
    BY <1>1 DEF Eligible
  <2>2. CASE p = o /\ e = d
    BY <1>1, <1>u, <2>1, <2>2
  <2>3. CASE ~(p = o /\ e = d)
    <3>1. g[p].targets[e] = h[p].targets[e]
      BY <1>1, <2>1, <2>3
    <3> QED
      BY <2>1, <3>1 DEF Good, ClaimsFit, Eligible
  <2> QED
    BY <2>2, <2>3
<1>2. ASSUME NEW s, NEW p \in Known(h), NEW e \in Members(h[p]), s = h[p].targets[e]
      PROVE  Step(s, s, time)
  BY DEF Step
<1>3. Moves(h, g, time)
  BY <1>1, <1>2 DEF Moves
<1>4. TargetsFit(g)
  BY <1>1, <1>u DEF TargetsFit, Good
<1>5. ConfirmedAtOnce(g)
  <2>1. \A p \in Known(h) : Eligible(g[p]) = Eligible(h[p])
    BY <1>1 DEF Eligible
  <2> SUFFICES ASSUME NEW p \in Known(h), NEW a \in Eligible(h[p]), NEW b \in Eligible(h[p]),
                      g[p].targets[a].lifecycle = "proposed"
               PROVE  g[p].targets[b].lifecycle = "proposed"
    BY <1>1, <2>1 DEF ConfirmedAtOnce
  <2>2. a \in Members(h[p]) /\ b \in Members(h[p])
    BY DEF Eligible
  <2>3. h[p].targets[a].lifecycle = "proposed"
    BY <1>1, <2>2
  <2>4. h[p].targets[b].lifecycle = "proposed"
    BY <2>3 DEF Good, ConfirmedAtOnce
  <2> QED
    BY <1>1, <2>2, <2>4
<1>6. ConsumedApart(g)
  <2>1. \A p \in Active(h) : p \in Known(h)
    BY DEF Active
  <2>2. \A p \in Known(h) : \A e \in Members(h[p]) :
            p # o \/ e # d => g[p].targets[e].consumed = h[p].targets[e].consumed
    BY <1>1
  <2>3. g[o].targets[d].consumed = u.consumed
    BY <1>1
  <2>4. \A p, q \in Active(h) : \A e \in Members(h[p]), f \in Members(h[q]) :
            p # q \/ e # f => h[p].targets[e].consumed \cap h[q].targets[f].consumed = {}
    BY DEF ConsumedApart, Good
  <2>5. CASE u.consumed = h[o].targets[d].consumed
    <3>1. \A p \in Known(h) : \A e \in Members(h[p]) :
              g[p].targets[e].consumed = h[p].targets[e].consumed
      BY <2>2, <2>3, <2>5
    <3> QED
      BY <1>1, <2>1, <2>4, <3>1 DEF ConsumedApart
  <2>6. ASSUME NEW r \in Requests \ Consumed(h), u.consumed = h[o].targets[d].consumed \cup {r}
        PROVE  ConsumedApart(g)
    <3>1. \A p \in Active(h) : \A e \in Members(h[p]) : r \notin h[p].targets[e].consumed
      BY <2>6 DEF Consumed
    <3>2. \A p \in Known(h) : \A e \in Members(h[p]) :
              g[p].targets[e].consumed =
                IF p = o /\ e = d THEN h[p].targets[e].consumed \cup {r}
                ELSE h[p].targets[e].consumed
      BY <2>2, <2>3, <2>6
    <3> SUFFICES ASSUME NEW p \in Active(h), NEW q \in Active(h),
                        NEW e \in Members(h[p]), NEW f \in Members(h[q]), p # q \/ e # f
                 PROVE  g[p].targets[e].consumed \cap g[q].targets[f].consumed = {}
      BY <1>1, <2>1 DEF ConsumedApart
    <3>3. h[p].targets[e].consumed \cap h[q].targets[f].consumed = {}
      BY <2>4
    <3>4. r \notin h[p].targets[e].consumed /\ r \notin h[q].targets[f].consumed
      BY <3>1
    <3>5. CASE p = o /\ e = d
      BY <2>1, <3>2, <3>3, <3>4, <3>5
    <3>6. CASE ~(p = o /\ e = d)
      BY <2>1, <3>2, <3>3, <3>4, <3>6
    <3> QED
      BY <3>5, <3>6
  <2> QED
    BY <2>5, <2>6
<1> QED
  BY <1>1, <1>3, <1>4, <1>c, <1>5, <1>6 DEF Good, SameOperations, g

\* A step twice is a step.
LEMMA StepsCompose ==
    ASSUME NEW t \in Target, NEW u \in Target, NEW v \in Target, NEW time,
           Step(t, u, time), Step(u, v, time)
    PROVE  Step(t, v, time)
<1>1. t.consumed \subseteq v.consumed
  BY DEF Step
<1>2. t.lifecycle \in Terminal => v = t
  BY DEF Step
<1>3. \/ v.owner_claim = t.owner_claim
      \/ /\ t.owner_claim = NoClaim \/ Lapsed(t, time)
         /\ v.owner_claim = NoClaim \/ v.owner_claim.request \in Requests \ t.consumed
  BY DEF Step, Lapsed
<1>4. ASSUME t.acknowledged # None
      PROVE  /\ v.owner_claim = t.owner_claim /\ v.acknowledged = t.acknowledged
             /\ \/ v.progress = t.progress
                \/ t.progress = NoProgress
                \/ v.progress.observed > t.progress.observed
  <2>1. \A x \in Target : x.progress = NoProgress \/ x.progress.observed \in Int
    BY DEF Target, Progress, Times
  <2>2. CASE t.progress = NoProgress
    BY <2>2, <1>4 DEF Step
  <2>3. CASE u.progress = NoProgress /\ t.progress # NoProgress
    <3>1. u.progress.observed > t.progress.observed
      BY <2>3, <1>4 DEF Step
    <3>2. u.progress.observed = 0 /\ t.progress.observed \in Nat
      BY <2>3 DEF NoProgress, Target, Progress, Times
    <3> QED
      BY <3>1, <3>2
  <2>4. CASE u.progress # NoProgress /\ t.progress # NoProgress
    <3>1. v.progress = u.progress \/ v.progress.observed > u.progress.observed
      BY <2>4, <1>4 DEF Step
    <3>2. u.progress = t.progress \/ u.progress.observed > t.progress.observed
      BY <2>4, <1>4 DEF Step
    <3>3. /\ u.progress.observed \in Int /\ t.progress.observed \in Int
          /\ v.progress.observed \in Int
      BY <2>1, <2>4 DEF NoProgress
    <3> QED
      BY <3>1, <3>2, <3>3, <1>4 DEF Step
  <2> QED
    BY <2>2, <2>3, <2>4
<1> QED
  BY <1>1, <1>2, <1>3, <1>4 DEF Step

\* What the owner holds stays honoured by a ledger that moved on.
LEMMA StillHonoured ==
    ASSUME NEW h \in Ledger, NEW g \in Ledger, NEW time \in Int, Moves(h, g, time),
           NEW C \in SUBSET HeldClaim, Honours(h, C, time)
    PROVE  Honours(g, C, time)
<1> SUFFICES ASSUME NEW c \in C
             PROVE  /\ c.operation \in Known(g) /\ c.device \in Members(g[c.operation])
                    /\ c.request \in TargetOf(g, c).consumed
                    /\ IF Binds(g, c) THEN TargetOf(g, c).owner_claim.expires = c.expires
                       ELSE c.expires <= time
  BY DEF Honours
<1> DEFINE t == TargetOf(h, c)
           u == TargetOf(g, c)
<1>1. /\ c.operation \in Known(h) /\ c.device \in Members(h[c.operation])
      /\ c.request \in t.consumed
      /\ IF Binds(h, c) THEN t.owner_claim.expires = c.expires ELSE c.expires <= time
  BY DEF Honours
<1>2. c.operation \in Known(g) /\ c.device \in Members(g[c.operation]) /\ Step(t, u, time)
  BY <1>1 DEF Moves, TargetOf
<1>3. c.request \in u.consumed
  BY <1>1, <1>2 DEF Step
<1>4. Binds(h, c) <=> t.owner_claim.request = c.request
  BY <1>1 DEF Binds
<1>5. Binds(g, c) <=> u.owner_claim.request = c.request
  BY <1>2 DEF Binds
<1>6. c.request # None
  BY NoneAssumption DEF HeldClaim
<1> HIDE DEF t, u
<1>7. CASE u.owner_claim = t.owner_claim
  BY <1>1, <1>2, <1>3, <1>4, <1>5, <1>7 DEF u
<1>8. CASE u.owner_claim # t.owner_claim
  <2>1. t.owner_claim = NoClaim \/ Lapsed(t, time)
    BY <1>2, <1>8 DEF Step
  <2>2. u.owner_claim.request # c.request
    BY <1>1, <1>2, <1>6, <1>8 DEF Step, NoClaim
  <2>3. c.expires <= time
    BY <1>1, <1>4, <1>6, <2>1 DEF NoClaim, Lapsed
  <2> QED
    BY <1>2, <1>3, <1>5, <2>2, <2>3 DEF u
<1> QED
  BY <1>7, <1>8

-----------------------------------------------------------------------------
(* Every call keeps the ledger in order and moves its targets forward.       *)

\* A preview adds an operation whose members are proposed.
LEMMA PreviewGood ==
    ASSUME now \in Times, facts \in [Devices -> Facts],
           NEW h, Good(h), NEW o \in OperationIds, o \notin Known(h),
           NEW members \in SUBSET Devices,
           OperationValid(Previewed(h, o, members)[o])
    PROVE  LET g == Previewed(h, o, members) IN Good(g) /\ Moves(h, g, now)
<1> DEFINE ts == [d \in members |-> NewTarget(facts[d])]
           op == [retention |-> "active", expires |-> now + PreviewLifetime, targets |-> ts]
           g == Previewed(h, o, members)
<1>1. \A d \in members : ts[d] = NewTarget(facts[d]) /\ ts[d] \in Target
  <2>1. \A f \in Facts : NewTarget(f) \in Target
    BY DEF NewTarget, Target, Lifecycles, Stages
  <2> QED
    BY <2>1
<1>2. ts \in [members -> Target]
  BY <1>1
<1>3. now + PreviewLifetime \in Deadlines
  BY BoundsAssumption DEF Times, Deadlines
<1>4. g = [h EXCEPT ![o] = op]
  BY DEF Previewed
<1> HIDE DEF ts
<1>5. op \in Operations
  BY <1>2, <1>3 DEF Operations
<1>6. op.targets = ts /\ Members(op) = members /\ op.retention = "active"
  BY <1>2 DEF Members
<1> HIDE DEF op, g
<1>7. g \in Ledger /\ g[o] = op /\ \A p \in OperationIds : p # o => g[p] = h[p]
  BY <1>4, <1>5 DEF Good, Ledger
<1>8. Known(g) = Known(h) \cup {o}
  BY <1>5, <1>7, KnownOperations DEF Known
<1>9. \A p \in Known(h) : g[p] = h[p]
  BY <1>7, KnownOperations DEF Good
<1>10. Moves(h, g, now)
  BY <1>8, <1>9 DEF Moves, Step
<1>11. TargetsFit(g)
  <2>1. \A d \in Members(g[o]) : TargetValid(g[o].targets[d])
    BY DEF OperationValid, TargetsValid, g
  <2> QED
    BY <1>8, <1>9, <2>1 DEF TargetsFit, Good
<1>c. ClaimsFit(g)
  <2>1. \A d \in Eligible(g[o]) : ClaimsValid(g[o].targets[d])
    BY DEF OperationValid, TargetsValid, Eligible, g
  <2> QED
    BY <1>8, <1>9, <2>1 DEF ClaimsFit, Good
<1>12. ConfirmedAtOnce(g)
  <2>1. \A d \in Eligible(op) : op.targets[d].lifecycle = "proposed"
    <3> SUFFICES ASSUME NEW d \in Eligible(op) PROVE op.targets[d].lifecycle = "proposed"
      OBVIOUS
    <3>1. d \in members /\ op.targets[d].facts \in Fit
      BY <1>6 DEF Eligible
    <3>2. op.targets[d] = NewTarget(facts[d])
      BY <1>1, <1>6, <3>1
    <3> QED
      BY <3>1, <3>2 DEF NewTarget
  <2> QED
    BY <1>7, <1>8, <1>9, <2>1 DEF ConfirmedAtOnce, Good
<1>13. ConsumedApart(g)
  <2>1. \A d \in Members(op) : op.targets[d].consumed = {}
    <3>1. \A f : NewTarget(f).consumed = {}
      BY DEF NewTarget
    <3> QED
      BY <1>1, <1>6, <3>1
  <2>2. \A p \in Active(g) : p = o \/ (p \in Active(h) /\ g[p] = h[p])
    BY <1>8, <1>9 DEF Active
  <2> QED
    BY <1>7, <2>1, <2>2 DEF ConsumedApart, Good
<1> QED
  BY <1>7, <1>10, <1>11, <1>c, <1>12, <1>13 DEF Good, g

\* A confirmation accepts the eligible members.
LEMMA ExecuteGood ==
    ASSUME NEW h, Good(h), NEW o \in Known(h), Lifecycle(h[o]) = "proposed",
           OperationValid(Executed(h, o)[o])
    PROVE  LET g == Executed(h, o) IN
           Good(g) /\ Moves(h, g, now) /\ SameOperations(h, g)
<1> DEFINE g == Executed(h, o)
           op == h[o]
           ts == [d \in Members(op) |->
                    IF d \in Eligible(op)
                    THEN [op.targets[d] EXCEPT !.lifecycle = "accepted", !.stage = "dispatch_ready"]
                    ELSE op.targets[d]]
<1>1. /\ o \in OperationIds /\ op \in Operations /\ Members(op) \subseteq Devices
      /\ \A d \in Members(op) : op.targets[d] \in Target
  BY KnownOperations DEF Good
<1>2. \A d \in Eligible(op) : op.targets[d].lifecycle = "proposed"
  <2>1. Some(op, {"proposed"})
    BY DEF Lifecycle
  <2> QED
    BY <2>1 DEF Some, Good, ConfirmedAtOnce
<1>3. ts \in [Members(op) -> Target]
  BY <1>1 DEF Target, Lifecycles, Stages
<1>4. g = [h EXCEPT ![o] = [op EXCEPT !.targets = ts]]
  BY DEF Executed, Members
<1>5. /\ [op EXCEPT !.targets = ts] \in Operations
      /\ [op EXCEPT !.targets = ts].targets = ts
      /\ [op EXCEPT !.targets = ts].retention = op.retention
  BY <1>1, <1>3 DEF Operations
<1>6. \A d \in Members(op) :
        ts[d] = IF d \in Eligible(op)
                THEN [op.targets[d] EXCEPT !.lifecycle = "accepted", !.stage = "dispatch_ready"]
                ELSE op.targets[d]
  OBVIOUS
<1>7. \A d \in Members(op) : ts[d].consumed = op.targets[d].consumed
                              /\ ts[d].facts = op.targets[d].facts
                              /\ (d \in Eligible(op) => ts[d].lifecycle = "accepted")
  BY <1>1, <1>6 DEF Target
<1>8. \A d \in Members(op) : Step(op.targets[d], ts[d], now)
  <2> SUFFICES ASSUME NEW d \in Members(op) PROVE Step(op.targets[d], ts[d], now)
    OBVIOUS
  <2>1. CASE d \notin Eligible(op)
    <3>1. ts[d] = op.targets[d]
      BY <1>6, <2>1
    <3> QED
      BY <3>1 DEF Step
  <2>2. CASE d \in Eligible(op)
    <3>1. ts[d] = [op.targets[d] EXCEPT !.lifecycle = "accepted", !.stage = "dispatch_ready"]
      BY <1>6, <2>2
    <3>2. op.targets[d].lifecycle = "proposed" /\ op.targets[d].facts \in Fit
      BY <1>2, <2>2 DEF Eligible
    <3>3. TargetValid(op.targets[d])
      BY DEF Good, TargetsFit
    <3>4. op.targets[d].acknowledged = None
      BY <3>2, <3>3 DEF TargetValid, EligibleValid, RejectedValid, NoEvidence
    <3>5. ts[d].owner_claim = op.targets[d].owner_claim
          /\ ts[d].consumed = op.targets[d].consumed
      BY <1>1, <3>1 DEF Target
    <3> QED
      BY <3>2, <3>4, <3>5 DEF Step, Terminal
  <2> QED
    BY <2>1, <2>2
<1> HIDE DEF ts, g
<1>9. /\ g \in Ledger /\ g[o].targets = ts /\ Members(g[o]) = Members(op)
      /\ g[o].retention = op.retention /\ g[o] \in Operations
      /\ \A p \in OperationIds : p # o => g[p] = h[p]
  BY <1>1, <1>3, <1>4, <1>5 DEF Good, Ledger, Members
<1>10. Known(g) = Known(h)
  BY <1>1, <1>9, KnownOperations DEF Known, Good
<1>11. Active(g) = Active(h)
  BY <1>1, <1>9, <1>10, KnownOperations DEF Active, Good
<1>12. \A p \in Known(h) : p # o => g[p] = h[p]
  BY <1>9, KnownOperations DEF Good
<1>13. Moves(h, g, now)
  <2>1. \A t : Step(t, t, now)
    BY DEF Step
  <2> QED
    BY <1>8, <1>9, <1>10, <1>12, <2>1 DEF Moves
<1>14. TargetsFit(g)
  <2>1. \A d \in Members(g[o]) : TargetValid(g[o].targets[d])
    BY DEF OperationValid, TargetsValid, g
  <2> QED
    BY <1>10, <1>12, <2>1 DEF TargetsFit, Good
<1>c. ClaimsFit(g)
  <2>1. \A d \in Eligible(g[o]) : ClaimsValid(g[o].targets[d])
    BY DEF OperationValid, TargetsValid, Eligible, g
  <2> QED
    BY <1>10, <1>12, <2>1 DEF ClaimsFit, Good
<1>15. ConfirmedAtOnce(g)
  <2>1. Eligible(g[o]) = Eligible(op)
    BY <1>7, <1>9 DEF Eligible
  <2>2. \A d \in Eligible(op) : d \in Members(op)
    BY DEF Eligible
  <2>3. \A d \in Eligible(g[o]) : g[o].targets[d].lifecycle = "accepted"
    BY <1>7, <1>9, <2>1, <2>2
  <2> QED
    BY <1>10, <1>12, <2>3 DEF ConfirmedAtOnce, Good
<1>16. ConsumedApart(g)
  <2>1. \A p \in Known(h) : \A d \in Members(h[p]) :
            /\ Members(g[p]) = Members(h[p])
            /\ g[p].targets[d].consumed = h[p].targets[d].consumed
    BY <1>7, <1>9, <1>12
  <2>2. \A p \in Active(h) : p \in Known(h) /\ Members(g[p]) = Members(h[p])
    BY <2>1, <1>9, <1>12 DEF Active
  <2> QED
    BY <1>11, <2>1, <2>2 DEF ConsumedApart, Good
<1> QED
  BY <1>9, <1>10, <1>11, <1>13, <1>14, <1>c, <1>15, <1>16 DEF Good, SameOperations, g

\* Dropping a lapsed claim moves a target forward.
LEMMA ExpiredTargetSteps ==
    ASSUME NEW t \in Target, TargetValid(t), NEW time
    PROVE  LET u == ExpiredTarget(t, time) IN
           /\ u \in Target /\ TargetValid(u) /\ Step(t, u, time)
           /\ u.consumed = t.consumed /\ u.facts = t.facts
           /\ u.owner_claim \in {t.owner_claim, NoClaim}
           /\ u.lifecycle = "proposed" <=> t.lifecycle = "proposed"
<1> DEFINE u == ExpiredTarget(t, time)
<1>1. CASE u = t
  BY <1>1 DEF Step
<1>2. CASE u # t
  <2>1. Unacknowledged(t) /\ Lapsed(t, time)
    BY <1>2 DEF ExpiredTarget
  <2>2. /\ t.lifecycle = "accepted" /\ t.stage = "dispatch_ready" /\ t.facts \in Fit
        /\ t.acknowledged = None /\ t.progress = NoProgress /\ ~t.receipt
    BY <2>1 DEF TargetValid, EligibleValid, RejectedValid, NoEvidence, Unacknowledged
  <2>3. \/ u = [t EXCEPT !.owner_claim = NoClaim]
        \/ u = [t EXCEPT !.owner_claim = NoClaim, !.lifecycle = "failed", !.stage = "failed"]
    BY <2>1 DEF ExpiredTarget
  <2> HIDE DEF u
  <2>4. /\ u \in Target /\ u.owner_claim = NoClaim /\ u.consumed = t.consumed
        /\ u.facts = t.facts /\ u.acknowledged = None /\ u.progress = NoProgress
        /\ u.receipt = t.receipt
        /\ \/ u.lifecycle = "accepted" /\ u.stage = "dispatch_ready"
           \/ u.lifecycle = "failed" /\ u.stage = "failed"
    BY <2>2, <2>3 DEF Target, Lifecycles, Stages, OwnerStages
  <2>5. TargetValid(u)
    <3>1. u.facts \in Fit /\ NoEvidence(u) /\ ~u.receipt
      BY <2>2, <2>4, Zenon DEF NoEvidence
    <3>2. CASE u.lifecycle = "accepted"
      BY <2>4, <3>1, <3>2 DEF TargetValid, EligibleValid, RejectedValid
    <3>3. CASE u.lifecycle = "failed"
      BY <2>4, <3>1, <3>3 DEF TargetValid, EligibleValid, RejectedValid, NoEvidence
    <3> QED
      BY <2>4, <3>2, <3>3
  <2>6. Step(t, u, time)
    BY <2>1, <2>2, <2>4 DEF Step, Terminal
  <2> QED
    BY <2>2, <2>4, <2>5, <2>6 DEF u
<1> QED
  BY <1>1, <1>2

\* Expiry only ends what has not settled.
LEMMA ExpireGood ==
    ASSUME NEW h, Good(h), NEW time
    PROVE  LET g == Expired(h, time) IN
           Good(g) /\ Moves(h, g, time) /\ Known(g) = Known(h) /\ Active(g) = Active(h)
<1> DEFINE g == Expired(h, time)
<1>1. \A o \in Active(h) : o \in Known(h)
  BY DEF Active
<1>2. ASSUME NEW o \in Known(h)
      PROVE  /\ g[o] \in Operations /\ g[o].retention = h[o].retention
             /\ Members(g[o]) = Members(h[o])
             /\ \A d \in Members(h[o]) :
                   /\ Step(h[o].targets[d], g[o].targets[d], time)
                   /\ TargetValid(g[o].targets[d])
                   /\ g[o].targets[d].consumed = h[o].targets[d].consumed
                   /\ g[o].targets[d].facts = h[o].targets[d].facts
                   /\ g[o].targets[d].owner_claim \in {h[o].targets[d].owner_claim, NoClaim}
                   /\ g[o].targets[d].lifecycle = "proposed"
                         <=> h[o].targets[d].lifecycle = "proposed"
  <2>1. /\ o \in OperationIds /\ h[o] \in Operations /\ Members(h[o]) \subseteq Devices
        /\ \A d \in Members(h[o]) : h[o].targets[d] \in Target /\ TargetValid(h[o].targets[d])
    BY KnownOperations DEF Good, TargetsFit
  <2>2. CASE o \notin Active(h)
    <3>1. g[o] = h[o]
      BY <2>1, <2>2 DEF Expired
    <3>2. \A t : Step(t, t, time)
      BY DEF Step
    <3> QED
      BY <2>1, <3>1, <3>2
  <2>3. CASE o \in Active(h)
    <3> DEFINE ts == [d \in Members(h[o]) |-> ExpiredTarget(h[o].targets[d], time)]
    <3>1. g[o] = [h[o] EXCEPT !.targets = ts]
      BY <2>1, <2>3 DEF Expired, Members
    <3>2. \A d \in Members(h[o]) : ts[d] = ExpiredTarget(h[o].targets[d], time)
      OBVIOUS
    <3>3. ts \in [Members(h[o]) -> Target]
      BY <2>1, ExpiredTargetSteps
    <3> HIDE DEF ts, g
    <3>4. /\ g[o] \in Operations /\ g[o].retention = h[o].retention /\ g[o].targets = ts
          /\ Members(g[o]) = Members(h[o])
      BY <2>1, <3>1, <3>3 DEF Operations, Members
    <3> QED
      BY <2>1, <3>2, <3>4, ExpiredTargetSteps
  <2> QED
    BY <2>2, <2>3
<1>3. \A o \in OperationIds : o \notin Known(h) => g[o] = h[o]
  BY <1>1 DEF Expired
<1>4. \A o \in Known(h) : o \in OperationIds
  BY DEF Known
<1>5. g = [o \in OperationIds |-> g[o]]
  BY DEF Expired
<1> HIDE DEF g
<1>6. g \in Ledger
  BY <1>2, <1>3, <1>5 DEF Good, Ledger, Known
<1>7. Known(g) = Known(h)
  BY <1>2, <1>3, <1>4, <1>6, KnownOperations DEF Good, Known
<1>8. Active(g) = Active(h)
  BY <1>2, <1>7 DEF Active
<1>9. Moves(h, g, time)
  BY <1>2, <1>7 DEF Moves
<1>10. TargetsFit(g)
  BY <1>2, <1>7 DEF TargetsFit
<1>11. ConfirmedAtOnce(g)
  <2>1. \A o \in Known(h) : Eligible(g[o]) = Eligible(h[o])
    BY <1>2 DEF Eligible
  <2>2. \A o \in Known(h) : \A d \in Eligible(h[o]) : d \in Members(h[o])
    BY DEF Eligible
  <2> QED
    BY <1>2, <1>7, <2>1, <2>2 DEF ConfirmedAtOnce, Good
<1>12. ConsumedApart(g)
  BY <1>1, <1>2, <1>8 DEF ConsumedApart, Good
<1>13. ClaimsFit(g)
  <2> SUFFICES ASSUME NEW o \in Known(h), NEW d \in Eligible(g[o])
               PROVE  ClaimsValid(g[o].targets[d])
    BY <1>7 DEF ClaimsFit
  <2>1. d \in Eligible(h[o]) /\ d \in Members(h[o])
    BY <1>2 DEF Eligible
  <2>2. ClaimsValid(h[o].targets[d])
    BY <2>1 DEF Good, ClaimsFit
  <2>3. /\ g[o].targets[d].consumed = h[o].targets[d].consumed
        /\ g[o].targets[d].owner_claim \in {h[o].targets[d].owner_claim, NoClaim}
    BY <1>2, <2>1
  <2> QED
    BY <2>2, <2>3 DEF ClaimsValid
<1> QED
  BY <1>6, <1>7, <1>8, <1>9, <1>10, <1>11, <1>12, <1>13 DEF Good, g

\* A claim hands a target to its agent.
LEMMA ClaimGood ==
    ASSUME now \in Times, NEW h, Good(h), NEW o \in Active(h), NEW d \in Members(h[o]),
           NEW r \in Requests, MayOffer(h, o, d, r),
           OperationValid(Claimed(h, o, d, r)[o])
    PROVE  LET g == Claimed(h, o, d, r)
               u == g[o].targets[d]
           IN /\ Good(g) /\ Moves(h, g, now) /\ SameOperations(h, g)
              /\ Known(g) = Known(h) /\ Members(g[o]) = Members(h[o])
              /\ u.owner_claim = [request |-> r, expires |-> ClaimEnds(h, o)]
              /\ r \in u.consumed
<1> DEFINE t == h[o].targets[d]
           u == [t EXCEPT !.owner_claim = [request |-> r, expires |-> ClaimEnds(h, o)],
                          !.consumed = @ \cup {r}]
<1>1. /\ h \in Ledger /\ h[o] \in Operations /\ t \in Target /\ TargetValid(t)
      /\ o \in Known(h)
  BY KnownOperations DEF Good, TargetsFit, Active
<1>2. ClaimEnds(h, o) \in Deadlines
  <2>1. h[o].expires \in Deadlines
    BY <1>1 DEF Operations
  <2> QED
    BY <2>1, BoundsAssumption DEF ClaimEnds, Deadlines, Times
<1>3. [request |-> r, expires |-> ClaimEnds(h, o)] \in Claim
  BY <1>2 DEF Claim
<1>4. t.lifecycle = "accepted" /\ t.stage = "dispatch_ready" /\ t.owner_claim = NoClaim
  BY DEF MayOffer, Unacknowledged
<1>5. t.acknowledged = None
  BY <1>1, <1>4 DEF TargetValid, EligibleValid, RejectedValid, NoEvidence
<1>6. /\ u \in Target
      /\ u.owner_claim = [request |-> r, expires |-> ClaimEnds(h, o)]
      /\ u.consumed = t.consumed \cup {r} /\ u.facts = t.facts
      /\ u.lifecycle = "accepted" /\ u.acknowledged = t.acknowledged
  BY <1>1, <1>3, <1>4 DEF Target
<1>7. r \in Requests \ Consumed(h)
  BY DEF MayOffer
<1> HIDE DEF u
<1>8. Step(t, u, now)
  <2>1. r \notin t.consumed
    BY <1>7 DEF Consumed
  <2> QED
    BY <1>4, <1>5, <1>6, <2>1 DEF Step, Terminal
<1>9. Claimed(h, o, d, r) = Replace(h, o, d, u)
  BY DEF Claimed, u
<1>10. /\ Good(Replace(h, o, d, u)) /\ Moves(h, Replace(h, o, d, u), now)
       /\ SameOperations(h, Replace(h, o, d, u))
  BY <1>1, <1>4, <1>6, <1>7, <1>8, <1>9, ReplacingMoves
<1>11. /\ Known(Replace(h, o, d, u)) = Known(h)
       /\ Members(Replace(h, o, d, u)[o]) = Members(h[o])
       /\ Replace(h, o, d, u)[o].targets[d] = u
  BY <1>1, <1>6, Replacing
<1> QED
  BY <1>6, <1>9, <1>10, <1>11

\* An acknowledgement is of what was claimed.
LEMMA AcknowledgeGood ==
    ASSUME now \in Times, NEW h, Good(h), NEW c \in HeldClaim, NEW time \in Times,
           MayAcknowledge(h, c), OperationValid(Acknowledged(h, c, time)[c.operation])
    PROVE  LET g == Acknowledged(h, c, time) IN
           Good(g) /\ Moves(h, g, now) /\ SameOperations(h, g)
<1> DEFINE o == c.operation
           d == c.device
           t == h[o].targets[d]
           u == [t EXCEPT !.lifecycle = "dispatched", !.stage = "owner_acknowledged",
                          !.acknowledged = time]
<1>1. o \in Known(h) /\ d \in Members(h[o])
  BY DEF MayAcknowledge, Open, Binds
<1>2. t \in Target /\ TargetValid(t)
  BY <1>1, KnownOperations DEF Good, TargetsFit
<1>3. t.lifecycle = "accepted" /\ t.stage = "dispatch_ready"
  BY DEF MayAcknowledge, Unacknowledged, TargetOf
<1>4. t.acknowledged = None
  BY <1>2, <1>3 DEF TargetValid, EligibleValid, RejectedValid, NoEvidence
<1>5. /\ u \in Target /\ u.owner_claim = t.owner_claim /\ u.consumed = t.consumed
      /\ u.facts = t.facts /\ u.lifecycle = "dispatched"
  BY <1>2 DEF Target, Lifecycles, Stages
<1>6. Acknowledged(h, c, time) = Replace(h, o, d, u)
  BY DEF Acknowledged, TargetOf
<1> HIDE DEF u
<1>7. Step(t, u, now)
  BY <1>3, <1>4, <1>5 DEF Step, Terminal
<1> QED
  BY <1>1, <1>3, <1>5, <1>6, <1>7, ReplacingMoves

\* A receipt settles its target as applied.
LEMMA ReceiveGood ==
    ASSUME now \in Times, NEW h, Good(h), NEW c \in HeldClaim,
           MayReceive(h, c), OperationValid(Received(h, c)[c.operation])
    PROVE  LET g == Received(h, c) IN
           Good(g) /\ Moves(h, g, now) /\ SameOperations(h, g)
<1> DEFINE o == c.operation
           d == c.device
           t == h[o].targets[d]
           u == [t EXCEPT !.lifecycle = "applied", !.stage = "applied", !.receipt = TRUE]
<1>1. o \in Known(h) /\ d \in Members(h[o])
  BY DEF MayReceive, Open, Binds
<1>2. t \in Target
  BY <1>1, KnownOperations DEF Good
<1>3. t.lifecycle \in {"dispatched", "running", "cancellation_requested"}
  BY DEF MayReceive, TargetOf
<1>4. /\ u \in Target /\ u.owner_claim = t.owner_claim /\ u.consumed = t.consumed
      /\ u.facts = t.facts /\ u.lifecycle = "applied"
      /\ u.acknowledged = t.acknowledged /\ u.progress = t.progress
  BY <1>2 DEF Target, Lifecycles, Stages
<1>5. Received(h, c) = Replace(h, o, d, u)
  BY DEF Received, TargetOf
<1> HIDE DEF u
<1>6. Step(t, u, now)
  BY <1>3, <1>4 DEF Step, Terminal
<1> QED
  BY <1>1, <1>3, <1>4, <1>5, <1>6, ReplacingMoves

\* A report moves its target to the stage that it tells.
LEMMA ReportGood ==
    ASSUME now \in Times, NEW h, Good(h), NEW c \in HeldClaim, NEW report \in Progress,
           MayReport(h, c, report), OperationValid(Reported(h, c, report)[c.operation])
    PROVE  LET g == Reported(h, c, report) IN
           Good(g) /\ Moves(h, g, now) /\ SameOperations(h, g)
<1> DEFINE o == c.operation
           d == c.device
           t == h[o].targets[d]
           u == [t EXCEPT !.stage = report.stage, !.lifecycle = LifecycleOf(report.stage),
                          !.progress = report]
<1>1. o \in Known(h) /\ d \in Members(h[o])
  BY DEF MayReport, Open, Binds
<1>2. t \in Target /\ TargetValid(t)
  BY <1>1, KnownOperations DEF Good, TargetsFit
<1>3. CASE t.progress = report
  <2>1. Reported(h, c, report) = h
    BY <1>3 DEF Reported, TargetOf
  <2> QED
    BY <2>1 DEF Moves, Step, SameOperations
<1>4. CASE t.progress # report
  <2>1. /\ t.acknowledged # None /\ report.stage \in Follows(t.stage)
        /\ t.progress = NoProgress \/ t.progress.observed < report.observed
    BY <1>4 DEF MayReport, TargetOf
  <2>2. t.stage \in {"owner_acknowledged", "staged", "awaiting_wearer", "recovery_required",
                    "cancellation_requested"}
    BY <2>1 DEF Follows
  <2>3. t.lifecycle \notin Terminal /\ t.lifecycle # "proposed"
    BY <1>2, <2>2 DEF TargetValid, EligibleValid, RejectedValid, Terminal
  <2>4. report.stage \in OwnerStages
    BY DEF Progress
  <2>5. /\ LifecycleOf(report.stage) \in Lifecycles /\ LifecycleOf(report.stage) # "proposed"
        /\ report.stage \in Stages
    BY <2>4 DEF LifecycleOf, OwnerStages, Lifecycles, Stages
  <2>6. /\ u \in Target /\ u.owner_claim = t.owner_claim /\ u.consumed = t.consumed
        /\ u.facts = t.facts /\ u.lifecycle # "proposed"
        /\ u.acknowledged = t.acknowledged /\ u.progress = report
    BY <1>2, <2>5 DEF Target
  <2>7. Reported(h, c, report) = Replace(h, o, d, u)
    BY <1>4 DEF Reported, TargetOf
  <2> HIDE DEF u
  <2>8. t.progress = NoProgress \/ report.observed > t.progress.observed
    BY <1>2, <2>1 DEF Target, Progress, Times
  <2>9. Step(t, u, now)
    BY <2>1, <2>3, <2>6, <2>8 DEF Step
  <2> QED
    BY <1>1, <2>3, <2>6, <2>7, <2>9, ReplacingMoves
<1> QED
  BY <1>3, <1>4

\* An archived operation keeps its targets.
LEMMA ArchiveGood ==
    ASSUME NEW h, Good(h), NEW o \in Active(h)
    PROVE  LET g == [h EXCEPT ![o].retention = "archived"] IN Good(g) /\ Moves(h, g, now)
<1> DEFINE op == [h[o] EXCEPT !.retention = "archived"]
           g == [h EXCEPT ![o].retention = "archived"]
<1>1. /\ h \in Ledger /\ o \in Known(h) /\ o \in OperationIds /\ h[o] \in Operations
  BY KnownOperations DEF Good, Active
<1>2. g = [h EXCEPT ![o] = op]
  OBVIOUS
<1>3. /\ op \in Operations /\ op.targets = h[o].targets /\ op.retention = "archived"
  BY <1>1 DEF Operations
<1> HIDE DEF op, g
<1>4. g \in Ledger /\ g[o] = op /\ \A p \in OperationIds : p # o => g[p] = h[p]
  BY <1>1, <1>2, <1>3 DEF Ledger
<1>5. Known(g) = Known(h)
  BY <1>1, <1>3, <1>4, KnownOperations DEF Known
<1>6. \A p \in Known(h) : g[p].targets = h[p].targets
  BY <1>1, <1>3, <1>4, KnownOperations
<1>7. \A p \in Known(h) : Members(g[p]) = Members(h[p])
  BY <1>6 DEF Members
<1>8. \A p \in Active(g) : p \in Active(h) /\ p \in Known(h)
  BY <1>1, <1>3, <1>4, <1>5, KnownOperations DEF Active
<1>9. Moves(h, g, now)
  <2>1. \A t : Step(t, t, now)
    BY DEF Step
  <2> QED
    BY <1>5, <1>6, <1>7, <2>1 DEF Moves
<1>10. TargetsFit(g)
  BY <1>5, <1>6, <1>7 DEF TargetsFit, Good
<1>11. ConfirmedAtOnce(g)
  <2>1. \A p \in Known(h) : Eligible(g[p]) = Eligible(h[p])
    BY <1>6, <1>7 DEF Eligible
  <2> QED
    BY <1>5, <1>6, <2>1 DEF ConfirmedAtOnce, Good
<1>12. ConsumedApart(g)
  BY <1>6, <1>7, <1>8 DEF ConsumedApart, Good
<1>13. ClaimsFit(g)
  BY <1>5, <1>6, <1>7 DEF ClaimsFit, Eligible, Good
<1> QED
  BY <1>4, <1>9, <1>10, <1>11, <1>12, <1>13 DEF Good, g

-----------------------------------------------------------------------------
(* Every step keeps IInv and moves the targets of the hub forward.           *)

\* What stays has moved, by no step.
LEMMA Stays == ASSUME NEW h, NEW time PROVE Moves(h, h, time)
  BY DEF Moves, Step

\* A move after a move is a move.
LEMMA MovesCompose ==
    ASSUME NEW h \in Ledger, NEW g \in Ledger, NEW k \in Ledger, NEW time,
           Moves(h, g, time), Moves(g, k, time)
    PROVE  Moves(h, k, time)
<1> SUFFICES ASSUME NEW o \in Known(h)
             PROVE  /\ o \in Known(k) /\ Members(k[o]) = Members(h[o])
                    /\ \A d \in Members(h[o]) : Step(h[o].targets[d], k[o].targets[d], time)
  BY DEF Moves
<1>1. o \in Known(g) /\ Members(g[o]) = Members(h[o])
  BY DEF Moves
<1>2. o \in Known(k) /\ Members(k[o]) = Members(g[o])
  BY <1>1 DEF Moves
<1>3. ASSUME NEW d \in Members(h[o])
      PROVE  Step(h[o].targets[d], k[o].targets[d], time)
  <2>1. /\ h[o].targets[d] \in Target /\ g[o].targets[d] \in Target
        /\ k[o].targets[d] \in Target
    BY <1>1, <1>2, KnownOperations
  <2>2. /\ Step(h[o].targets[d], g[o].targets[d], time)
        /\ Step(g[o].targets[d], k[o].targets[d], time)
    BY <1>1 DEF Moves
  <2> QED
    BY <2>1, <2>2, StepsCompose
<1> QED
  BY <1>1, <1>2, <1>3

\* Whether or not the hub takes over what it persisted.
LEMMA SaveStep ==
    ASSUME IInv, NEW c, Good(c), Moves(hub, c, now), Save(c), UNCHANGED <<now, facts, held>>
    PROVE  IInv' /\ Moves(hub, hub', now)
<1>1. hub \in Ledger /\ c \in Ledger /\ now \in Int /\ held \in SUBSET HeldClaim
  BY DEF IInv, Good, Times
<1>2. Honours(c, held, now)
  BY <1>1, StillHonoured DEF IInv
<1>3. disk' = c /\ hub' \in {hub, c} /\ held' = held /\ now' = now /\ facts' = facts
  BY DEF Save
<1>4. HeldApart'
  BY <1>3 DEF IInv, HeldApart
<1>5. CASE hub' = hub
  <2>1. Good(hub)' /\ Good(disk)' /\ Moves(hub, disk, now)'
    BY <1>3, <1>5 DEF IInv
  <2>2. Honours(hub, held, now)' /\ Honours(disk, held, now)'
    BY <1>2, <1>3, <1>5 DEF IInv
  <2> QED
    BY <1>3, <1>4, <1>5, <2>1, <2>2, Stays DEF IInv
<1>6. CASE hub' = c
  <2>1. Good(hub)' /\ Good(disk)' /\ Moves(hub, disk, now)'
    BY <1>3, <1>6, Stays
  <2>2. Honours(hub, held, now)' /\ Honours(disk, held, now)'
    BY <1>2, <1>3, <1>6
  <2> QED
    BY <1>3, <1>4, <1>6, <2>1, <2>2 DEF IInv
<1> QED
  BY <1>3, <1>5, <1>6

\* The invariant holds at the start.
LEMMA InitInvariant == Init => IInv
<1> SUFFICES ASSUME Init PROVE IInv
  OBVIOUS
<1>1. now = 0 /\ 0 \in Times /\ held = {} /\ disk = hub /\ facts \in [Devices -> Facts]
  BY BoundsAssumption DEF Init, Times
<1>2. hub \in Ledger /\ Known(hub) = {}
  BY DEF Init, Ledger, Known
<1>3. Good(hub)
  BY <1>2 DEF Good, TargetsFit, ClaimsFit, ConfirmedAtOnce, ConsumedApart, Active
<1>4. Moves(hub, disk, now) /\ Honours(hub, held, now) /\ HeldApart
  BY <1>1, <1>2 DEF Moves, Honours, HeldApart
<1> QED
  BY <1>1, <1>3, <1>4 DEF IInv

\* An answer that reaches the owner is for a request that no target has consumed.
LEMMA ClaimStep ==
    ASSUME IInv, NEW o \in OperationIds, NEW d \in Devices, NEW r \in Requests,
           ClaimWork(o, d, r)
    PROVE  IInv' /\ Moves(hub, hub', now)
<1> DEFINE lapsed == Expired(hub, now)
           granted == Claimed(lapsed, o, d, r)
           claim == [operation |-> o, device |-> d, request |-> r,
                     expires |-> ClaimEnds(lapsed, o)]
<1>1. /\ Good(lapsed) /\ Moves(hub, lapsed, now)
      /\ Known(lapsed) = Known(hub) /\ Active(lapsed) = Active(hub)
  BY ExpireGood DEF IInv
<1>2. /\ <<o, d>> \in Offered(lapsed, now) /\ MayOffer(lapsed, o, d, r)
      /\ \A p \in Active(granted) : OperationValid(granted[p])
      /\ Save(granted)
      /\ IF hub' = granted THEN held' \in {held, held \cup {claim}} ELSE held' = held
      /\ now' = now /\ facts' = facts
  BY DEF ClaimWork
<1> HIDE DEF lapsed
<1>3. o \in Active(lapsed) /\ d \in Members(lapsed[o])
  BY <1>2 DEF Offered, Selectable
<1>4. /\ lapsed \in Ledger /\ o \in Known(lapsed) /\ lapsed[o] \in Operations
      /\ lapsed[o].targets[d] \in Target
  BY <1>1, <1>3, KnownOperations DEF Good, Active
<1>5. OperationValid(granted[o])
  <2>1. granted[o].retention = lapsed[o].retention
    BY <1>4 DEF granted, Claimed, Replace, Ledger, Operations
  <2>2. granted[o] # NoOperation
    BY <1>3, <2>1, NoneAssumption DEF Active, NoOperation
  <2> QED
    BY <1>2, <1>3, <2>1, <2>2 DEF Active, Known
<1>6. /\ Good(granted) /\ Moves(lapsed, granted, now)
      /\ Known(granted) = Known(lapsed) /\ Members(granted[o]) = Members(lapsed[o])
      /\ granted[o].targets[d].owner_claim = [request |-> r, expires |-> ClaimEnds(lapsed, o)]
      /\ r \in granted[o].targets[d].consumed
  BY <1>1, <1>2, <1>3, <1>5, ClaimGood DEF IInv
<1>7. Moves(hub, granted, now)
  BY <1>1, <1>4, <1>6, MovesCompose DEF Good, IInv
<1>8. CASE held' = held
  BY <1>2, <1>6, <1>7, <1>8, SaveStep
<1>9. CASE hub' = granted /\ held' = held \cup {claim}
  <2>1. disk' = granted
    BY <1>2 DEF Save
  <2>2. /\ claim \in HeldClaim /\ claim.operation = o /\ claim.device = d
        /\ claim.request = r /\ claim.expires = ClaimEnds(lapsed, o)
    <3>1. ClaimEnds(lapsed, o) \in Deadlines
      <4>1. granted[o].targets[d].owner_claim \in Claim \cup {NoClaim}
        BY <1>3, <1>4, <1>6, KnownOperations DEF Good, Target
      <4>2. granted[o].targets[d].owner_claim.expires \in Deadlines
        BY <4>1, BoundsAssumption DEF Claim, NoClaim, Deadlines
      <4> QED
        BY <1>6, <4>2
    <3> QED
      BY <3>1 DEF HeldClaim
  <2> HIDE DEF claim
  <2>3. Honours(granted, held, now)
    BY <1>6, <1>7, StillHonoured DEF IInv, Good, Times
  <2>4. Honours(granted, {claim}, now)
    BY <1>3, <1>4, <1>6, <2>2 DEF Honours, Binds, TargetOf
  <2>5. Honours(granted, held \cup {claim}, now)
    BY <2>3, <2>4 DEF Honours
  <2>6. \A c \in held : ~(c.operation = o /\ c.device = d /\ c.request = r)
    <3> SUFFICES ASSUME NEW c \in held, c.operation = o, c.device = d, c.request = r
                 PROVE  FALSE
      OBVIOUS
    <3>1. o \in Known(hub) /\ d \in Members(hub[o]) /\ r \in hub[o].targets[d].consumed
      BY DEF IInv, Honours, TargetOf
    <3>2. r \in lapsed[o].targets[d].consumed
      BY <1>1, <3>1 DEF Moves, Step
    <3> QED
      BY <1>2, <1>3, <3>2 DEF MayOffer, Consumed
  <2>7. HeldApart'
    BY <1>9, <2>2, <2>6 DEF HeldApart, IInv
  <2>8. held' \subseteq HeldClaim /\ now' \in Times /\ facts' \in [Devices -> Facts]
    BY <1>2, <1>9, <2>2 DEF IInv
  <2>9. Good(hub)' /\ Good(disk)' /\ Moves(hub, disk, now)'
    BY <1>6, <1>9, <2>1, Stays
  <2>10. Honours(hub, held, now)' /\ Honours(disk, held, now)'
    BY <1>2, <1>9, <2>1, <2>5
  <2> QED
    BY <1>7, <1>9, <2>7, <2>8, <2>9, <2>10 DEF IInv
<1> QED
  BY <1>2, <1>8, <1>9

\* Time only adds to what has lapsed.
LEMMA TickStep ==
    ASSUME IInv, Tick
    PROVE  IInv' /\ Moves(hub, hub', now)
<1>1. /\ now \in Nat /\ now' = now + 1 /\ now' \in Times
      /\ hub' = hub /\ disk' = disk /\ held' = held /\ facts' = facts
  BY BoundsAssumption DEF Tick, IInv, Times
<1>2. ASSUME NEW h \in Ledger, NEW g, Moves(h, g, now)
      PROVE  Moves(h, g, now + 1)
  <2> SUFFICES ASSUME NEW o \in Known(h), NEW d \in Members(h[o]),
                      Step(h[o].targets[d], g[o].targets[d], now)
               PROVE  Step(h[o].targets[d], g[o].targets[d], now + 1)
    BY <1>2 DEF Moves
  <2>1. h[o].targets[d] \in Target
    BY KnownOperations
  <2>2. Lapsed(h[o].targets[d], now) => Lapsed(h[o].targets[d], now + 1)
    <3>1. h[o].targets[d].owner_claim.expires \in Int
      BY <2>1 DEF Target, Claim, NoClaim, Deadlines
    <3> QED
      BY <1>1, <3>1 DEF Lapsed
  <2> QED
    BY <2>2 DEF Step
<1>3. Moves(hub, disk, now)'
  BY <1>1, <1>2 DEF IInv, Good
<1>4. ASSUME NEW h, Honours(h, held, now) PROVE Honours(h, held, now + 1)
  <2>1. \A c \in held : c.expires \in Int
    BY DEF IInv, HeldClaim, Deadlines
  <2> QED
    BY <1>1, <1>4, <2>1 DEF Honours
<1>5. Honours(hub, held, now)' /\ Honours(disk, held, now)'
  BY <1>1, <1>4 DEF IInv
<1>6. HeldApart'
  BY <1>1 DEF IInv, HeldApart
<1> QED
  BY <1>1, <1>3, <1>5, <1>6, Stays DEF IInv

\* Every step keeps it and moves the targets forward.
LEMMA NextStep ==
    ASSUME IInv, [Next]_vars
    PROVE  IInv' /\ Moves(hub, hub', now)
<1> USE DEF IInv
<1>1. ASSUME NEW o \in OperationIds, NEW members \in SUBSET Devices, Preview(o, members)
      PROVE  IInv' /\ Moves(hub, hub', now)
  BY <1>1, PreviewGood, SaveStep DEF Preview
<1>2. ASSUME NEW o \in OperationIds, Execute(o)
      PROVE  IInv' /\ Moves(hub, hub', now)
  BY <1>2, ExecuteGood, SaveStep DEF Execute
<1>3. ASSUME NEW o \in OperationIds, Archive(o)
      PROVE  IInv' /\ Moves(hub, hub', now)
  BY <1>3, ArchiveGood, SaveStep DEF Archive, MayArchive
<1>4. ASSUME NEW c \in held, NEW time \in 0..now, Acknowledge(c, time)
      PROVE  IInv' /\ Moves(hub, hub', now)
  <2>1. time \in Times /\ c \in HeldClaim
    BY BoundsAssumption DEF Times
  <2> QED
    BY <1>4, <2>1, AcknowledgeGood, SaveStep DEF Acknowledge
<1>5. ASSUME NEW c \in held, NEW stage \in Reports, NEW time \in 0..now,
             Report(c, [stage |-> stage, observed |-> time])
      PROVE  IInv' /\ Moves(hub, hub', now)
  <2>1. [stage |-> stage, observed |-> time] \in Progress /\ c \in HeldClaim
    BY ReportsAssumption, BoundsAssumption DEF Progress, Times
  <2> QED
    BY <1>5, <2>1, ReportGood, SaveStep DEF Report
<1>6. ASSUME NEW c \in held, Receive(c)
      PROVE  IInv' /\ Moves(hub, hub', now)
  <2>1. c \in HeldClaim
    OBVIOUS
  <2> QED
    BY <1>6, <2>1, ReceiveGood, SaveStep DEF Receive
<1>7. ASSUME NEW d \in Devices, NEW f \in Facts, Observe(d, f)
      PROVE  IInv' /\ Moves(hub, hub', now)
  BY <1>7, Stays DEF Observe, HeldApart
<1>8. CASE Restart
  <2>1. /\ hub' = disk /\ disk' = disk /\ held' = held /\ now' = now /\ facts' = facts
    BY <1>8 DEF Restart
  <2>2. HeldApart'
    BY <2>1 DEF HeldApart
  <2>3. Moves(hub, disk, now)'
    BY <2>1, Stays
  <2> QED
    BY <2>1, <2>2, <2>3
<1>9. CASE UNCHANGED vars
  BY <1>9, Stays DEF vars, HeldApart
<1> QED
  BY <1>1, <1>2, <1>3, <1>4, <1>5, <1>6, <1>7, <1>8, <1>9, ClaimStep, TickStep
     DEF Next, OwnerNext

-----------------------------------------------------------------------------
(* The theorems.                                                             *)

\* The inductive invariant holds in every state of the package releases.
THEOREM Invariance == Spec => []IInv
<1>1. IInv /\ [Next]_vars => IInv'
  BY NextStep
<1> QED
  BY InitInvariant, <1>1, PTL DEF Spec

\* One installer works on a headset of an operation: see OneWorkerPerTarget.
THEOREM OneWorker == Spec => []OneWorkerPerTarget
<1>1. IInv => OneWorkerPerTarget
  <2> SUFFICES ASSUME IInv, NEW c1 \in held, NEW c2 \in held, InForce(c1), InForce(c2),
                      c1.operation = c2.operation, c1.device = c2.device
               PROVE  c1 = c2
    BY DEF OneWorkerPerTarget
  <2>1. ASSUME NEW c \in held, InForce(c)
        PROVE  Binds(hub, c)
    <3>1. now \in Int /\ c.expires \in Int
      BY DEF IInv, HeldClaim, Times, Deadlines
    <3> QED
      BY <2>1, <3>1 DEF IInv, Honours, InForce
  <2>2. c1.request = c2.request
    BY <2>1 DEF Binds, TargetOf
  <2> QED
    BY <2>2 DEF IInv, HeldApart
<1> QED
  BY Invariance, <1>1, PTL

\* A repeated request yields no second claim: see OneClaimPerRequest.
THEOREM OneClaim == Spec => []OneClaimPerRequest
<1>1. IInv => OneClaimPerRequest
  <2> SUFFICES ASSUME IInv, NEW c1 \in held, NEW c2 \in held, c1.request = c2.request,
                      c1.operation \in Active(hub), c2.operation \in Active(hub)
               PROVE  c1 = c2
    BY DEF OneClaimPerRequest
  <2>1. \A c \in held : /\ c.device \in Members(hub[c.operation])
                        /\ c.request \in hub[c.operation].targets[c.device].consumed
    BY DEF IInv, Honours, TargetOf
  <2>2. c1.operation = c2.operation /\ c1.device = c2.device
    BY <2>1 DEF IInv, Good, ConsumedApart
  <2> QED
    BY <2>2 DEF IInv, HeldApart
<1> QED
  BY Invariance, <1>1, PTL

\* What is settled stays as it is, restarts included: see TerminalIsFinal.
THEOREM SettledStays == Spec => TerminalIsFinal
<1> DEFINE Settled ==
      \A o \in OperationIds, d \in Devices :
          Kept(o, d) /\ hub[o].targets[d].lifecycle \in Terminal =>
             Kept(o, d)' /\ hub'[o].targets[d] = hub[o].targets[d]
<1>1. IInv /\ [Next]_vars => [Settled]_vars
  <2> SUFFICES ASSUME IInv, [Next]_vars PROVE Settled
    OBVIOUS
  <2>1. Moves(hub, hub', now)
    BY NextStep
  <2> QED
    BY <2>1 DEF Kept, Moves, Step
<1> QED
  BY Invariance, <1>1, PTL DEF Spec, TerminalIsFinal

\* The owner's evidence only advances: see EvidenceAdvances.
THEOREM EvidenceStays == Spec => EvidenceAdvances
<1> DEFINE Advances ==
      \A o \in OperationIds, d \in Devices :
          Kept(o, d) /\ hub[o].targets[d].acknowledged # None =>
             LET t == hub[o].targets[d]  u == hub'[o].targets[d] IN
             /\ u.owner_claim = t.owner_claim /\ u.acknowledged = t.acknowledged
             /\ \/ u.progress = t.progress
                \/ t.progress = NoProgress
                \/ u.progress.observed > t.progress.observed
<1>1. IInv /\ [Next]_vars => [Advances]_vars
  <2> SUFFICES ASSUME IInv, [Next]_vars PROVE Advances
    OBVIOUS
  <2>1. Moves(hub, hub', now)
    BY NextStep
  <2> QED
    BY <2>1 DEF Kept, Moves, Step
<1> QED
  BY Invariance, <1>1, PTL DEF Spec, EvidenceAdvances

-----------------------------------------------------------------------------
(* The parallelism.  The contract bounds the delivery slots an operation     *)
(* takes, in the hub and in the slot a restart opens; each claim in force    *)
(* that the owner holds is on a headset of its own that takes such a slot.   *)

SlotsWithin(h) == \A o \in Known(h) : Cardinality(Occupied(h[o])) <= MaxParallelism

SlotsInv == IInv /\ SlotsWithin(hub) /\ SlotsWithin(disk)

\* A call validates the operation it changes.
LEMMA SlotsKept ==
    ASSUME NEW h, SlotsWithin(h), NEW g, NEW o \in OperationIds,
           OperationValid(g[o]), \A p \in OperationIds \ {o} : g[p] = h[p]
    PROVE  SlotsWithin(g)
<1> SUFFICES ASSUME NEW p \in Known(g)
             PROVE  Cardinality(Occupied(g[p])) <= MaxParallelism
  BY DEF SlotsWithin
<1>1. CASE p = o
  BY <1>1 DEF OperationValid
<1>2. CASE p # o
  <2>1. g[p] = h[p] /\ p \in Known(h)
    BY <1>2 DEF Known
  <2> QED
    BY <2>1 DEF SlotsWithin
<1> QED
  BY <1>1, <1>2

\* Replacing a target leaves the other operations.
LEMMA ReplacingElsewhere ==
    ASSUME NEW h \in Ledger, NEW o \in OperationIds, NEW d, NEW t
    PROVE  \A p \in OperationIds \ {o} : Replace(h, o, d, t)[p] = h[p]
  BY DEF Replace, Ledger

\* Dropping lapsed claims and granting one: every active operation is validated,
\* and the archived ones are left alone.
LEMMA ClaimSlots ==
    ASSUME SlotsInv, NEW o \in OperationIds, NEW d \in Devices, NEW r \in Requests,
           ClaimWork(o, d, r)
    PROVE  SlotsWithin(Claimed(Expired(hub, now), o, d, r))
<1> DEFINE lapsed == Expired(hub, now)
           granted == Claimed(lapsed, o, d, r)
<1>1. /\ lapsed \in Ledger /\ Known(lapsed) = Known(hub) /\ Active(lapsed) = Active(hub)
  BY ExpireGood DEF SlotsInv, IInv, Good
<1>2. /\ o \in Active(lapsed)
      /\ \A p \in Active(granted) : OperationValid(granted[p])
  BY DEF ClaimWork, Offered
<1>3. \A p \in OperationIds : p \notin Active(hub) => lapsed[p] = hub[p]
  BY DEF Expired
<1> HIDE DEF lapsed
<1>4. lapsed[o] \in Operations /\ lapsed[o].retention = "active"
  BY <1>1, <1>2, KnownOperations DEF Active
<1>5. granted[o].retention = "active"
  BY <1>1, <1>4 DEF granted, Claimed, Replace, Ledger, Operations
<1>6. \A p \in OperationIds \ {o} : granted[p] = lapsed[p]
  BY <1>1, ReplacingElsewhere DEF granted, Claimed
<1> HIDE DEF granted
<1> SUFFICES ASSUME NEW p \in Known(granted)
             PROVE  Cardinality(Occupied(granted[p])) <= MaxParallelism
  BY DEF SlotsWithin, granted, lapsed
<1>7. CASE p \in Active(granted)
  BY <1>2, <1>7 DEF OperationValid
<1>8. CASE p \notin Active(granted)
  <2>1. p # o /\ p \in OperationIds
    BY <1>5, <1>8 DEF Active, Known
  <2>2. granted[p] = lapsed[p]
    BY <1>6, <2>1
  <2>3. p \in Known(hub) /\ p \notin Active(hub)
    BY <1>1, <1>8, <2>1, <2>2 DEF Active, Known
  <2>4. granted[p] = hub[p]
    BY <1>3, <2>1, <2>2, <2>3
  <2> QED
    BY <2>3, <2>4 DEF SlotsInv, SlotsWithin
<1> QED
  BY <1>7, <1>8

\* An archived operation keeps its targets, hence its slots.
LEMMA ArchiveSlots ==
    ASSUME SlotsInv, NEW o \in OperationIds, MayArchive(o)
    PROVE  SlotsWithin([hub EXCEPT ![o].retention = "archived"])
<1> DEFINE g == [hub EXCEPT ![o].retention = "archived"]
<1>1. hub \in Ledger /\ o \in Known(hub) /\ hub[o] \in Operations
  BY KnownOperations DEF SlotsInv, IInv, Good, MayArchive, Active
<1>2. g[o].targets = hub[o].targets /\ \A p \in OperationIds \ {o} : g[p] = hub[p]
  BY <1>1 DEF Ledger, Operations
<1> HIDE DEF g
<1>3. Occupied(g[o]) = Occupied(hub[o])
  BY <1>2 DEF Occupied, Members
<1> SUFFICES ASSUME NEW p \in Known(g)
             PROVE  Cardinality(Occupied(g[p])) <= MaxParallelism
  BY DEF SlotsWithin, g
<1>4. p \in Known(hub)
  BY <1>1, <1>2 DEF Known
<1>5. Occupied(g[p]) = Occupied(hub[p])
  BY <1>2, <1>3 DEF Known
<1> QED
  BY <1>4, <1>5 DEF SlotsInv, SlotsWithin

\* Every step keeps the slots within the parallelism.
LEMMA SlotsStep ==
    ASSUME SlotsInv, [Next]_vars
    PROVE  SlotsInv'
<1>1. IInv'
  BY NextStep DEF SlotsInv
<1>2. hub \in Ledger /\ SlotsWithin(hub) /\ SlotsWithin(disk) /\ held \subseteq HeldClaim
  BY DEF SlotsInv, IInv, Good
<1>3. ASSUME NEW c, SlotsWithin(c), Save(c)
      PROVE  SlotsWithin(hub)' /\ SlotsWithin(disk)'
  BY <1>2, <1>3 DEF Save
<1> SUFFICES SlotsWithin(hub)' /\ SlotsWithin(disk)'
  BY <1>1 DEF SlotsInv
<1>4. ASSUME NEW o \in OperationIds, NEW members \in SUBSET Devices, Preview(o, members)
      PROVE  SlotsWithin(hub)' /\ SlotsWithin(disk)'
  <2>1. \A p \in OperationIds \ {o} : Previewed(hub, o, members)[p] = hub[p]
    BY <1>2 DEF Previewed, Ledger
  <2>2. OperationValid(Previewed(hub, o, members)[o]) /\ Save(Previewed(hub, o, members))
    BY <1>4 DEF Preview
  <2> QED
    BY <1>2, <1>3, <2>1, <2>2, SlotsKept
<1>5. ASSUME NEW o \in OperationIds, Execute(o)
      PROVE  SlotsWithin(hub)' /\ SlotsWithin(disk)'
  <2>1. \A p \in OperationIds \ {o} : Executed(hub, o)[p] = hub[p]
    BY <1>2 DEF Executed, Ledger
  <2>2. OperationValid(Executed(hub, o)[o]) /\ Save(Executed(hub, o))
    BY <1>5 DEF Execute
  <2> QED
    BY <1>2, <1>3, <2>1, <2>2, SlotsKept
<1>6. ASSUME NEW o \in OperationIds, Archive(o)
      PROVE  SlotsWithin(hub)' /\ SlotsWithin(disk)'
  BY <1>3, <1>6, ArchiveSlots DEF Archive
<1>7. ASSUME NEW c \in held, NEW time \in 0..now, Acknowledge(c, time)
      PROVE  SlotsWithin(hub)' /\ SlotsWithin(disk)'
  <2>1. /\ OperationValid(Acknowledged(hub, c, time)[c.operation])
        /\ Save(Acknowledged(hub, c, time)) /\ c.operation \in OperationIds
    BY <1>2, <1>7 DEF Acknowledge, HeldClaim
  <2>2. \A p \in OperationIds \ {c.operation} : Acknowledged(hub, c, time)[p] = hub[p]
    BY <1>2, <2>1, ReplacingElsewhere DEF Acknowledged
  <2> QED
    BY <1>2, <1>3, <2>1, <2>2, SlotsKept
<1>8. ASSUME NEW c \in held, NEW stage \in Reports, NEW time \in 0..now,
             Report(c, [stage |-> stage, observed |-> time])
      PROVE  SlotsWithin(hub)' /\ SlotsWithin(disk)'
  <2> DEFINE report == [stage |-> stage, observed |-> time]
  <2>1. /\ OperationValid(Reported(hub, c, report)[c.operation])
        /\ Save(Reported(hub, c, report)) /\ c.operation \in OperationIds
    BY <1>2, <1>8 DEF Report, HeldClaim
  <2>2. \A p \in OperationIds \ {c.operation} : Reported(hub, c, report)[p] = hub[p]
    BY <1>2, <2>1, ReplacingElsewhere DEF Reported
  <2> HIDE DEF report
  <2> QED
    BY <1>2, <1>3, <2>1, <2>2, SlotsKept
<1>9. ASSUME NEW c \in held, Receive(c)
      PROVE  SlotsWithin(hub)' /\ SlotsWithin(disk)'
  <2>1. /\ OperationValid(Received(hub, c)[c.operation])
        /\ Save(Received(hub, c)) /\ c.operation \in OperationIds
    BY <1>2, <1>9 DEF Receive, HeldClaim
  <2>2. \A p \in OperationIds \ {c.operation} : Received(hub, c)[p] = hub[p]
    BY <1>2, <2>1, ReplacingElsewhere DEF Received
  <2> QED
    BY <1>2, <1>3, <2>1, <2>2, SlotsKept
<1>10. ASSUME NEW o \in OperationIds, NEW d \in Devices, NEW r \in Requests,
              ClaimWork(o, d, r)
       PROVE  SlotsWithin(hub)' /\ SlotsWithin(disk)'
  <2>1. SlotsWithin(Claimed(Expired(hub, now), o, d, r))
    BY <1>10, ClaimSlots
  <2>2. Save(Claimed(Expired(hub, now), o, d, r))
    BY <1>10 DEF ClaimWork
  <2> QED
    BY <1>3, <2>1, <2>2
<1>11. CASE \/ \E d \in Devices, f \in Facts : Observe(d, f)
            \/ Tick \/ Restart \/ UNCHANGED vars
  BY <1>2, <1>11 DEF Observe, Tick, Restart, vars
<1> QED
  BY <1>4, <1>5, <1>6, <1>7, <1>8, <1>9, <1>10, <1>11 DEF Next, OwnerNext

\* For any number of headsets, operations and requests, over lost answers, failed
\* persists and restarts: see DeliveryWithinParallelism.
THEOREM DeliveryBounded == Spec => []DeliveryWithinParallelism
<1>1. Init => SlotsInv
  <2>1. Init => Known(hub) = {} /\ Known(disk) = {}
    BY DEF Init, Known
  <2> QED
    BY <2>1, InitInvariant DEF SlotsInv, SlotsWithin
<1>2. SlotsInv /\ [Next]_vars => SlotsInv'
  BY SlotsStep
<1>3. SlotsInv => DeliveryWithinParallelism
  <2> SUFFICES ASSUME SlotsInv, NEW o \in OperationIds
               PROVE  Cardinality({c \in held : c.operation = o /\ InForce(c)})
                         <= MaxParallelism
    BY DEF DeliveryWithinParallelism
  <2> DEFINE S == {c \in held : c.operation = o /\ InForce(c)}
             T == Occupied(hub[o])
             f == [c \in S |-> c.device]
  <2>1. /\ hub \in Ledger /\ now \in Int /\ held \subseteq HeldClaim
        /\ Honours(hub, held, now) /\ HeldApart /\ MaxParallelism \in Nat
    BY BoundsAssumption DEF SlotsInv, IInv, Good, Times
  <2>2. ASSUME NEW c \in S
        PROVE  /\ c \in held /\ c.operation = o /\ o \in Known(hub)
               /\ hub[o].targets[c.device].owner_claim.request = c.request
               /\ c.device \in T
    <3>1. c \in held /\ c.operation = o /\ InForce(c) /\ c \in HeldClaim
      BY <2>1
    <3>2. c.expires \in Int /\ c.request # None
      BY <3>1, NoneAssumption DEF HeldClaim, Deadlines
    <3>3. Binds(hub, c)
      BY <2>1, <3>1, <3>2 DEF Honours, InForce
    <3>4. /\ o \in Known(hub) /\ c.device \in Members(hub[o])
          /\ hub[o].targets[c.device].owner_claim.request = c.request
      BY <3>1, <3>3 DEF Binds, TargetOf
    <3>5. hub[o].targets[c.device].owner_claim # NoClaim
      BY <3>2, <3>4 DEF NoClaim
    <3>6. c.device \in T
      BY <3>1, <3>3, <3>4, <3>5 DEF InForce, Occupied, Unacknowledged, TargetOf
    <3> QED
      BY <3>1, <3>4, <3>6
  <2>3. CASE o \notin Known(hub)
    <3>1. S = {}
      BY <2>2, <2>3
    <3> QED
      BY <2>1, <3>1, FS_EmptySet
  <2>4. CASE o \in Known(hub)
    <3>1. IsFiniteSet(T) /\ Cardinality(T) <= MaxParallelism
      <4>1. T \subseteq Devices
        BY <2>1, <2>4, KnownOperations DEF Occupied
      <4> QED
        BY <2>4, <4>1, DevicesAssumption, FS_Subset DEF SlotsInv, SlotsWithin
    <3>2. f \in [S -> T]
      BY <2>2
    <3>3. \A a, b \in S : a.device = b.device => a = b
      BY <2>1, <2>2 DEF HeldApart
    <3>4. f \in Injection(S, T)
      BY <3>2, <3>3 DEF Injection, IsInjective
    <3> HIDE DEF S, T, f
    <3>5. IsFiniteSet(S) /\ Cardinality(S) <= Cardinality(T)
      BY <3>1, <3>4, FS_Injection
    <3>6. Cardinality(S) \in Nat /\ Cardinality(T) \in Nat
      BY <3>1, <3>5, FS_CardinalityType
    <3>7. Cardinality(S) <= MaxParallelism
      BY <2>1, <3>1, <3>5, <3>6
    <3> QED
      BY <3>7 DEF S
  <2> QED
    BY <2>3, <2>4
<1> QED
  BY <1>1, <1>2, <1>3, PTL DEF Spec

-----------------------------------------------------------------------------
(* What is offered, and what the contract accepts.                           *)

TakesSlot(t, time) ==
    \/ t.lifecycle \in {"dispatched", "running"}
    \/ t.lifecycle = "accepted" /\ t.owner_claim # NoClaim /\ ~Lapsed(t, time)

OnOffer(t, time) ==
    /\ Unacknowledged(t)
    /\ t.owner_claim = NoClaim \/ Lapsed(t, time)
    /\ Cardinality(t.consumed) < MaxConsumed

\* Dropping the lapsed claim of a target neither frees nor takes a delivery slot,
\* and the target is on offer after it if it was before.
LEMMA ExpiryKeepsTheOffer ==
    ASSUME NEW t \in Target, NEW time
    PROVE  /\ TakesSlot(ExpiredTarget(t, time), time) <=> TakesSlot(t, time)
           /\ OnOffer(ExpiredTarget(t, time), time) <=> OnOffer(t, time)
<1> DEFINE u == ExpiredTarget(t, time)
<1>1. CASE ~(Unacknowledged(t) /\ Lapsed(t, time))
  BY <1>1 DEF ExpiredTarget
<1>2. CASE Unacknowledged(t) /\ Lapsed(t, time)
  <2>1. t.lifecycle = "accepted"
    BY <1>2 DEF Unacknowledged
  <2>2. CASE Cardinality(t.consumed) < MaxConsumed
    <3>1. u = [t EXCEPT !.owner_claim = NoClaim]
      BY <1>2, <2>2 DEF ExpiredTarget
    <3> HIDE DEF u
    <3>2. /\ u.owner_claim = NoClaim /\ u.lifecycle = t.lifecycle /\ u.stage = t.stage
          /\ u.consumed = t.consumed
      BY <3>1 DEF Target
    <3> QED
      BY <1>2, <2>1, <2>2, <3>2 DEF Unacknowledged, TakesSlot, OnOffer, u
  <2>3. CASE ~(Cardinality(t.consumed) < MaxConsumed)
    <3>1. u = [t EXCEPT !.owner_claim = NoClaim, !.lifecycle = "failed", !.stage = "failed"]
      BY <1>2, <2>3 DEF ExpiredTarget
    <3> HIDE DEF u
    <3>2. u.lifecycle = "failed"
      BY <3>1 DEF Target
    <3> QED
      BY <1>2, <2>1, <2>3, <3>2 DEF Unacknowledged, TakesSlot, OnOffer, u
  <2> QED
    BY <2>2, <2>3
<1> QED
  BY <1>1, <1>2

\* What expiry makes of an active operation.
LEMMA ExpiredOperation ==
    ASSUME NEW h \in Ledger, NEW o \in Active(h), NEW time
    PROVE  LET g == Expired(h, time) IN
           /\ g[o].expires = h[o].expires /\ g[o].retention = h[o].retention
           /\ Members(g[o]) = Members(h[o])
           /\ \A d \in Members(h[o]) : g[o].targets[d] = ExpiredTarget(h[o].targets[d], time)
<1> DEFINE g == Expired(h, time)
           ts == [d \in Members(h[o]) |-> ExpiredTarget(h[o].targets[d], time)]
<1>1. o \in OperationIds /\ h[o] \in Operations
  BY KnownOperations DEF Active
<1>2. g[o] = [h[o] EXCEPT !.targets = ts]
  BY <1>1 DEF Expired, Members
<1>3. DOMAIN ts = Members(h[o])
      /\ \A d \in Members(h[o]) : ts[d] = ExpiredTarget(h[o].targets[d], time)
  OBVIOUS
<1> HIDE DEF ts, g
<1>4. /\ g[o].targets = ts /\ g[o].expires = h[o].expires /\ g[o].retention = h[o].retention
  BY <1>1, <1>2 DEF Operations
<1> QED
  BY <1>3, <1>4 DEF Members, g

\* The owner is shown what a claim is granted for, at every later time: see
\* OneOfferForBoth.
THEOREM OneOffer == Spec => []OneOfferForBoth
<1>1. IInv => OneOfferForBoth
  <2> SUFFICES ASSUME IInv, NEW time \in now..MaxTime
               PROVE  Offered(hub, time) = Offered(Expired(hub, time), time)
    BY DEF OneOfferForBoth
  <2> DEFINE g == Expired(hub, time)
  <2>1. /\ hub \in Ledger /\ Active(g) = Active(hub)
    BY ExpireGood DEF IInv, Good
  <2>2. ASSUME NEW o \in Active(hub)
        PROVE  /\ g[o].expires = hub[o].expires /\ Members(g[o]) = Members(hub[o])
               /\ \A d \in Members(hub[o]) :
                     /\ TakesSlot(g[o].targets[d], time) <=> TakesSlot(hub[o].targets[d], time)
                     /\ OnOffer(g[o].targets[d], time) <=> OnOffer(hub[o].targets[d], time)
    <3>1. \A d \in Members(hub[o]) : hub[o].targets[d] \in Target
      BY <2>1, KnownOperations DEF Active
    <3> QED
      BY <2>1, <3>1, ExpiredOperation, ExpiryKeepsTheOffer
  <2> HIDE DEF g
  <2>3. ASSUME NEW o \in Active(hub), NEW d
        PROVE  Selectable(g, o, d, time) <=> Selectable(hub, o, d, time)
    <3>1. \A op : Occupying(op, time) = {e \in Members(op) : TakesSlot(op.targets[e], time)}
      BY DEF Occupying, TakesSlot
    <3>2. Occupying(g[o], time) = Occupying(hub[o], time)
      BY <2>2, <3>1
    <3>3. ASSUME NEW k
          PROVE  Selectable(k, o, d, time) <=>
                    /\ Cardinality(Occupying(k[o], time)) < MaxParallelism
                    /\ d \in Members(k[o]) /\ OnOffer(k[o].targets[d], time)
                    /\ k[o].expires > time
      BY DEF Selectable, OnOffer
    <3> QED
      BY <2>2, <3>2, <3>3
  <2> QED
    BY <2>1, <2>3 DEF Offered, g
<1> QED
  BY Invariance, <1>1, PTL

\* A confirmation finds every eligible target proposed.
LEMMA ConfirmationFits ==
    ASSUME NEW h, Good(h), NEW o \in Known(h), Lifecycle(h[o]) = "proposed"
    PROVE  TargetsValid(Executed(h, o)[o])
<1> DEFINE op == h[o]
           g == Executed(h, o)
           ts == [d \in Members(op) |->
                    IF d \in Eligible(op)
                    THEN [op.targets[d] EXCEPT !.lifecycle = "accepted", !.stage = "dispatch_ready"]
                    ELSE op.targets[d]]
<1>1. /\ o \in OperationIds /\ op \in Operations /\ h \in Ledger
      /\ \A d \in Members(op) : op.targets[d] \in Target
  BY KnownOperations DEF Good
<1>2. \A d \in Eligible(op) : op.targets[d].lifecycle = "proposed"
  <2>1. Some(op, {"proposed"})
    BY DEF Lifecycle
  <2> QED
    BY <2>1 DEF Some, Good, ConfirmedAtOnce
<1>3. g[o] = [op EXCEPT !.targets = ts]
  BY <1>1 DEF Executed, Members, Ledger
<1>4. /\ DOMAIN ts = Members(op)
      /\ \A d \in Members(op) :
            ts[d] = IF d \in Eligible(op)
                    THEN [op.targets[d] EXCEPT !.lifecycle = "accepted", !.stage = "dispatch_ready"]
                    ELSE op.targets[d]
  OBVIOUS
<1> HIDE DEF ts, g
<1>5. g[o].targets = ts /\ Members(g[o]) = Members(op)
  BY <1>1, <1>3, <1>4 DEF Operations, Members
<1> SUFFICES ASSUME NEW d \in Members(op)
             PROVE  TargetValid(ts[d]) /\ (ts[d].facts \in Fit => ClaimsValid(ts[d]))
  BY <1>5 DEF TargetsValid, Eligible, g
<1>6. TargetValid(op.targets[d]) /\ (d \in Eligible(op) => ClaimsValid(op.targets[d]))
  BY DEF Good, TargetsFit, ClaimsFit
<1>7. CASE d \notin Eligible(op)
  <2>1. ts[d] = op.targets[d]
    BY <1>4, <1>7
  <2> QED
    BY <1>6, <1>7, <2>1 DEF Eligible
<1>8. CASE d \in Eligible(op)
  <2>1. ts[d] = [op.targets[d] EXCEPT !.lifecycle = "accepted", !.stage = "dispatch_ready"]
    BY <1>4, <1>8
  <2>2. op.targets[d].lifecycle = "proposed" /\ op.targets[d].facts \in Fit
    BY <1>2, <1>8 DEF Eligible
  <2>3. NoEvidence(op.targets[d])
    BY <1>6, <2>2 DEF TargetValid, EligibleValid
  <2>4. /\ ts[d].lifecycle = "accepted" /\ ts[d].stage = "dispatch_ready"
        /\ ts[d].facts = op.targets[d].facts /\ ts[d].consumed = op.targets[d].consumed
        /\ ts[d].owner_claim = op.targets[d].owner_claim
        /\ ts[d].receipt = op.targets[d].receipt /\ ts[d].progress = op.targets[d].progress
        /\ ts[d].acknowledged = op.targets[d].acknowledged
    BY <1>1, <2>1 DEF Target
  <2>5. NoEvidence(ts[d])
    BY <2>3, <2>4, Zenon DEF NoEvidence
  <2>6. TargetValid(ts[d])
    BY <2>2, <2>4, <2>5 DEF TargetValid, EligibleValid
  <2>7. ClaimsValid(ts[d])
    BY <1>6, <1>8, <2>4 DEF ClaimsValid
  <2> QED
    BY <2>6, <2>7
<1> QED
  BY <1>7, <1>8

\* A call that keeps the claims of an eligible target and leaves it as the
\* contract wants it leaves the operation so.
LEMMA ReplacementFits ==
    ASSUME NEW h, Good(h), NEW o \in Known(h), NEW d \in Members(h[o]), NEW u \in Target,
           TargetValid(u), u.facts = h[o].targets[d].facts,
           u.owner_claim = h[o].targets[d].owner_claim,
           u.consumed = h[o].targets[d].consumed
    PROVE  TargetsValid(Replace(h, o, d, u)[o])
<1> DEFINE g == Replace(h, o, d, u)
<1>1. /\ Members(g[o]) = Members(h[o])
      /\ \A e \in Members(h[o]) : g[o].targets[e] = IF e = d THEN u ELSE h[o].targets[e]
  BY Replacing DEF Good
<1> HIDE DEF g
<1> SUFFICES ASSUME NEW e \in Members(h[o])
             PROVE  /\ TargetValid(g[o].targets[e])
                    /\ g[o].targets[e].facts \in Fit => ClaimsValid(g[o].targets[e])
  BY <1>1 DEF TargetsValid, Eligible, g
<1>2. /\ TargetValid(h[o].targets[e])
      /\ h[o].targets[e].facts \in Fit => ClaimsValid(h[o].targets[e])
  BY DEF Good, TargetsFit, ClaimsFit, Eligible
<1>3. CASE e # d
  BY <1>1, <1>2, <1>3
<1>4. CASE e = d
  <2>1. u.facts \in Fit => ClaimsValid(u)
    BY <1>2, <1>4 DEF ClaimsValid
  <2> QED
    BY <1>1, <1>4, <2>1
<1> QED
  BY <1>3, <1>4

\* An acknowledged target has no evidence but the acknowledgement.
LEMMA AcknowledgementFits ==
    ASSUME NEW h, Good(h), NEW c \in HeldClaim, NEW time \in Times, MayAcknowledge(h, c)
    PROVE  TargetsValid(Acknowledged(h, c, time)[c.operation])
<1> DEFINE o == c.operation
           d == c.device
           t == h[o].targets[d]
           u == [t EXCEPT !.lifecycle = "dispatched", !.stage = "owner_acknowledged",
                          !.acknowledged = time]
<1>1. o \in Known(h) /\ d \in Members(h[o])
  BY DEF MayAcknowledge, Open, Binds
<1>2. t \in Target /\ TargetValid(t)
  BY <1>1, KnownOperations DEF Good, TargetsFit
<1>3. t.lifecycle = "accepted" /\ t.stage = "dispatch_ready"
  BY DEF MayAcknowledge, Unacknowledged, TargetOf
<1>4. t.facts \in Fit /\ NoEvidence(t)
  BY <1>2, <1>3 DEF TargetValid, EligibleValid, RejectedValid
<1>5. /\ u \in Target /\ u.owner_claim = t.owner_claim /\ u.consumed = t.consumed
      /\ u.facts = t.facts /\ u.lifecycle = "dispatched" /\ u.stage = "owner_acknowledged"
      /\ u.acknowledged = time /\ u.receipt = t.receipt /\ u.progress = t.progress
  BY <1>2 DEF Target, Lifecycles, Stages
<1>6. Acknowledged(h, c, time) = Replace(h, o, d, u)
  BY DEF Acknowledged, TargetOf
<1> HIDE DEF u
<1>7. ~u.receipt /\ u.progress = NoProgress
  BY <1>4, <1>5, Zenon DEF NoEvidence
<1>8. TargetValid(u)
  BY <1>4, <1>5, <1>7, NoneIsNoTime DEF TargetValid, EligibleValid
<1> QED
  BY <1>1, <1>5, <1>6, <1>8, ReplacementFits

\* A receipt is admitted for an eligible target only.
LEMMA ReceiptFits ==
    ASSUME NEW h, Good(h), NEW c \in HeldClaim, MayReceive(h, c)
    PROVE  TargetsValid(Received(h, c)[c.operation])
<1> DEFINE o == c.operation
           d == c.device
           t == h[o].targets[d]
           u == [t EXCEPT !.lifecycle = "applied", !.stage = "applied", !.receipt = TRUE]
<1>1. o \in Known(h) /\ d \in Members(h[o])
  BY DEF MayReceive, Open, Binds
<1>2. t \in Target /\ TargetValid(t)
  BY <1>1, KnownOperations DEF Good, TargetsFit
<1>3. t.lifecycle \in {"dispatched", "running", "cancellation_requested"}
  BY DEF MayReceive, TargetOf
<1>4. t.facts \in Fit
  BY <1>2, <1>3 DEF TargetValid, RejectedValid
<1>5. /\ u \in Target /\ u.owner_claim = t.owner_claim /\ u.consumed = t.consumed
      /\ u.facts = t.facts /\ u.lifecycle = "applied" /\ u.stage = "applied" /\ u.receipt
  BY <1>2 DEF Target, Lifecycles, Stages
<1>6. Received(h, c) = Replace(h, o, d, u)
  BY DEF Received, TargetOf
<1> HIDE DEF u
<1>7. TargetValid(u)
  BY <1>4, <1>5 DEF TargetValid, EligibleValid
<1> QED
  BY <1>1, <1>5, <1>6, <1>7, ReplacementFits

\* Every stage that may follow is one the contract accepts.
LEMMA ReportFits ==
    ASSUME NEW h, Good(h), NEW c \in HeldClaim, NEW report \in Progress,
           MayReport(h, c, report)
    PROVE  TargetsValid(Reported(h, c, report)[c.operation])
<1> DEFINE o == c.operation
           d == c.device
           t == h[o].targets[d]
           u == [t EXCEPT !.stage = report.stage, !.lifecycle = LifecycleOf(report.stage),
                          !.progress = report]
<1>1. o \in Known(h) /\ d \in Members(h[o])
  BY DEF MayReport, Open, Binds
<1>2. t \in Target /\ TargetValid(t)
  BY <1>1, KnownOperations DEF Good, TargetsFit
<1>3. CASE t.progress = report
  <2>1. Reported(h, c, report) = h
    BY <1>3 DEF Reported, TargetOf
  <2> QED
    BY <1>1, <2>1 DEF Good, TargetsFit, ClaimsFit, TargetsValid
<1>4. CASE t.progress # report
  <2>1. t.acknowledged # None /\ report.stage \in Follows(t.stage)
    BY <1>4 DEF MayReport, TargetOf
  <2>2. t.stage \in {"owner_acknowledged", "staged", "awaiting_wearer", "recovery_required",
                    "cancellation_requested"}
    BY <2>1 DEF Follows
  <2>3. t.facts \in Fit /\ ~t.receipt
    BY <1>2, <2>2 DEF TargetValid, EligibleValid, RejectedValid
  <2>4. report.stage \in OwnerStages
    BY DEF Progress
  <2>5. /\ LifecycleOf(report.stage) \in Lifecycles
        /\ report.stage \in Stages
    BY <2>4 DEF LifecycleOf, OwnerStages, Lifecycles, Stages
  <2>6. /\ u \in Target /\ u.owner_claim = t.owner_claim /\ u.consumed = t.consumed
        /\ u.facts = t.facts /\ u.lifecycle = LifecycleOf(report.stage)
        /\ u.stage = report.stage /\ u.receipt = t.receipt
        /\ u.acknowledged = t.acknowledged /\ u.progress = report
    BY <1>2, <2>5 DEF Target
  <2>7. Reported(h, c, report) = Replace(h, o, d, u)
    BY <1>4 DEF Reported, TargetOf
  <2> HIDE DEF u
  <2>8. EligibleValid(u)
    <3>1. u.progress.stage = u.stage /\ ~u.receipt /\ u.acknowledged # None
      BY <2>1, <2>3, <2>6
    <3>2. CASE u.stage \in {"staged", "awaiting_wearer", "recovery_required"}
      <4>1. u.lifecycle = "running"
        BY <2>6, <3>2 DEF LifecycleOf
      <4> QED
        BY <3>1, <3>2, <4>1 DEF EligibleValid
    <3>3. CASE u.stage \in {"failed", "expired"}
      <4>1. u.lifecycle = u.stage
        BY <2>6, <3>3 DEF LifecycleOf
      <4> QED
        BY <3>1, <3>3, <4>1 DEF EligibleValid
    <3>4. CASE u.stage \in {"cancellation_requested", "cancelled"}
      <4>1. u.lifecycle = u.stage
        BY <2>6, <3>4 DEF LifecycleOf
      <4> QED
        BY <3>1, <3>4, <4>1 DEF EligibleValid
    <3> QED
      BY <2>4, <2>6, <3>2, <3>3, <3>4 DEF OwnerStages
  <2>9. TargetValid(u)
    BY <2>3, <2>6, <2>8 DEF TargetValid
  <2> QED
    BY <1>1, <2>6, <2>7, <2>9, ReplacementFits
<1> QED
  BY <1>3, <1>4

\* Whatever the guards let through is what the contract accepts: see GuardsSuffice.
THEOREM GuardsAreEnough == Spec => []GuardsSuffice
<1>1. IInv => GuardsSuffice
  <2> SUFFICES ASSUME IInv PROVE GuardsSuffice
    OBVIOUS
  <2>1. Good(hub) /\ held \subseteq HeldClaim /\ now \in Times
    BY DEF IInv
  <2>2. \A o \in Known(hub) :
           Lifecycle(hub[o]) = "proposed" => TargetsValid(Executed(hub, o)[o])
    BY <2>1, ConfirmationFits
  <2>3. \A o \in Active(hub) : TargetsValid(Expired(hub, now)[o])
    <3>1. /\ Good(Expired(hub, now)) /\ Known(Expired(hub, now)) = Known(hub)
      BY <2>1, ExpireGood
    <3>2. \A o \in Active(hub) : o \in Known(Expired(hub, now))
      BY <3>1 DEF Active
    <3> QED
      BY <3>1, <3>2 DEF Good, TargetsFit, ClaimsFit, TargetsValid
  <2>4. ASSUME NEW c \in held, MayAcknowledge(hub, c)
        PROVE  TargetsValid(Acknowledged(hub, c, now)[c.operation])
    BY <2>1, <2>4, AcknowledgementFits
  <2>5. ASSUME NEW c \in held, MayReceive(hub, c)
        PROVE  TargetsValid(Received(hub, c)[c.operation])
    BY <2>1, <2>5, ReceiptFits
  <2>6. ASSUME NEW c \in held, NEW stage \in OwnerStages,
               MayReport(hub, c, [stage |-> stage, observed |-> now])
        PROVE  TargetsValid(Reported(hub, c, [stage |-> stage, observed |-> now])[c.operation])
    <3>1. [stage |-> stage, observed |-> now] \in Progress /\ c \in HeldClaim
      BY <2>1 DEF Progress
    <3> QED
      BY <2>1, <2>6, <3>1, ReportFits
  <2> QED
    BY <2>2, <2>3, <2>4, <2>5, <2>6 DEF GuardsSuffice
<1> QED
  BY Invariance, <1>1, PTL

-----------------------------------------------------------------------------
(* The types, and the limits of the maps.                                    *)

Limited(h) ==
    /\ IsFiniteSet(Active(h)) /\ Cardinality(Active(h)) <= MaxOperations
    /\ IsFiniteSet(Archived(h)) /\ Cardinality(Archived(h)) <= MaxArchives

TypesInv == IInv /\ crashes \in 0..MaxCrashes /\ Limited(hub) /\ Limited(disk)

\* A call that neither adds nor archives keeps the limits.
LEMMA SameLimits ==
    ASSUME NEW h \in Ledger, NEW g \in Ledger, SameOperations(h, g), Limited(h)
    PROVE  Limited(g)
<1>1. ASSUME NEW k \in Ledger
      PROVE  Archived(k) = Known(k) \ Active(k)
  <2>1. \A o \in Known(k) : k[o].retention \in {"active", "archived"}
    BY KnownOperations DEF Operations
  <2> QED
    BY <2>1 DEF Archived, Active
<1>2. Archived(g) = Archived(h) /\ Active(g) = Active(h)
  BY <1>1 DEF SameOperations
<1> QED
  BY <1>2 DEF Limited

\* A preview is refused when the active map is full.
LEMMA PreviewLimits ==
    ASSUME NEW h \in Ledger, Limited(h), NEW o \in OperationIds, o \notin Known(h),
           NEW members, Cardinality(Active(h)) < MaxOperations
    PROVE  Limited(Previewed(h, o, members))
<1> DEFINE g == Previewed(h, o, members)
<1>1. /\ g[o].retention = "active" /\ g[o] # NoOperation
      /\ \A p \in OperationIds : p # o => g[p] = h[p]
  <2>1. /\ g[o].retention = "active"
        /\ \A p \in OperationIds : p # o => g[p] = h[p]
    BY DEF Previewed, Ledger
  <2> QED
    BY <2>1, NoneAssumption DEF NoOperation
<1> HIDE DEF g
<1>2. Active(g) = Active(h) \cup {o} /\ Archived(g) = Archived(h)
  BY <1>1 DEF Active, Archived, Known
<1>3. /\ IsFiniteSet(Active(g)) /\ Cardinality(Active(g)) <= Cardinality(Active(h)) + 1
      /\ Cardinality(Active(h)) \in Nat /\ Cardinality(Active(g)) \in Nat
  <2>1. IsFiniteSet(Active(h)) /\ Cardinality(Active(h)) \in Nat
    BY FS_CardinalityType DEF Limited
  <2>2. /\ IsFiniteSet(Active(h) \cup {o})
        /\ Cardinality(Active(h) \cup {o}) =
              IF o \in Active(h) THEN Cardinality(Active(h)) ELSE Cardinality(Active(h)) + 1
    BY <2>1, FS_AddElement
  <2> QED
    BY <1>2, <2>1, <2>2
<1>4. Cardinality(Active(g)) <= MaxOperations
  BY <1>3, BoundsAssumption
<1> QED
  BY <1>2, <1>3, <1>4 DEF Limited, g

\* An operation is archived only while the archive has room.
LEMMA ArchiveLimits ==
    ASSUME NEW h \in Ledger, Limited(h), NEW o \in Active(h),
           Cardinality(Archived(h)) < MaxArchives
    PROVE  Limited([h EXCEPT ![o].retention = "archived"])
<1> DEFINE g == [h EXCEPT ![o].retention = "archived"]
<1>1. o \in OperationIds /\ h[o] \in Operations /\ h[o].retention = "active"
  BY KnownOperations DEF Active
<1>2. /\ g[o].retention = "archived" /\ g[o] # NoOperation
      /\ \A p \in OperationIds : p # o => g[p] = h[p]
  <2>1. /\ g[o].retention = "archived"
        /\ \A p \in OperationIds : p # o => g[p] = h[p]
    BY <1>1 DEF Ledger, Operations
  <2> QED
    BY <2>1, NoneAssumption DEF NoOperation
<1> HIDE DEF g
<1>3. Active(g) \subseteq Active(h) /\ Archived(g) = Archived(h) \cup {o}
  BY <1>1, <1>2 DEF Active, Archived, Known
<1>4. IsFiniteSet(Active(g)) /\ Cardinality(Active(g)) <= MaxOperations
  <2>1. /\ IsFiniteSet(Active(g)) /\ Cardinality(Active(g)) <= Cardinality(Active(h))
        /\ Cardinality(Active(h)) \in Nat /\ Cardinality(Active(g)) \in Nat
    BY <1>3, FS_Subset, FS_CardinalityType DEF Limited
  <2> QED
    BY <2>1, BoundsAssumption DEF Limited
<1>5. /\ IsFiniteSet(Archived(g)) /\ Cardinality(Archived(g)) <= Cardinality(Archived(h)) + 1
      /\ Cardinality(Archived(h)) \in Nat /\ Cardinality(Archived(g)) \in Nat
  <2>1. IsFiniteSet(Archived(h)) /\ Cardinality(Archived(h)) \in Nat
    BY FS_CardinalityType DEF Limited
  <2>2. /\ IsFiniteSet(Archived(h) \cup {o})
        /\ Cardinality(Archived(h) \cup {o}) =
              IF o \in Archived(h) THEN Cardinality(Archived(h))
              ELSE Cardinality(Archived(h)) + 1
    BY <2>1, FS_AddElement
  <2> QED
    BY <1>3, <2>1, <2>2
<1>6. Cardinality(Archived(g)) <= MaxArchives
  BY <1>5, BoundsAssumption
<1> QED
  BY <1>4, <1>5, <1>6 DEF Limited, g

\* Every step keeps the types and the limits.
LEMMA TypesStep ==
    ASSUME TypesInv, [Next]_vars
    PROVE  TypesInv'
<1>1. IInv'
  BY NextStep DEF TypesInv
<1>2. /\ Good(hub) /\ hub \in Ledger /\ Limited(hub) /\ Limited(disk)
      /\ held \subseteq HeldClaim /\ now \in Times /\ facts \in [Devices -> Facts]
      /\ crashes \in 0..MaxCrashes
  BY DEF TypesInv, IInv, Good
<1> DEFINE Goal == crashes' \in 0..MaxCrashes /\ Limited(hub)' /\ Limited(disk)'
<1>3. ASSUME NEW g, Limited(g), Save(g), crashes' = crashes
      PROVE  Goal
  BY <1>2, <1>3 DEF Save
<1>4. ASSUME NEW g, Good(g), SameOperations(hub, g), Save(g), crashes' = crashes
      PROVE  Goal
  <2>1. Limited(g)
    BY <1>2, <1>4, SameLimits DEF Good
  <2> QED
    BY <1>3, <1>4, <2>1
<1> SUFFICES Goal
  BY <1>1 DEF TypesInv
<1>5. ASSUME NEW o \in OperationIds, NEW members \in SUBSET Devices, Preview(o, members)
      PROVE  Goal
  <2>1. Limited(Previewed(hub, o, members))
    BY <1>2, <1>5, PreviewLimits DEF Preview
  <2>2. Save(Previewed(hub, o, members)) /\ crashes' = crashes
    BY <1>5 DEF Preview
  <2> QED
    BY <1>3, <2>1, <2>2
<1>6. ASSUME NEW o \in OperationIds, Execute(o)
      PROVE  Goal
  <2>1. /\ o \in Known(hub) /\ Lifecycle(hub[o]) = "proposed"
        /\ OperationValid(Executed(hub, o)[o])
        /\ Save(Executed(hub, o)) /\ crashes' = crashes
    BY <1>6 DEF Execute
  <2>2. Good(Executed(hub, o)) /\ SameOperations(hub, Executed(hub, o))
    BY <1>2, <2>1, ExecuteGood
  <2> QED
    BY <1>4, <2>1, <2>2
<1>7. ASSUME NEW o \in OperationIds, Archive(o)
      PROVE  Goal
  <2>1. Limited([hub EXCEPT ![o].retention = "archived"])
    BY <1>2, <1>7, ArchiveLimits DEF Archive, MayArchive
  <2>2. Save([hub EXCEPT ![o].retention = "archived"]) /\ crashes' = crashes
    BY <1>7 DEF Archive
  <2> QED
    BY <1>3, <2>1, <2>2
<1>8. ASSUME NEW c \in held, NEW time \in 0..now, Acknowledge(c, time)
      PROVE  Goal
  <2>1. time \in Times /\ c \in HeldClaim
    BY <1>2, BoundsAssumption DEF Times
  <2>2. Good(Acknowledged(hub, c, time)) /\ SameOperations(hub, Acknowledged(hub, c, time))
    BY <1>2, <1>8, <2>1, AcknowledgeGood DEF Acknowledge
  <2>3. Save(Acknowledged(hub, c, time)) /\ crashes' = crashes
    BY <1>8 DEF Acknowledge
  <2> QED
    BY <1>4, <2>2, <2>3
<1>9. ASSUME NEW c \in held, NEW stage \in Reports, NEW time \in 0..now,
             Report(c, [stage |-> stage, observed |-> time])
      PROVE  Goal
  <2> DEFINE report == [stage |-> stage, observed |-> time]
  <2>1. report \in Progress /\ c \in HeldClaim
    BY <1>2, ReportsAssumption, BoundsAssumption DEF Progress, Times
  <2>2. /\ MayReport(hub, c, report) /\ OperationValid(Reported(hub, c, report)[c.operation])
        /\ Save(Reported(hub, c, report)) /\ crashes' = crashes
    BY <1>9 DEF Report
  <2> HIDE DEF report
  <2>3. Good(Reported(hub, c, report)) /\ SameOperations(hub, Reported(hub, c, report))
    BY <1>2, <2>1, <2>2, ReportGood
  <2> QED
    BY <1>4, <2>2, <2>3
<1>10. ASSUME NEW c \in held, Receive(c)
       PROVE  Goal
  <2>1. Good(Received(hub, c)) /\ SameOperations(hub, Received(hub, c))
    BY <1>2, <1>10, ReceiveGood DEF Receive
  <2>2. Save(Received(hub, c)) /\ crashes' = crashes
    BY <1>10 DEF Receive
  <2> QED
    BY <1>4, <2>1, <2>2
<1>11. ASSUME NEW o \in OperationIds, NEW d \in Devices, NEW r \in Requests,
              ClaimWork(o, d, r)
       PROVE  Goal
  <2> DEFINE lapsed == Expired(hub, now)
             granted == Claimed(lapsed, o, d, r)
  <2>1. /\ <<o, d>> \in Offered(lapsed, now) /\ MayOffer(lapsed, o, d, r)
        /\ \A p \in Active(granted) : OperationValid(granted[p])
        /\ Save(granted) /\ crashes' = crashes
    BY <1>11 DEF ClaimWork
  <2>2. /\ Good(lapsed) /\ SameOperations(hub, lapsed)
    BY <1>2, ExpireGood DEF SameOperations
  <2> HIDE DEF lapsed
  <2>3. o \in Active(lapsed) /\ d \in Members(lapsed[o]) /\ lapsed \in Ledger
    BY <2>1, <2>2 DEF Offered, Selectable, Good
  <2>4. OperationValid(granted[o])
    <3>1. lapsed[o] \in Operations /\ lapsed[o].retention = "active" /\ o \in OperationIds
      BY <2>3, KnownOperations DEF Active
    <3>2. granted[o].retention = "active"
      BY <2>3, <3>1 DEF granted, Claimed, Replace, Ledger, Operations
    <3>3. granted[o] # NoOperation
      BY <3>2, NoneAssumption DEF NoOperation
    <3> QED
      BY <2>1, <3>1, <3>2, <3>3 DEF Active, Known
  <2>5. Good(granted) /\ SameOperations(lapsed, granted)
    BY <1>2, <2>1, <2>2, <2>3, <2>4, ClaimGood
  <2> HIDE DEF granted
  <2>6. SameOperations(hub, granted)
    BY <2>2, <2>5 DEF SameOperations
  <2> QED
    BY <1>4, <2>1, <2>5, <2>6
<1>12. CASE Restart
  BY <1>2, <1>12, BoundsAssumption DEF Restart
<1>13. CASE \/ \E d \in Devices, f \in Facts : Observe(d, f)
            \/ Tick \/ UNCHANGED vars
  BY <1>2, <1>13 DEF Observe, Tick, vars
<1> HIDE DEF Goal
<1> QED
  BY <1>5, <1>6, <1>7, <1>8, <1>9, <1>10, <1>11, <1>12, <1>13 DEF Next, OwnerNext

\* The variables keep their types and the maps of operations their limits, for
\* any limits: see TypeOK.
THEOREM TypeCorrect == Spec => []TypeOK
<1>1. Init => TypesInv
  <2>1. Init => /\ Active(hub) = {} /\ Archived(hub) = {} /\ disk = hub
                /\ crashes \in 0..MaxCrashes
    BY BoundsAssumption DEF Init, Active, Archived, Known
  <2>2. MaxOperations \in Nat /\ MaxArchives \in Nat
    BY BoundsAssumption
  <2> QED
    BY <2>1, <2>2, InitInvariant, FS_EmptySet DEF TypesInv, Limited
<1>2. TypesInv /\ [Next]_vars => TypesInv'
  BY TypesStep
<1>3. TypesInv => TypeOK
  <2> SUFFICES ASSUME TypesInv PROVE TypeOK
    OBVIOUS
  <2>1. ASSUME NEW h \in Ledger, Limited(h)
        PROVE  /\ DOMAIN h = OperationIds
               /\ \A o \in Known(h) : OperationOK(h[o])
               /\ Cardinality(Active(h)) <= MaxOperations
               /\ Cardinality(Archived(h)) <= MaxArchives
    <3>1. DOMAIN h = OperationIds
      BY DEF Ledger
    <3>2. \A o \in Known(h) : OperationOK(h[o])
      BY KnownOperations DEF OperationOK, Operations
    <3> QED
      BY <2>1, <3>1, <3>2 DEF Limited
  <2>2. \A h \in {hub, disk} : h \in Ledger /\ Limited(h)
    BY DEF TypesInv, IInv, Good
  <2>3. /\ now \in Times /\ facts \in [Devices -> Facts] /\ crashes \in 0..MaxCrashes
        /\ held \subseteq HeldClaim
    BY DEF TypesInv, IInv
  <2> QED
    BY <2>1, <2>2, <2>3 DEF TypeOK, HeldClaim
<1> QED
  BY <1>1, <1>2, <1>3, PTL DEF Spec

=============================================================================
