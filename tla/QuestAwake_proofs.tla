--------------------------- MODULE QuestAwake_proofs ---------------------------
(***************************************************************************)
(* Proofs about QuestAwake for every set of operations, every set of        *)
(* headsets, every provider and every number of slots.                     *)
(*                                                                         *)
(* The argument: a watchdog that was started is confirmed no later than it *)
(* was started, on the disk too, and a stop or restore that has called the *)
(* provider of its headset while it runs, or before it was resumed, is     *)
(* confirmed no later either.  A start keeps this because it is dated by a *)
(* clock that no confirmation is ahead of; a stop because it waits for the *)
(* watchdog it has cancelled and while it is at work no other starts; a    *)
(* restart because it resumes the latest intent by time and identifier,    *)
(* and what called the provider is an intent the disk knows.               *)
(***************************************************************************)
EXTENDS QuestAwake, TLAPS

Ledgers == [Operations -> Operation \cup {NoOperation}]
ConfirmedOf(h) == {o \in Operations : Known(h, o) /\ h[o].confirmed # 0}

\* The states of a target that has been dispatched.
Past == {"dispatched", "running", "applied", "failed"}

\* The states of a target that a restart resumes as it was dispatched.
Live == {"dispatched", "running", "applied"}

StatesFit(h) ==
    \A o \in Operations, d \in Devices :
        StateOf(h, o, d) \in Past \cup {"accepted"} => o \in ConfirmedOf(h)

Proven(h) ==
    \A o \in Operations, d \in Devices : StateOf(h, o, d) = "applied" =>
        Effective(h[o].action, h[o].targets[d].receipt)

Good(h) == h \in Ledgers /\ StatesFit(h) /\ Proven(h)

\* What a ledger that comes after another one says of its operations.
Follows(h, c) ==
    \A o \in ConfirmedOf(h) :
        /\ o \in ConfirmedOf(c)
        /\ c[o].action = h[o].action /\ c[o].confirmed = h[o].confirmed
        /\ \A d \in Devices : StateOf(h, o, d) \in Past => StateOf(c, o, d) \in Past

\* It comes after it and has no more to be scheduled.
Keeps(h, c) ==
    /\ Good(c) /\ Follows(h, c)
    /\ ConfirmedOf(c) = ConfirmedOf(h)
    /\ \A o \in ConfirmedOf(h), d \in Devices :
          /\ StateOf(c, o, d) = "accepted" => StateOf(h, o, d) = "accepted"
          /\ StateOf(c, o, d) # "untargeted" => StateOf(h, o, d) # "untargeted"

\* Nothing is dispatched by what comes after it.
Starts(h, c) ==
    \E o \in ConfirmedOf(h), d \in Devices :
        StateOf(c, o, d) \in Live /\ StateOf(h, o, d) \notin Live

\* Confirmations are not ahead of the clock t, and a watchdog was confirmed when
\* it was started.
Dated(h, t, s) ==
    \A o \in ConfirmedOf(h) :
        /\ h[o].confirmed <= t
        /\ \A d \in Devices :
              h[o].action = "start_windows" /\ StateOf(h, o, d) \in Live =>
                  h[o].confirmed <= s[<<o, d>>]

\* The ends that reached a headset are operations of the ledger.
ReachedBy(h) ==
    \A d \in Devices : \A q \in reached[d] :
        q \in ConfirmedOf(h) /\ h[q].action \in Ends /\ StateOf(h, q, d) \in Past

LedgersInv ==
    /\ Good(hub) /\ Good(disk) /\ Follows(hub, disk) /\ ReachedBy(hub)
    /\ Dated(hub, now, started) /\ Dated(disk, now, started)

LoopPhases == Looping \cup {"over"}

\* A worker of an end that is past the watchdog it cancelled is alone with the
\* headset, and the ends that were there before a watchdog are not later than it.
WorkerInv(o, d) ==
    /\ work[<<o, d>>] # "none" => o \in ConfirmedOf(hub) /\ StateOf(hub, o, d) \in Past
    /\ work[<<o, d>>] \in LoopPhases =>
          cancel[d] # NoControl /\ cancel[d].operation = o
    /\ work[<<o, d>>] # "none" =>
          (work[<<o, d>>] \in LoopPhases <=> hub[o].action = "start_windows")
    /\ work[<<o, d>>] \in Looping =>
          /\ failures[d] < FailureLimit
          /\ \A q \in reached[d] : hub[q].confirmed <= started[<<o, d>>]
    /\ work[<<o, d>>] \in {"gate", "calling"} /\ hub[o].action \in Ends => Loops(d) = {}

WorkersInv == \A o \in Operations, d \in Devices : WorkerInv(o, d)

\* What is to be scheduled is confirmed.
DueInv == \A o \in Operations : due[o] > 0 => o \in ConfirmedOf(hub)

\* A hub that is down has no workers.
DownInv ==
    ~up => /\ \A o \in Operations : due[o] = 0
           /\ \A o \in Operations, d \in Devices : work[<<o, d>>] = "none"
           /\ \A d \in Devices : failures[d] = 0

IInv == TypeOK /\ LedgersInv /\ WorkersInv /\ DueInv /\ DownInv

-----------------------------------------------------------------------------
(* The ledger.                                                               *)

\* A pair is an operation and a headset.
LEMMA PairFields ==
    /\ \A p \in Pairs : /\ p[1] \in Operations /\ p[2] \in Devices
                        /\ p = <<p[1], p[2]>>
    /\ \A o \in Operations, d \in Devices : <<o, d>> \in Pairs
BY DEF Pairs

\* What is known of an operation of a ledger.
LEMMA KnownFields ==
    ASSUME NEW h \in Ledgers, NEW o \in Operations, Known(h, o)
    PROVE  /\ h[o] \in Operation /\ h[o].action \in AllActions /\ h[o].confirmed \in Nat
           /\ h[o].targets \in [Devices -> Target]
           /\ \A d \in Devices : /\ h[o].targets[d] \in Target
                               /\ StateOf(h, o, d) = h[o].targets[d].state
<1>1. h[o] \in Operation
  BY DEF Ledgers, Known
<1>2. h[o].targets \in [Devices -> Target]
  BY <1>1 DEF Operation
<1> QED
  BY <1>1, <1>2 DEF Operation, StateOf

\* Other targets for an operation.
WithTargets(h, o, t) == [h EXCEPT ![o].targets = t]

Retargeted(h, c, o, t) ==
    /\ c \in Ledgers
    /\ c[o].targets = t /\ c[o].action = h[o].action
    /\ c[o].confirmed = h[o].confirmed
    /\ \A q \in Operations : (Known(c, q) <=> Known(h, q)) /\ (q # o => c[q] = h[q])

\* Only the targets of that operation change.
LEMMA SetTargets ==
    ASSUME NEW h \in Ledgers, NEW o \in Operations, Known(h, o),
           NEW t \in [Devices -> Target]
    PROVE  Retargeted(h, WithTargets(h, o, t), o, t)
<1> DEFINE y == [h[o] EXCEPT !.targets = t]
<1>1. h[o] \in Operation
  BY KnownFields
<1>2. /\ y \in Operation /\ y.targets = t
      /\ y.action = h[o].action /\ y.confirmed = h[o].confirmed
  BY <1>1 DEF Operation
<1>3. WithTargets(h, o, t) = [h EXCEPT ![o] = y]
  BY DEF WithTargets
<1> HIDE DEF y
<1> QED
  BY <1>2, <1>3, NoOperationAssumption DEF Ledgers, Known, Retargeted

\* A ledger whose targets have only moved on keeps what the one before it says.
LEMMA TargetsMove ==
    ASSUME NEW h, Good(h), NEW c \in Ledgers,
           \A o \in Operations : Known(c, o) <=> Known(h, o),
           \A o \in Operations : Known(h, o) =>
              c[o].action = h[o].action /\ c[o].confirmed = h[o].confirmed,
           \A o \in Operations, d \in Devices : Known(h, o) =>
              \/ c[o].targets[d] = h[o].targets[d]
              \/ /\ o \in ConfirmedOf(h) /\ h[o].targets[d].state # "untargeted"
                 /\ c[o].targets[d].state \in Past
                 /\ c[o].targets[d].state = "applied" =>
                       Effective(h[o].action, c[o].targets[d].receipt)
    PROVE  Keeps(h, c)
<1>1. h \in Ledgers /\ StatesFit(h) /\ Proven(h)
  BY DEF Good
<1>2. ConfirmedOf(c) = ConfirmedOf(h)
  BY DEF ConfirmedOf
<1>5. ASSUME NEW o \in Operations, NEW d \in Devices
      PROVE  \/ /\ StateOf(c, o, d) = StateOf(h, o, d)
                /\ StateOf(h, o, d) = "applied" =>
                     /\ c[o].action = h[o].action
                     /\ c[o].targets[d].receipt = h[o].targets[d].receipt
             \/ /\ o \in ConfirmedOf(h) /\ StateOf(h, o, d) # "untargeted"
                /\ StateOf(c, o, d) \in Past
                /\ StateOf(c, o, d) = "applied" =>
                      Effective(c[o].action, c[o].targets[d].receipt)
  BY DEF StateOf
<1>6. StatesFit(c)
  BY <1>1, <1>2, <1>5 DEF StatesFit
<1>7. Proven(c)
  BY <1>1, <1>5 DEF Proven
<1>8. Follows(h, c)
  BY <1>2, <1>5 DEF Follows, ConfirmedOf
<1>9. \A o \in ConfirmedOf(h), d \in Devices :
          /\ StateOf(c, o, d) = "accepted" => StateOf(h, o, d) = "accepted"
          /\ StateOf(c, o, d) # "untargeted" => StateOf(h, o, d) # "untargeted"
  BY <1>5 DEF ConfirmedOf, Past
<1> QED
  BY <1>2, <1>6, <1>7, <1>8, <1>9 DEF Keeps, Good

\* A ledger comes after itself, and after what it comes after comes after.
LEMMA KeepsItself == \A h : Good(h) => Keeps(h, h) /\ Follows(h, h)
BY DEF Keeps, Follows

\* What comes after a later ledger comes after an earlier one.
LEMMA FollowsOn ==
    ASSUME NEW h, NEW c, NEW k, Follows(h, c), Follows(c, k)
    PROVE  Follows(h, k)
BY DEF Follows

\* A target of an operation that is confirmed fails.
LEMMA FailedKeeps ==
    ASSUME NEW h, Good(h), NEW o \in Operations, NEW d \in Devices,
           StateOf(h, o, d) \in Past
    PROVE  Keeps(h, Failed(h, o, d)) /\ ~Starts(h, Failed(h, o, d))
<1> DEFINE x == [h[o].targets[d] EXCEPT !.state = "failed"]
           t == [h[o].targets EXCEPT ![d] = x]
           c == Failed(h, o, d)
<1>1. h \in Ledgers /\ o \in ConfirmedOf(h) /\ Known(h, o)
  BY DEF Good, StatesFit, ConfirmedOf
<1>2. x \in Target /\ x.state = "failed"
  BY <1>1, KnownFields DEF Target
<1>3. /\ t \in [Devices -> Target] /\ t[d] = x
      /\ \A e \in Devices : e # d => t[e] = h[o].targets[e]
  <2> HIDE DEF x
  <2> QED
    BY <1>1, <1>2, KnownFields
<1>4. c = WithTargets(h, o, t)
  BY DEF Failed, WithTargets
<1> HIDE DEF t, c
<1>5. /\ c \in Ledgers
      /\ c[o].targets = t /\ c[o].action = h[o].action
      /\ c[o].confirmed = h[o].confirmed
      /\ \A q \in Operations : (Known(c, q) <=> Known(h, q)) /\ (q # o => c[q] = h[q])
  <2>1. Retargeted(h, c, o, t)
    BY <1>1, <1>3, <1>4, SetTargets
  <2> QED
    BY <2>1 DEF Retargeted
<1>6. h[o].targets[d].state # "untargeted"
  BY <1>1, KnownFields DEF Past
<1> HIDE DEF x
<1>7. Keeps(h, c)
  BY <1>1, <1>2, <1>3, <1>5, <1>6, TargetsMove DEF Past
<1>8. ~Starts(h, c)
  BY <1>2, <1>3, <1>5 DEF Starts, Live, StateOf, ConfirmedOf
<1> QED
  BY <1>7, <1>8 DEF c

\* A receipt is applied.
LEMMA AppliedKeeps ==
    ASSUME NEW h, Good(h), NEW o \in Operations, NEW d \in Devices,
           StateOf(h, o, d) \in Live, NEW r \in Readbacks, NEW claim \in BOOLEAN,
           Coherent(h[o].action, r, claim)
    PROVE  /\ Keeps(h, Applied(h, o, d, r, claim))
           /\ ~Starts(h, Applied(h, o, d, r, claim))
<1> DEFINE x == [state |-> IF claim THEN "applied" ELSE "running", receipt |-> r]
           t == [h[o].targets EXCEPT ![d] = x]
           c == Applied(h, o, d, r, claim)
<1>1. h \in Ledgers /\ o \in ConfirmedOf(h) /\ Known(h, o)
  BY DEF Good, StatesFit, ConfirmedOf, Past, Live
<1>2. /\ x \in Target /\ x.state \in Past
      /\ x.state = "applied" => Effective(h[o].action, x.receipt)
  BY BoundsAssumption DEF Target, Past, Coherent
<1>3. /\ t \in [Devices -> Target] /\ t[d] = x
      /\ \A e \in Devices : e # d => t[e] = h[o].targets[e]
  <2> HIDE DEF x
  <2> QED
    BY <1>1, <1>2, KnownFields
<1>4. c = WithTargets(h, o, t)
  BY DEF Applied, WithTargets
<1> HIDE DEF t, c
<1>5. /\ c \in Ledgers
      /\ c[o].targets = t /\ c[o].action = h[o].action
      /\ c[o].confirmed = h[o].confirmed
      /\ \A q \in Operations : (Known(c, q) <=> Known(h, q)) /\ (q # o => c[q] = h[q])
  <2>1. Retargeted(h, c, o, t)
    BY <1>1, <1>3, <1>4, SetTargets
  <2> QED
    BY <2>1 DEF Retargeted
<1>6. h[o].targets[d].state # "untargeted"
  BY <1>1, KnownFields DEF Live
<1> HIDE DEF x
<1>7. Keeps(h, c)
  BY <1>1, <1>2, <1>3, <1>5, <1>6, TargetsMove
<1>8. ~Starts(h, c)
  BY <1>3, <1>5 DEF Starts, StateOf, ConfirmedOf
<1> QED
  BY <1>7, <1>8 DEF c

\* Two steps that keep keep.
LEMMA KeepsOn ==
    ASSUME NEW h, NEW c, NEW k, Keeps(h, c), Keeps(c, k)
    PROVE  Keeps(h, k)
BY DEF Keeps, Follows

\* Targets of an operation that is confirmed are dispatched or fail together.
Marked(h, o, ds, state) ==
    [h EXCEPT ![o].targets = [d \in Devices |->
        IF d \in ds THEN [@[d] EXCEPT !.state = state] ELSE @[d]]]

\* Marking keeps what the ledger says, and marks those headsets only.
LEMMA MarkedKeeps ==
    ASSUME NEW h, Good(h), NEW o \in ConfirmedOf(h), NEW ds,
           \A d \in Devices : d \in ds => StateOf(h, o, d) # "untargeted",
           NEW state \in {"dispatched", "failed"}
    PROVE  /\ Keeps(h, Marked(h, o, ds, state))
           /\ \A d \in Devices : StateOf(Marked(h, o, ds, state), o, d) =
                 IF d \in ds THEN state ELSE StateOf(h, o, d)
           /\ \A q \in Operations, d \in Devices :
                 q # o => StateOf(Marked(h, o, ds, state), q, d) = StateOf(h, q, d)
<1> DEFINE u == h[o].targets
           t == [d \in Devices |-> IF d \in ds THEN [u[d] EXCEPT !.state = state] ELSE u[d]]
           c == Marked(h, o, ds, state)
<1>1. h \in Ledgers /\ o \in Operations /\ Known(h, o)
  BY DEF Good, ConfirmedOf
<1>2. ASSUME NEW d \in Devices
      PROVE  /\ t[d] \in Target
             /\ d \in ds => t[d].state = state
             /\ d \notin ds => t[d] = u[d]
  <2>1. u[d] \in Target
    BY <1>1, KnownFields
  <2> QED
    BY <2>1 DEF Target
<1>3. t \in [Devices -> Target]
  BY <1>2
<1>4. c = WithTargets(h, o, t)
  BY DEF Marked, WithTargets
<1> HIDE DEF t, c
<1>5. /\ c \in Ledgers
      /\ c[o].targets = t /\ c[o].action = h[o].action
      /\ c[o].confirmed = h[o].confirmed
      /\ \A q \in Operations : (Known(c, q) <=> Known(h, q)) /\ (q # o => c[q] = h[q])
  <2>1. Retargeted(h, c, o, t)
    BY <1>1, <1>3, <1>4, SetTargets
  <2> QED
    BY <2>1 DEF Retargeted
<1>6. \A d \in Devices : StateOf(h, o, d) = u[d].state
  BY <1>1, KnownFields
<1>7. Keeps(h, c)
  BY <1>1, <1>2, <1>5, <1>6, TargetsMove DEF Past
<1>8. \A d \in Devices : StateOf(c, o, d) = t[d].state
  BY <1>1, <1>5 DEF StateOf
<1>9. \A q \in Operations, d \in Devices : q # o => StateOf(c, q, d) = StateOf(h, q, d)
  BY <1>5 DEF StateOf
<1> QED
  BY <1>2, <1>6, <1>7, <1>8, <1>9 DEF c

\* A preview confirms nothing.
LEMMA PreviewedKeeps ==
    ASSUME NEW h, Good(h), NEW o \in Operations, ~Known(h, o), NEW a \in Actions, NEW ds
    PROVE  Keeps(h, Previewed(h, o, a, ds)) /\ ~Starts(h, Previewed(h, o, a, ds))
<1> DEFINE t == [d \in Devices |->
                  [state |-> IF d \in ds THEN "proposed" ELSE "untargeted",
                   receipt |-> NoReadback]]
           x == [action |-> a, confirmed |-> 0, targets |-> t]
           c == Previewed(h, o, a, ds)
<1>1. t \in [Devices -> Target]
  BY DEF Target
<1>2. x \in Operation /\ x.confirmed = 0
  <2> HIDE DEF t
  <2> QED
    BY <1>1, BoundsAssumption DEF Operation
<1>3. \A d \in Devices : x.targets[d].state \in {"proposed", "untargeted"}
  OBVIOUS
<1>4. c = [h EXCEPT ![o] = x]
  BY DEF Previewed
<1> HIDE DEF x, t, c
<1>5. /\ c \in Ledgers /\ c[o] = x /\ \A q \in Operations : q # o => c[q] = h[q]
      /\ Known(c, o)
  BY <1>2, <1>4, NoOperationAssumption DEF Good, Ledgers, Known
<1>6. ConfirmedOf(c) = ConfirmedOf(h)
  BY <1>2, <1>5 DEF ConfirmedOf, Known
<1>8. ASSUME NEW q \in Operations, NEW d \in Devices
      PROVE  /\ q = o => StateOf(c, q, d) \in {"proposed", "untargeted"}
             /\ q # o => StateOf(c, q, d) = StateOf(h, q, d) /\ c[q] = h[q]
  BY <1>3, <1>5 DEF StateOf, Known
<1>9. o \notin ConfirmedOf(h)
  BY DEF ConfirmedOf
<1>10. Good(c)
  <2>2. StatesFit(c)
    BY <1>6, <1>8 DEF Good, StatesFit, Past
  <2>3. Proven(c)
    BY <1>8 DEF Good, Proven
  <2> QED
    BY <1>5, <2>2, <2>3 DEF Good
<1>11. \A q \in ConfirmedOf(h) : q \in Operations /\ q # o
  BY <1>9 DEF ConfirmedOf
<1>12. ~Starts(h, c)
  BY <1>8, <1>11 DEF Starts
<1> QED
  BY <1>5, <1>6, <1>8, <1>10, <1>11, <1>12 DEF Keeps, Follows, c

\* A confirmation accepts and starts nothing.
LEMMA ConfirmedGood ==
    ASSUME NEW h, Good(h), NEW o \in Operations, Known(h, o), h[o].confirmed = 0,
           NEW t \in Nat \ {0}
    PROVE  /\ Good(Confirmed(h, o, t)) /\ Follows(h, Confirmed(h, o, t))
           /\ ConfirmedOf(Confirmed(h, o, t)) = ConfirmedOf(h) \cup {o}
           /\ Confirmed(h, o, t)[o].confirmed = t
           /\ \A q \in ConfirmedOf(h) : q # o /\ Confirmed(h, o, t)[q] = h[q]
           /\ \A q \in ConfirmedOf(h), d \in Devices :
                 StateOf(Confirmed(h, o, t), q, d) = StateOf(h, q, d)
           /\ \A d \in Devices : StateOf(Confirmed(h, o, t), o, d) \notin Past
<1> DEFINE u == h[o].targets
           v == [d \in Devices |-> IF u[d].state = "proposed"
                                   THEN [u[d] EXCEPT !.state = "accepted"] ELSE u[d]]
           y == [h[o] EXCEPT !.confirmed = t, !.targets = v]
           c == Confirmed(h, o, t)
<1>1. h \in Ledgers /\ StatesFit(h) /\ Proven(h)
  BY DEF Good
<1>2. o \notin ConfirmedOf(h) /\ ConfirmedOf(h) \subseteq Operations
  BY DEF ConfirmedOf
<1>3. ASSUME NEW d \in Devices
      PROVE  /\ v[d] \in Target
             /\ v[d].state = "accepted" \/ v[d] = u[d]
  <2>1. u[d] \in Target
    BY <1>1, KnownFields
  <2> QED
    BY <2>1 DEF Target
<1>4. v \in [Devices -> Target]
  BY <1>3
<1>5. h[o] \in Operation
  BY <1>1, KnownFields
<1>6. c = [h EXCEPT ![o] = y]
  BY DEF Confirmed
<1> HIDE DEF v
<1>7. /\ y \in Operation /\ y.confirmed = t /\ y.targets = v
      /\ y.action = h[o].action
  BY <1>4, <1>5 DEF Operation
<1> HIDE DEF y, c
<1>8. /\ c \in Ledgers /\ c[o] = y /\ \A q \in Operations : q # o => c[q] = h[q]
      /\ \A q \in Operations : Known(c, q) <=> Known(h, q)
  BY <1>1, <1>6, <1>7, NoOperationAssumption DEF Ledgers, Known
<1>9. ConfirmedOf(c) = ConfirmedOf(h) \cup {o}
  BY <1>7, <1>8 DEF ConfirmedOf
<1>10. ASSUME NEW q \in Operations, NEW d \in Devices
       PROVE  /\ q # o => StateOf(c, q, d) = StateOf(h, q, d) /\ c[q] = h[q]
              /\ q = o => StateOf(c, q, d) = v[d].state
  BY <1>7, <1>8 DEF StateOf
<1>11. \A d \in Devices : StateOf(h, o, d) = u[d].state /\ u[d].state \notin Past
  BY <1>1, <1>2, KnownFields DEF StatesFit
<1>12. StatesFit(c)
  BY <1>1, <1>9, <1>10 DEF StatesFit
<1>13. \A d \in Devices : StateOf(c, o, d) \notin Past
  BY <1>3, <1>10, <1>11 DEF Past
<1>14. Proven(c)
  <2> SUFFICES ASSUME NEW q \in Operations, NEW d \in Devices, StateOf(c, q, d) = "applied"
               PROVE  Effective(c[q].action, c[q].targets[d].receipt)
    BY DEF Proven
  <2>1. q # o
    BY <1>13 DEF Past
  <2> QED
    BY <1>1, <1>10, <2>1 DEF Proven
<1>15. \A q \in ConfirmedOf(h) : q \in Operations /\ q # o
  BY <1>2
<1>16. Follows(h, c)
  BY <1>8, <1>9, <1>10, <1>15 DEF Follows
<1>17. c[o].confirmed = t
  BY <1>7, <1>8
<1> QED
  BY <1>8, <1>9, <1>10, <1>12, <1>13, <1>14, <1>15, <1>16, <1>17 DEF Good, c

\* A ledger that starts nothing is dated as the one before it was.
LEMMA DatedKept ==
    ASSUME NEW h, NEW c, Keeps(h, c), ~Starts(h, c), NEW t, NEW s, Dated(h, t, s)
    PROVE  Dated(c, t, s)
<1>1. /\ ConfirmedOf(c) = ConfirmedOf(h)
      /\ \A o \in ConfirmedOf(h) :
            c[o].action = h[o].action /\ c[o].confirmed = h[o].confirmed
  BY DEF Keeps, Follows
<1>2. \A o \in ConfirmedOf(h), d \in Devices :
          StateOf(c, o, d) \in Live => StateOf(h, o, d) \in Live
  BY DEF Starts
<1> QED
  BY <1>1, <1>2 DEF Dated

-----------------------------------------------------------------------------
(* The steps of handlers and workers.                                        *)

\* What every step but a confirmation does to the ledgers.
LedgerStep ==
    /\ Keeps(hub, hub') /\ Good(disk') /\ Follows(hub', disk')
    /\ Dated(hub', now', started') /\ Dated(disk', now', started')

\* Whatever becomes of its persisting, a ledger that keeps is a ledger step.
LEMMA PersistStep ==
    ASSUME IInv, NEW c, Keeps(hub, c), Dated(c, now', started'),
           Dated(hub, now', started'), Dated(disk, now', started'),
           NEW outcome, Persist(c, outcome)
    PROVE  LedgerStep
<1>1. Good(hub) /\ Good(disk) /\ Follows(hub, disk) /\ Good(c) /\ Follows(hub, c)
  BY DEF IInv, LedgersInv, Keeps
<1>2. hub' \in {hub, c} /\ disk' \in {disk, c}
      /\ (hub' = c => disk' = c \/ c = hub)
  BY DEF Persist
<1>3. Keeps(hub, hub)
  BY <1>1, KeepsItself
<1>4. Follows(c, c)
  BY <1>1, KeepsItself
<1>5. Keeps(hub, hub') /\ Good(disk')
  BY <1>1, <1>2, <1>3
<1>6. Follows(hub', disk')
  BY <1>1, <1>2, <1>4
<1>7. Dated(hub', now', started') /\ Dated(disk', now', started')
  BY <1>2
<1> QED
  BY <1>5, <1>6, <1>7 DEF LedgerStep

\* A ledger that starts nothing is persisted, or is not.
LEMMA QuietPersist ==
    ASSUME IInv, NEW c, Keeps(hub, c), ~Starts(hub, c), UNCHANGED <<now, started>>,
           NEW outcome, Persist(c, outcome)
    PROVE  LedgerStep
<1>1. Dated(hub, now', started') /\ Dated(disk, now', started')
  BY DEF IInv, LedgersInv
<1>2. Dated(c, now', started')
  BY <1>1, DatedKept
<1> QED
  BY <1>1, <1>2, PersistStep

\* A step that writes no ledger is one too.
LEMMA SameLedgers == IInv /\ UNCHANGED <<hub, disk, now, started>> => LedgerStep
<1>1. IInv => Keeps(hub, hub)
  BY KeepsItself DEF IInv, LedgersInv
<1> QED
  BY <1>1 DEF IInv, LedgersInv, LedgerStep

\* What reached a headset stays an operation of the ledger.
LEMMA LedgersKept ==
    ASSUME IInv, LedgerStep, reached' = reached
    PROVE  LedgersInv'
<1>1. /\ Good(hub') /\ Good(disk') /\ Follows(hub', disk') /\ Follows(hub, hub')
      /\ Dated(hub', now', started') /\ Dated(disk', now', started')
  BY DEF LedgerStep, Keeps
<1>2. ReachedBy(hub)'
  BY <1>1 DEF IInv, LedgersInv, ReachedBy, Follows
<1> QED
  BY <1>1, <1>2 DEF LedgersInv

\* What a ledger step leaves alone.
LEMMA LedgerStepKeeps ==
    ASSUME LedgerStep
    PROVE  /\ hub' \in Ledgers /\ disk' \in Ledgers
           /\ ConfirmedOf(hub)' = ConfirmedOf(hub)
           /\ \A q \in ConfirmedOf(hub) :
                 /\ hub'[q].action = hub[q].action
                 /\ hub'[q].confirmed = hub[q].confirmed
                 /\ \A d \in Devices :
                       /\ StateOf(hub, q, d) \in Past => StateOf(hub', q, d) \in Past
                       /\ StateOf(hub', q, d) = "accepted" => StateOf(hub, q, d) = "accepted"
                       /\ StateOf(hub', q, d) # "untargeted" => StateOf(hub, q, d) # "untargeted"
BY DEF LedgerStep, Keeps, Follows, Good

\* What is to be scheduled stays confirmed.
LEMMA DueKept ==
    ASSUME IInv, LedgerStep,
           \A o \in Operations : due'[o] > 0 => due[o] > 0 \/ o \in ConfirmedOf(hub)
    PROVE  DueInv'
BY LedgerStepKeeps DEF IInv, DueInv

\* A worker that does not move, while others may.
LEMMA WorkerKept ==
    ASSUME LedgerStep, ReachedBy(hub), NEW o \in Operations, NEW d \in Devices, WorkerInv(o, d),
           work'[<<o, d>>] = work[<<o, d>>],
           work[<<o, d>>] \in LoopPhases =>
              \/ cancel'[d] = cancel[d]
              \/ cancel'[d] # NoControl /\ cancel'[d].operation = cancel[d].operation,
           work[<<o, d>>] \in Looping =>
              /\ reached'[d] = reached[d] /\ failures'[d] = failures[d]
              /\ started'[<<o, d>>] = started[<<o, d>>],
           work[<<o, d>>] # "none" => Loops(d)' \subseteq Loops(d)
    PROVE  WorkerInv(o, d)'
<1> DEFINE w == work[<<o, d>>]
<1>1. CASE w = "none"
  BY <1>1 DEF WorkerInv, LoopPhases, Looping
<1>2. CASE w # "none"
  <2>1. /\ o \in ConfirmedOf(hub) /\ StateOf(hub, o, d) \in Past
        /\ w \in LoopPhases => cancel[d] # NoControl /\ cancel[d].operation = o
        /\ w \in LoopPhases <=> hub[o].action = "start_windows"
        /\ w \in Looping =>
              /\ failures[d] < FailureLimit
              /\ \A q \in reached[d] : hub[q].confirmed <= started[<<o, d>>]
        /\ w \in {"gate", "calling"} /\ hub[o].action \in Ends => Loops(d) = {}
    BY <1>2 DEF WorkerInv
  <2>2. /\ o \in ConfirmedOf(hub)' /\ StateOf(hub', o, d) \in Past
        /\ hub'[o].action = hub[o].action /\ hub'[o].confirmed = hub[o].confirmed
    BY <2>1, LedgerStepKeeps
  <2>3. w \in LoopPhases => cancel'[d] # NoControl /\ cancel'[d].operation = o
    BY <2>1
  <2>4. w \in Looping =>
           /\ failures'[d] < FailureLimit
           /\ \A q \in reached'[d] : hub'[q].confirmed <= started'[<<o, d>>]
    <3>1. \A q \in reached[d] : hub'[q].confirmed = hub[q].confirmed
      BY LedgerStepKeeps DEF ReachedBy
    <3> QED
      BY <2>1, <3>1
  <2>5. w \in {"gate", "calling"} /\ hub'[o].action \in Ends => Loops(d)' = {}
    BY <1>2, <2>1, <2>2
  <2> QED
    BY <2>1, <2>2, <2>3, <2>4, <2>5 DEF WorkerInv
<1> QED
  BY <1>1, <1>2

\* A step that moves no worker.
LEMMA QuietStep ==
    ASSUME IInv, LedgerStep, UNCHANGED <<up, due, work, failures, cancel, started, reached>>,
           lapsed' \subseteq Operations, now' \in Nat \ {0}, now <= now',
           asked' \in [Operations -> SUBSET (1..now')]
    PROVE  IInv'
<1>1. DueInv'
  BY DueKept
<1>2. LedgersInv'
  BY LedgersKept
<1>3. started' \in [Pairs -> 0..now']
  <2>1. 0..now \subseteq 0..now'
    BY DEF IInv, TypeOK
  <2> QED
    BY <2>1 DEF IInv, TypeOK
<1>4. TypeOK'
  BY <1>3, LedgerStepKeeps DEF IInv, TypeOK, Ledgers
<1>5. WorkersInv'
  <2> SUFFICES ASSUME NEW o \in Operations, NEW d \in Devices
               PROVE  WorkerInv(o, d)'
    BY DEF WorkersInv
  <2>1. WorkerInv(o, d) /\ ReachedBy(hub)
    BY DEF IInv, WorkersInv, LedgersInv
  <2>2. Loops(d)' = Loops(d)
    BY DEF Loops
  <2> QED
    BY <2>1, <2>2, WorkerKept
<1>6. DownInv'
  BY DEF IInv, DownInv
<1> QED
  BY <1>1, <1>2, <1>4, <1>5, <1>6 DEF IInv

\* A worker moves on: what must be shown of its new phase.
LEMMA MoveStep ==
    ASSUME IInv, up, LedgerStep, NEW o \in Operations, NEW d \in Devices,
           NEW to \in Phases, work[<<o, d>>] # "none",
           work' = [work EXCEPT ![<<o, d>>] = to],
           to # "none" => (to \in LoopPhases <=> work[<<o, d>>] \in LoopPhases),
           to \in Looping => work[<<o, d>>] \in Looping /\ failures'[d] < FailureLimit,
           to \in {"gate", "calling"} /\ hub[o].action \in Ends => Loops(d) = {},
           \A e \in Devices :
              \/ cancel'[e] = cancel[e]
              \/ cancel'[e] # NoControl /\ cancel'[e].operation = cancel[e].operation
              \/ e = d /\ work[<<o, d>>] \in LoopPhases /\ to = "none",
           \A e \in Devices :
              failures'[e] = failures[e] \/ (e = d /\ work[<<o, d>>] \in Looping),
           \A e \in Devices : reached'[e] = reached[e] \/ Loops(e) = {},
           failures' \in [Devices -> 0..FailureLimit],
           cancel' \in [Devices -> [operation : Operations, cancelled : BOOLEAN] \cup {NoControl}],
           reached' \in [Devices -> SUBSET Operations], due' \in [Operations -> Nat],
           UNCHANGED <<up, now, lapsed, asked, started>>, LedgersInv', DueInv'
    PROVE  IInv'
<1>1. \A q \in Operations, e \in Devices :
          work'[<<q, e>>] = IF q = o /\ e = d THEN to ELSE work[<<q, e>>]
  BY PairFields DEF IInv, TypeOK
<1>2. TypeOK'
  <2>1. work' \in [Pairs -> Phases]
    BY DEF IInv, TypeOK
  <2> QED
    BY <2>1, LedgerStepKeeps DEF IInv, TypeOK, Ledgers
<1>3. ASSUME NEW e \in Devices PROVE Loops(e)' \subseteq Loops(e)
  <2>1. ASSUME NEW q \in Operations, work'[<<q, e>>] \in Looping
        PROVE  work[<<q, e>>] \in Looping
    <3>1. CASE q = o /\ e = d
      <4>1. to \in Looping
        BY <1>1, <2>1, <3>1
      <4> QED
        BY <3>1, <4>1
    <3>2. CASE ~(q = o /\ e = d)
      BY <1>1, <2>1, <3>2
    <3> QED
      BY <3>1, <3>2
  <2> QED
    BY <2>1 DEF Loops
<1>4. WorkersInv'
  <2> SUFFICES ASSUME NEW q \in Operations, NEW e \in Devices
               PROVE  WorkerInv(q, e)'
    BY DEF WorkersInv
  <2>1. WorkerInv(q, e) /\ WorkerInv(o, d) /\ ReachedBy(hub)
    BY DEF IInv, WorkersInv, LedgersInv
  <2>2. CASE q = o /\ e = d
    <3>1. work'[<<o, d>>] = to
      BY <1>1
    <3>2. CASE to = "none"
      BY <2>2, <3>1, <3>2 DEF WorkerInv, LoopPhases, Looping
    <3>3. CASE to # "none"
      <4>1. /\ o \in ConfirmedOf(hub)' /\ StateOf(hub', o, d) \in Past
            /\ hub'[o].action = hub[o].action /\ hub'[o].confirmed = hub[o].confirmed
        BY <2>1, LedgerStepKeeps DEF WorkerInv
      <4>2. to \in LoopPhases => cancel'[d] # NoControl /\ cancel'[d].operation = o
        BY <2>1, <3>3 DEF WorkerInv
      <4>3. to \in LoopPhases <=> hub'[o].action = "start_windows"
        BY <2>1, <3>3, <4>1 DEF WorkerInv
      <4>4. to \in Looping =>
               \A z \in reached'[d] : hub'[z].confirmed <= started'[<<o, d>>]
        <5>1. to \in Looping => o \in Loops(d)
          BY DEF Loops
        <5>2. \A z \in reached[d] : hub'[z].confirmed = hub[z].confirmed
          BY <2>1, LedgerStepKeeps DEF ReachedBy
        <5> QED
          BY <2>1, <5>1, <5>2 DEF WorkerInv
      <4>5. to \in {"gate", "calling"} /\ hub'[o].action \in Ends => Loops(d)' = {}
        BY <1>3, <4>1
      <4> QED
        BY <2>2, <3>1, <4>1, <4>2, <4>3, <4>4, <4>5 DEF WorkerInv
    <3> QED
      BY <3>2, <3>3
  <2>3. CASE ~(q = o /\ e = d)
    <3>1. work'[<<q, e>>] = work[<<q, e>>]
      BY <1>1, <2>3
    <3>2. work[<<q, e>>] \in LoopPhases /\ work[<<o, d>>] \in LoopPhases => e # d
      BY <2>1, <2>3 DEF WorkerInv
    <3>3. work[<<q, e>>] \in Looping => q \in Loops(e)
      BY DEF Loops
    <3>4. work[<<q, e>>] \in LoopPhases =>
             \/ cancel'[e] = cancel[e]
             \/ cancel'[e] # NoControl /\ cancel'[e].operation = cancel[e].operation
      BY <3>2
    <3>5. work[<<q, e>>] \in Looping =>
             reached'[e] = reached[e] /\ failures'[e] = failures[e]
      BY <3>2, <3>3 DEF LoopPhases
    <3> QED
      BY <1>3, <2>1, <3>1, <3>4, <3>5, WorkerKept
  <2> QED
    BY <2>2, <2>3
<1>5. DownInv'
  BY DEF DownInv
<1> QED
  BY <1>2, <1>4, <1>5 DEF IInv

\* A worker moves on and what is due and the ends that were there stay.
LEMMA PlainMove ==
    ASSUME IInv, up, LedgerStep, NEW o \in Operations, NEW d \in Devices,
           NEW to \in Phases, work[<<o, d>>] # "none",
           work' = [work EXCEPT ![<<o, d>>] = to],
           to # "none" => (to \in LoopPhases <=> work[<<o, d>>] \in LoopPhases),
           to \in Looping => work[<<o, d>>] \in Looping /\ failures'[d] < FailureLimit,
           to \in {"gate", "calling"} /\ hub[o].action \in Ends => Loops(d) = {},
           \A e \in Devices :
              \/ cancel'[e] = cancel[e]
              \/ cancel'[e] # NoControl /\ cancel'[e].operation = cancel[e].operation
              \/ e = d /\ work[<<o, d>>] \in LoopPhases /\ to = "none",
           \A e \in Devices :
              failures'[e] = failures[e] \/ (e = d /\ work[<<o, d>>] \in Looping),
           failures' \in [Devices -> 0..FailureLimit],
           cancel' \in [Devices -> [operation : Operations, cancelled : BOOLEAN] \cup {NoControl}],
           UNCHANGED <<up, now, lapsed, asked, due, started, reached>>
    PROVE  IInv'
<1>2. DueInv'
  BY DueKept
<1>3. LedgersInv'
  BY LedgersKept
<1> QED
  BY <1>2, <1>3, MoveStep DEF IInv, TypeOK

\* What a worker commits.
LEMMA CommitFailureStep ==
    ASSUME IInv, NEW o \in Operations, NEW d \in Devices, work[<<o, d>>] # "none",
           NEW outcome, CommitFailure(o, d, outcome), UNCHANGED <<now, started>>
    PROVE  LedgerStep
<1>1. Good(hub) /\ StateOf(hub, o, d) \in Past
  BY DEF IInv, LedgersInv, WorkersInv, WorkerInv
<1>2. Keeps(hub, Failed(hub, o, d)) /\ ~Starts(hub, Failed(hub, o, d))
  BY <1>1, FailedKeeps
<1> QED
  BY <1>2, QuietPersist DEF CommitFailure

\* A receipt, applied or refused.
LEMMA CommitReceiptStep ==
    ASSUME IInv, NEW o \in Operations, NEW d \in Devices, work[<<o, d>>] # "none",
           NEW r \in Readbacks, NEW claim \in BOOLEAN, Coherent(hub[o].action, r, claim),
           NEW outcome, CommitReceipt(o, d, r, claim, outcome), UNCHANGED <<now, started>>
    PROVE  LedgerStep
<1>1. Good(hub) /\ StateOf(hub, o, d) \in Past
  BY DEF IInv, LedgersInv, WorkersInv, WorkerInv
<1>2. CASE Applies(hub, o, d)
  <2>1. StateOf(hub, o, d) \in Live
    BY <1>2 DEF Applies, Live
  <2>2. /\ Keeps(hub, Applied(hub, o, d, r, claim))
        /\ ~Starts(hub, Applied(hub, o, d, r, claim))
    BY <1>1, <2>1, AppliedKeeps
  <2> QED
    BY <1>2, <2>2, QuietPersist DEF CommitReceipt
<1>3. CASE ~Applies(hub, o, d)
  BY <1>3, SameLedgers DEF CommitReceipt
<1> QED
  BY <1>2, <1>3

\* A worker that begins and tells the watchdog of its headset to end.
LEMMA BeginStep ==
    ASSUME IInv, NEW o \in Operations, NEW d \in Devices, Begin(o, d)
    PROVE  IInv'
<1> DEFINE stops == hub[o].action \in Ends /\ cancel[d] # NoControl
           to == IF stops THEN "stopping" ELSE "gate"
<1>1. /\ up /\ work[<<o, d>>] = "begin" /\ work' = [work EXCEPT ![<<o, d>>] = to]
      /\ cancel' = IF stops THEN [cancel EXCEPT ![d].cancelled = TRUE] ELSE cancel
      /\ UNCHANGED <<up, now, lapsed, asked, due, hub, disk, failures, started, reached>>
  BY DEF Begin, Move, history
<1>2. LedgerStep
  BY <1>1, SameLedgers
<1>3. /\ cancel \in [Devices -> [operation : Operations, cancelled : BOOLEAN] \cup {NoControl}]
      /\ failures \in [Devices -> 0..FailureLimit]
  BY DEF IInv, TypeOK
<1>4. /\ cancel' \in [Devices -> [operation : Operations, cancelled : BOOLEAN] \cup {NoControl}]
      /\ \A e \in Devices :
            \/ cancel'[e] = cancel[e]
            \/ cancel'[e] # NoControl /\ cancel'[e].operation = cancel[e].operation
  <2>1. CASE stops
    <3> DEFINE x == [cancel[d] EXCEPT !.cancelled = TRUE]
    <3>1. cancel[d] \in [operation : Operations, cancelled : BOOLEAN]
      BY <1>3, <2>1
    <3>2. /\ x \in [operation : Operations, cancelled : BOOLEAN]
          /\ x.operation = cancel[d].operation /\ x # NoControl
      BY <3>1 DEF NoControl
    <3>3. cancel' = [cancel EXCEPT ![d] = x]
      BY <1>1, <2>1
    <3> HIDE DEF x
    <3> QED
      BY <1>3, <3>2, <3>3
  <2>2. CASE ~stops
    BY <1>1, <1>3, <2>2
  <2> QED
    BY <2>1, <2>2
<1>5. to \in {"stopping", "gate"} /\ (to = "gate" => ~stops)
  OBVIOUS
<1> HIDE DEF to
<1>6. to \in {"gate", "calling"} /\ hub[o].action \in Ends => Loops(d) = {}
  <2> SUFFICES ASSUME cancel[d] = NoControl, NEW q \in Loops(d)
               PROVE  FALSE
    BY <1>5
  <2>1. q \in Operations /\ work[<<q, d>>] \in LoopPhases
    BY DEF Loops, LoopPhases
  <2> QED
    BY <2>1 DEF IInv, WorkersInv, WorkerInv
<1>7. to \in Phases /\ to \notin LoopPhases /\ work[<<o, d>>] \notin LoopPhases
  BY <1>1, <1>5 DEF Phases, LoopPhases, Looping, Calling
<1> QED
  BY <1>1, <1>2, <1>3, <1>4, <1>6, <1>7, PlainMove DEF LoopPhases

\* The watchdog has ended.
LEMMA StoppedStep ==
    ASSUME IInv, NEW o \in Operations, NEW d \in Devices, Stopped(o, d)
    PROVE  IInv'
<1>1. /\ up /\ work[<<o, d>>] = "stopping" /\ work' = [work EXCEPT ![<<o, d>>] = "gate"]
      /\ Loops(d) = {}
      /\ UNCHANGED <<up, now, lapsed, asked, due, hub, disk, failures, cancel, started, reached>>
  BY DEF Stopped, Move, history
<1>2. LedgerStep
  BY <1>1, SameLedgers
<1> QED
  BY <1>1, <1>2, PlainMove DEF IInv, TypeOK, Phases, LoopPhases, Looping, Calling

\* It has not, or the call fails: the failure is committed.
LEMMA StopGivesUpStep ==
    ASSUME IInv, NEW o \in Operations, NEW d \in Devices, NEW outcome,
           StopGivesUp(o, d, outcome)
    PROVE  IInv'
<1>1. /\ up /\ work[<<o, d>>] = "stopping" /\ work' = [work EXCEPT ![<<o, d>>] = "ended"]
      /\ CommitFailure(o, d, outcome)
      /\ UNCHANGED <<up, now, lapsed, asked, due, failures, cancel, started, reached>>
  BY DEF StopGivesUp, Move, history
<1>2. LedgerStep
  BY <1>1, CommitFailureStep
<1> QED
  BY <1>1, <1>2, PlainMove DEF IInv, TypeOK, Phases, LoopPhases, Looping, Calling

\* The call fails.
LEMMA CallFailsStep ==
    ASSUME IInv, NEW o \in Operations, NEW d \in Devices, NEW outcome,
           CallFails(o, d, outcome)
    PROVE  IInv'
<1>1. /\ up /\ work[<<o, d>>] = "calling" /\ work' = [work EXCEPT ![<<o, d>>] = "ended"]
      /\ CommitFailure(o, d, outcome)
      /\ UNCHANGED <<up, now, lapsed, asked, due, failures, cancel, started, reached>>
  BY DEF CallFails, Move, history
<1>2. LedgerStep
  BY <1>1, CommitFailureStep
<1> QED
  BY <1>1, <1>2, PlainMove DEF IInv, TypeOK, Phases, LoopPhases, Looping, Calling

\* The provider answers, and its claim is held against its readback.
LEMMA AnsweredStep ==
    ASSUME IInv, NEW o \in Operations, NEW d \in Devices, NEW r \in Readbacks,
           NEW claim \in BOOLEAN, NEW outcome, Answered(o, d, r, claim, outcome)
    PROVE  IInv'
<1>1. /\ up /\ work[<<o, d>>] = "calling" /\ work' = [work EXCEPT ![<<o, d>>] = "ended"]
      /\ UNCHANGED <<up, now, lapsed, asked, due, failures, cancel, started, reached>>
  BY DEF Answered, Move, history
<1>2. LedgerStep
  BY <1>1, CommitFailureStep, CommitReceiptStep DEF Answered
<1> QED
  BY <1>1, <1>2, PlainMove DEF IInv, TypeOK, Phases, LoopPhases, Looping, Calling

\* The call: an end has reached the headset, and nothing repairs it.
LEMMA CallStep ==
    ASSUME IInv, NEW o \in Operations, NEW d \in Devices, Call(o, d)
    PROVE  IInv'
<1>1. /\ up /\ work[<<o, d>>] = "gate" /\ work' = [work EXCEPT ![<<o, d>>] = "calling"]
      /\ reached' = [reached EXCEPT ![d] =
                        IF hub[o].action \in Ends THEN @ \cup {o} ELSE @]
      /\ UNCHANGED <<up, now, lapsed, asked, due, hub, disk, failures, cancel, started>>
  BY DEF Call, Move
<1>2. LedgerStep
  BY <1>1, SameLedgers
<1>3. /\ o \in ConfirmedOf(hub) /\ StateOf(hub, o, d) \in Past
      /\ hub[o].action \in Ends => Loops(d) = {}
  BY <1>1 DEF IInv, WorkersInv, WorkerInv
<1>4. /\ reached' \in [Devices -> SUBSET Operations]
      /\ \A e \in Devices : e # d => reached'[e] = reached[e]
      /\ hub[o].action \in Ends => reached'[d] = reached[d] \cup {o}
      /\ hub[o].action \notin Ends => reached'[d] = reached[d]
  BY <1>1 DEF IInv, TypeOK
<1>5. ReachedBy(hub)'
  <2> SUFFICES ASSUME NEW e \in Devices, NEW q \in reached'[e]
               PROVE  q \in ConfirmedOf(hub) /\ hub[q].action \in Ends /\ StateOf(hub, q, e) \in Past
    BY <1>1 DEF ReachedBy
  <2>1. CASE q \in reached[e]
    BY <2>1 DEF IInv, LedgersInv, ReachedBy
  <2>2. CASE q \notin reached[e]
    <3>1. e = d /\ q = o /\ hub[o].action \in Ends
      BY <1>4, <2>2
    <3> QED
      BY <1>3, <3>1
  <2> QED
    BY <2>1, <2>2
<1>6. LedgersInv'
  BY <1>1, <1>5 DEF IInv, LedgersInv
<1>7. DueInv'
  BY <1>1, <1>2, DueKept
<1>8. \A e \in Devices : reached'[e] = reached[e] \/ Loops(e) = {}
  BY <1>3, <1>4
<1>9. /\ due' \in [Operations -> Nat] /\ failures' \in [Devices -> 0..FailureLimit]
      /\ cancel' \in [Devices -> [operation : Operations, cancelled : BOOLEAN] \cup {NoControl}]
  BY <1>1 DEF IInv, TypeOK
<1>10. "calling" \in Phases /\ "calling" \notin LoopPhases /\ "gate" \notin LoopPhases
       /\ "calling" \notin Looping
  BY DEF Phases, LoopPhases, Looping, Calling
<1> QED
  BY <1>1, <1>2, <1>3, <1>4, <1>6, <1>7, <1>8, <1>9, <1>10, MoveStep

\* A worker that has ended has its operation scheduled again.
LEMMA FinishStep ==
    ASSUME IInv, NEW o \in Operations, NEW d \in Devices, Finish(o, d)
    PROVE  IInv'
<1>1. /\ up /\ work[<<o, d>>] = "ended" /\ work' = [work EXCEPT ![<<o, d>>] = "none"]
      /\ due' = [due EXCEPT ![o] = @ + 1]
      /\ UNCHANGED <<up, now, lapsed, asked, hub, disk, failures, cancel, started, reached>>
  BY DEF Finish, history
<1>2. LedgerStep
  BY <1>1, SameLedgers
<1>3. due' \in [Operations -> Nat] /\ \A q \in Operations : q # o => due'[q] = due[q]
  BY <1>1 DEF IInv, TypeOK
<1>4. o \in ConfirmedOf(hub)
  BY <1>1 DEF IInv, WorkersInv, WorkerInv
<1>5. DueInv'
  BY <1>2, <1>3, <1>4, DueKept
<1>6. LedgersInv'
  BY <1>1, <1>2, LedgersKept
<1> QED
  BY <1>1, <1>2, <1>3, <1>5, <1>6, MoveStep
     DEF IInv, TypeOK, Phases, LoopPhases, Looping, Calling

-----------------------------------------------------------------------------
(* The watchdog.                                                             *)

\* The watchdog is told to end.
LEMMA LoopSeesCancelStep ==
    ASSUME IInv, NEW o \in Operations, NEW d \in Devices, LoopSeesCancel(o, d)
    PROVE  IInv'
<1>1. /\ up /\ work[<<o, d>>] \in {"top", "loop_gate"}
      /\ work' = [work EXCEPT ![<<o, d>>] = "over"]
      /\ UNCHANGED <<up, now, lapsed, asked, due, hub, disk, failures, cancel, started, reached>>
  BY DEF LoopSeesCancel, Move, history
<1>2. LedgerStep
  BY <1>1, SameLedgers
<1> QED
  BY <1>1, <1>2, PlainMove DEF IInv, TypeOK, Phases, LoopPhases, Looping, Calling

\* It goes on to the gate.
LEMMA LoopRenewsStep ==
    ASSUME IInv, NEW o \in Operations, NEW d \in Devices, LoopRenews(o, d)
    PROVE  IInv'
<1>1. /\ up /\ work[<<o, d>>] = "top" /\ work' = [work EXCEPT ![<<o, d>>] = "loop_gate"]
      /\ UNCHANGED <<up, now, lapsed, asked, due, hub, disk, failures, cancel, started, reached>>
  BY DEF LoopRenews, Move, history
<1>2. LedgerStep
  BY <1>1, SameLedgers
<1>3. failures[d] < FailureLimit
  BY <1>1 DEF IInv, WorkersInv, WorkerInv, Looping
<1> QED
  BY <1>1, <1>2, <1>3, PlainMove DEF IInv, TypeOK, Phases, LoopPhases, Looping, Calling

\* Its authorization is not renewed, and it ends.
LEMMA RenewalFailsStep ==
    ASSUME IInv, NEW o \in Operations, NEW d \in Devices, NEW outcome,
           RenewalFails(o, d, outcome)
    PROVE  IInv'
<1>1. /\ up /\ work[<<o, d>>] = "top" /\ work' = [work EXCEPT ![<<o, d>>] = "over"]
      /\ CommitFailure(o, d, outcome)
      /\ UNCHANGED <<up, now, lapsed, asked, due, failures, cancel, started, reached>>
  BY DEF RenewalFails, Move, history
<1>2. LedgerStep
  BY <1>1, CommitFailureStep
<1> QED
  BY <1>1, <1>2, PlainMove DEF IInv, TypeOK, Phases, LoopPhases, Looping, Calling

\* It passes the gate.
LEMMA RepairStep ==
    ASSUME IInv, NEW o \in Operations, NEW d \in Devices, Repair(o, d)
    PROVE  IInv'
<1>1. /\ up /\ work[<<o, d>>] = "loop_gate"
      /\ work' = [work EXCEPT ![<<o, d>>] = "repairing"]
      /\ UNCHANGED <<up, now, lapsed, asked, due, hub, disk, failures, cancel, started, reached>>
  BY DEF Repair, Move, history
<1>2. LedgerStep
  BY <1>1, SameLedgers
<1>3. failures[d] < FailureLimit
  BY <1>1 DEF IInv, WorkersInv, WorkerInv, Looping
<1> QED
  BY <1>1, <1>2, <1>3, PlainMove DEF IInv, TypeOK, Phases, LoopPhases, Looping, Calling

\* A repair that worked: its failures are forgotten.
LEMMA RepairedStep ==
    ASSUME IInv, NEW o \in Operations, NEW d \in Devices, NEW r \in Readbacks,
           NEW claim \in BOOLEAN, NEW outcome, Repaired(o, d, r, claim, outcome)
    PROVE  IInv'
<1>1. /\ up /\ work[<<o, d>>] = "repairing" /\ work' = [work EXCEPT ![<<o, d>>] = "top"]
      /\ failures' = [failures EXCEPT ![d] = 0]
      /\ Coherent("start_windows", r, claim)
      /\ CommitReceipt(o, d, r, claim, outcome)
      /\ UNCHANGED <<up, now, lapsed, asked, due, cancel, started, reached>>
  BY DEF Repaired, Move, history
<1>2. hub[o].action = "start_windows"
  BY <1>1 DEF IInv, WorkersInv, WorkerInv, LoopPhases, Looping
<1>3. LedgerStep
  BY <1>1, <1>2, CommitReceiptStep
<1>4. /\ failures' \in [Devices -> 0..FailureLimit] /\ failures'[d] < FailureLimit
      /\ \A e \in Devices : e # d => failures'[e] = failures[e]
  BY <1>1, LimitsAssumption DEF IInv, TypeOK
<1> QED
  BY <1>1, <1>3, <1>4, PlainMove DEF IInv, TypeOK, Phases, LoopPhases, Looping, Calling

\* A repair that did not: the last one ends it.
LEMMA RepairFailsStep ==
    ASSUME IInv, NEW o \in Operations, NEW d \in Devices, NEW outcome,
           RepairFails(o, d, outcome)
    PROVE  IInv'
<1> DEFINE n == failures[d] + 1
           to == IF n >= FailureLimit THEN "over" ELSE "top"
<1>1. /\ up /\ work[<<o, d>>] = "repairing" /\ work' = [work EXCEPT ![<<o, d>>] = to]
      /\ failures' = [failures EXCEPT ![d] = n]
      /\ CommitFailure(o, d, outcome) \/ UNCHANGED <<hub, disk>>
      /\ UNCHANGED <<up, now, lapsed, asked, due, cancel, started, reached>>
  BY DEF RepairFails, Move, history
<1>2. LedgerStep
  BY <1>1, CommitFailureStep, SameLedgers
<1>3. failures[d] \in Nat /\ failures[d] < FailureLimit /\ FailureLimit \in Nat
  BY <1>1, LimitsAssumption DEF IInv, TypeOK, WorkersInv, WorkerInv, Looping
<1>4. /\ failures' \in [Devices -> 0..FailureLimit] /\ failures'[d] = n
      /\ \A e \in Devices : e # d => failures'[e] = failures[e]
  BY <1>1, <1>3 DEF IInv, TypeOK
<1>5. to \in {"over", "top"} /\ (to = "top" => failures'[d] < FailureLimit)
  BY <1>3, <1>4
<1> HIDE DEF to
<1> QED
  BY <1>1, <1>2, <1>4, <1>5, PlainMove
     DEF IInv, TypeOK, Phases, LoopPhases, Looping, Calling

\* The watchdog is gone, and so is its control.
LEMMA LoopEndsStep ==
    ASSUME IInv, NEW o \in Operations, NEW d \in Devices, LoopEnds(o, d)
    PROVE  IInv'
<1>1. /\ up /\ work[<<o, d>>] = "over" /\ work' = [work EXCEPT ![<<o, d>>] = "none"]
      /\ cancel' = IF cancel[d].operation = o THEN [cancel EXCEPT ![d] = NoControl] ELSE cancel
      /\ UNCHANGED <<up, now, lapsed, asked, due, hub, disk, failures, started, reached>>
  BY DEF LoopEnds, Move, history
<1>2. LedgerStep
  BY <1>1, SameLedgers
<1>3. cancel \in [Devices -> [operation : Operations, cancelled : BOOLEAN] \cup {NoControl}]
  BY DEF IInv, TypeOK
<1>4. /\ cancel' \in [Devices -> [operation : Operations, cancelled : BOOLEAN] \cup {NoControl}]
      /\ \A e \in Devices : e # d => cancel'[e] = cancel[e]
  BY <1>1, <1>3
<1>5. failures \in [Devices -> 0..FailureLimit]
  BY DEF IInv, TypeOK
<1> QED
  BY <1>1, <1>2, <1>4, <1>5, PlainMove DEF Phases, LoopPhases, Looping, Calling

-----------------------------------------------------------------------------
(* The handlers and the scheduler.                                           *)

\* A preview confirms and starts nothing.
LEMMA PreviewStep ==
    ASSUME IInv, NEW o \in Operations, NEW a \in Actions, NEW ds, NEW outcome,
           Preview(o, a, ds, outcome)
    PROVE  IInv'
<1>1. /\ ~Known(hub, o) /\ Persist(Previewed(hub, o, a, ds), outcome)
      /\ UNCHANGED <<up, now, lapsed, asked, due, work, failures, cancel, started, reached>>
  BY DEF Preview, runtime, history
<1>2. Keeps(hub, Previewed(hub, o, a, ds)) /\ ~Starts(hub, Previewed(hub, o, a, ds))
  BY <1>1, PreviewedKeeps DEF IInv, LedgersInv
<1>3. LedgerStep
  BY <1>1, <1>2, QuietPersist
<1> QED
  BY <1>1, <1>3, QuietStep DEF IInv, TypeOK

\* A handler reads the clock.
LEMMA AskStep ==
    ASSUME IInv, NEW o \in Operations, Ask(o)
    PROVE  IInv'
<1>1. /\ asked' = [asked EXCEPT ![o] = @ \cup {now}]
      /\ UNCHANGED <<up, now, hub, disk, lapsed, due, work, failures, cancel, started, reached>>
  BY DEF Ask, runtime, history
<1>2. LedgerStep
  BY <1>1, SameLedgers
<1>3. now \in Nat \ {0} /\ asked \in [Operations -> SUBSET (1..now)]
  BY DEF IInv, TypeOK
<1>4. asked[o] \cup {now} \in SUBSET (1..now)
  BY <1>3
<1>5. asked' \in [Operations -> SUBSET (1..now')]
  BY <1>1, <1>3, <1>4
<1> QED
  BY <1>1, <1>2, <1>3, <1>5, QuietStep DEF IInv, TypeOK

\* A confirmation starts nothing either, and its time is past.
LEMMA ExecuteStep ==
    ASSUME IInv, NEW o \in Operations, NEW t \in 1..now, NEW outcome, Execute(o, t, outcome)
    PROVE  IInv'
<1> DEFINE c == Confirmed(hub, o, t)
<1>1. /\ up /\ Known(hub, o) /\ hub[o].confirmed = 0
      /\ Persist(c, outcome)
      /\ asked' = [asked EXCEPT ![o] = IF outcome = "done" THEN {} ELSE @ \ {t}]
      /\ due' = IF outcome = "done" THEN [due EXCEPT ![o] = @ + 1] ELSE due
      /\ UNCHANGED <<up, now, lapsed, work, failures, cancel, started, reached>>
  BY DEF Execute, history
<1>2. /\ Good(hub) /\ Good(disk) /\ Follows(hub, disk) /\ ReachedBy(hub)
      /\ Dated(hub, now, started) /\ Dated(disk, now, started)
  BY DEF IInv, LedgersInv
<1>3. now \in Nat \ {0} /\ t \in Nat \ {0} /\ t <= now
  BY DEF IInv, TypeOK
<1>4. /\ Good(c) /\ Follows(hub, c)
      /\ ConfirmedOf(c) = ConfirmedOf(hub) \cup {o}
      /\ c[o].confirmed = t
      /\ \A q \in ConfirmedOf(hub) : q # o /\ c[q] = hub[q]
      /\ \A q \in ConfirmedOf(hub), d \in Devices : StateOf(c, q, d) = StateOf(hub, q, d)
      /\ \A d \in Devices : StateOf(c, o, d) \notin Past
  BY <1>1, <1>2, <1>3, ConfirmedGood
<1> HIDE DEF c
<1>5. Dated(c, now, started)
  <2>1. \A d \in Devices : StateOf(c, o, d) \notin Live
    BY <1>4 DEF Past, Live
  <2> QED
    BY <1>2, <1>3, <1>4, <2>1 DEF Dated
<1>6. asked' \in [Operations -> SUBSET (1..now)]
  BY <1>1 DEF IInv, TypeOK
<1>7. CASE outcome # "done"
  <2>1. hub' = hub /\ disk' \in {disk, c}
    BY <1>1, <1>7 DEF Persist
  <2>2. LedgerStep
    BY <1>1, <1>2, <1>4, <1>5, <2>1, KeepsItself DEF LedgerStep
  <2> QED
    BY <1>1, <1>3, <1>6, <1>7, <2>2, QuietStep DEF IInv, TypeOK
<1>8. CASE outcome = "done"
  <2>1. hub' = c /\ disk' = c /\ due' = [due EXCEPT ![o] = @ + 1]
    BY <1>1, <1>8 DEF Persist
  <2>2. ReachedBy(c)
    BY <1>2, <1>4 DEF ReachedBy
  <2>3. LedgersInv'
    BY <1>1, <1>4, <1>5, <2>1, <2>2, KeepsItself DEF LedgersInv, ReachedBy
  <2>4. due' \in [Operations -> Nat] /\ \A q \in Operations : q # o => due'[q] = due[q]
    BY <2>1 DEF IInv, TypeOK
  <2>5. TypeOK'
    BY <1>1, <1>4, <1>6, <2>1, <2>4 DEF IInv, TypeOK, Good, Ledgers
  <2>6. WorkersInv'
    <3> SUFFICES ASSUME NEW q \in Operations, NEW d \in Devices
                 PROVE  WorkerInv(q, d)'
      BY DEF WorkersInv
    <3>1. WorkerInv(q, d)
      BY DEF IInv, WorkersInv
    <3>2. Loops(d)' = Loops(d)
      BY <1>1 DEF Loops
    <3>3. CASE work[<<q, d>>] = "none"
      BY <1>1, <3>3 DEF WorkerInv, LoopPhases, Looping
    <3>4. CASE work[<<q, d>>] # "none"
      <4>1. q \in ConfirmedOf(hub)
        BY <3>1, <3>4 DEF WorkerInv
      <4>2. /\ q \in ConfirmedOf(c) /\ c[q] = hub[q]
            /\ StateOf(c, q, d) = StateOf(hub, q, d)
        BY <1>4, <4>1
      <4>3. \A z \in reached[d] : c[z] = hub[z]
        BY <1>2, <1>4 DEF ReachedBy
      <4> QED
        BY <1>1, <2>1, <3>1, <3>2, <4>2, <4>3 DEF WorkerInv
    <3> QED
      BY <3>3, <3>4
  <2>7. DueInv'
    BY <1>4, <2>1, <2>4 DEF IInv, DueInv
  <2>8. DownInv'
    BY <1>1 DEF DownInv
  <2> QED
    BY <2>3, <2>5, <2>6, <2>7, <2>8 DEF IInv
<1> QED
  BY <1>7, <1>8

\* What the scheduler makes of the targets it has chosen.
Scheduled(o, failed, ds) == Marked(Marked(hub, o, failed, "failed"), o, ds, "dispatched")

\* The targets that are refused fail and the others are dispatched.
LEMMA ScheduledKeeps ==
    ASSUME IInv, NEW o \in ConfirmedOf(hub), NEW failed, NEW ds,
           \A d \in Devices : d \in failed \cup ds => StateOf(hub, o, d) # "untargeted"
    PROVE  /\ Keeps(hub, Scheduled(o, failed, ds))
           /\ \A d \in Devices :
                 d \in ds => StateOf(Scheduled(o, failed, ds), o, d) = "dispatched"
           /\ \A q \in Operations, d \in Devices :
                 StateOf(Scheduled(o, failed, ds), q, d) \in Live =>
                    StateOf(hub, q, d) \in Live \/ (q = o /\ d \in ds)
<1> DEFINE h == Marked(hub, o, failed, "failed")
           c == Marked(h, o, ds, "dispatched")
<1>1. Good(hub)
  BY DEF IInv, LedgersInv
<1>2. /\ Keeps(hub, h)
      /\ \A d \in Devices :
            StateOf(h, o, d) = IF d \in failed THEN "failed" ELSE StateOf(hub, o, d)
      /\ \A q \in Operations, d \in Devices : q # o => StateOf(h, q, d) = StateOf(hub, q, d)
  BY <1>1, MarkedKeeps
<1> HIDE DEF h
<1>3. Good(h) /\ o \in ConfirmedOf(h)
  BY <1>2 DEF Keeps
<1>4. \A d \in Devices : d \in ds => StateOf(h, o, d) # "untargeted"
  BY <1>2
<1>5. /\ Keeps(h, c)
      /\ \A d \in Devices :
            StateOf(c, o, d) = IF d \in ds THEN "dispatched" ELSE StateOf(h, o, d)
      /\ \A q \in Operations, d \in Devices : q # o => StateOf(c, q, d) = StateOf(h, q, d)
  BY <1>3, <1>4, MarkedKeeps
<1> HIDE DEF c
<1>6. Keeps(hub, c)
  BY <1>2, <1>5, KeepsOn
<1>7. \A q \in Operations, d \in Devices :
          StateOf(c, q, d) \in Live => StateOf(hub, q, d) \in Live \/ (q = o /\ d \in ds)
  BY <1>2, <1>5 DEF Live
<1> QED
  BY <1>5, <1>6, <1>7 DEF Scheduled, c, h

\* The workers that the scheduler starts: a start is alone with its headset.
LEMMA StartWorkStep ==
    ASSUME IInv, LedgerStep, NEW o \in ConfirmedOf(hub), NEW ds \in SUBSET Pending(o),
           \A d \in ds : ~Conflict(o, d),
           \A d \in ds : StateOf(hub', o, d) \in Past,
           StartWork(o, ds, "done"), reached' = reached,
           \A q \in Operations, d \in Devices :
              ~(q = o /\ d \in ds) => started'[<<q, d>>] = started[<<q, d>>],
           hub[o].action = "start_windows" => \A d \in ds : started'[<<o, d>>] = now
    PROVE  /\ WorkersInv'
           /\ work' \in [Pairs -> Phases]
           /\ failures' \in [Devices -> 0..FailureLimit]
           /\ cancel' \in [Devices -> [operation : Operations, cancelled : BOOLEAN] \cup {NoControl}]
<1> DEFINE starts == hub[o].action = "start_windows"
           first == IF starts THEN "top" ELSE "begin"
           control == [operation |-> o, cancelled |-> FALSE]
<1>1. /\ work' = [p \in Pairs |-> IF p[1] = o /\ p[2] \in ds THEN first ELSE work[p]]
      /\ cancel' = [d \in Devices |-> IF d \in ds /\ starts THEN control ELSE cancel[d]]
      /\ failures' = [d \in Devices |-> IF d \in ds /\ starts THEN 0 ELSE failures[d]]
  BY DEF StartWork
<1>2. o \in Operations
  BY DEF ConfirmedOf
<1>3. ReachedBy(hub) /\ Dated(hub, now, started)
  BY DEF IInv, LedgersInv
<1>4. ds \subseteq Devices
  BY DEF Pending
<1>5. first \in {"top", "begin"} /\ (first = "top" <=> starts)
  OBVIOUS
<1>6. control \in [operation : Operations, cancelled : BOOLEAN] /\ control.operation = o
      /\ control # NoControl
  BY <1>2, NoOperationAssumption DEF NoControl
<1> HIDE DEF first, control
<1>7. \A q \in Operations, d \in Devices :
          work'[<<q, d>>] = IF q = o /\ d \in ds THEN first ELSE work[<<q, d>>]
  BY <1>1, PairFields
<1>8. \A d \in Devices :
          /\ cancel'[d] = IF d \in ds /\ starts THEN control ELSE cancel[d]
          /\ failures'[d] = IF d \in ds /\ starts THEN 0 ELSE failures[d]
  BY <1>1
<1>9. ASSUME NEW d \in ds, starts
      PROVE  \A q \in Operations : work[<<q, d>>] = "none"
  <2>1. InFlight(d) = {}
    BY <1>9 DEF Conflict, Ends
  <2> QED
    BY <2>1 DEF InFlight
<1>10. WorkersInv'
  <2> SUFFICES ASSUME NEW q \in Operations, NEW d \in Devices
               PROVE  WorkerInv(q, d)'
    BY DEF WorkersInv
  <2>1. WorkerInv(q, d)
    BY DEF IInv, WorkersInv
  <2>2. CASE q = o /\ d \in ds
    <3>1. work'[<<o, d>>] = first
      BY <1>7, <2>2
    <3>2. /\ o \in ConfirmedOf(hub)' /\ StateOf(hub', o, d) \in Past
          /\ hub'[o].action = hub[o].action /\ hub'[o].confirmed = hub[o].confirmed
      BY <2>2, LedgerStepKeeps
    <3>3. CASE starts
      <4>1. cancel'[d] = control /\ failures'[d] = 0 /\ work'[<<o, d>>] = "top"
        BY <1>5, <1>8, <2>2, <3>1, <3>3
      <4>2. failures'[d] < FailureLimit
        BY <4>1, LimitsAssumption
      <4>3. \A z \in reached'[d] : hub'[z].confirmed <= started'[<<o, d>>]
        <5>1. \A z \in reached[d] : z \in ConfirmedOf(hub) /\ hub[z].confirmed <= now
          BY <1>3 DEF ReachedBy, Dated
        <5>2. started'[<<o, d>>] = now
          BY <2>2, <3>3
        <5> QED
          BY <5>1, <5>2, LedgerStepKeeps
      <4> QED
        BY <1>6, <2>2, <3>2, <3>3, <4>1, <4>2, <4>3 DEF WorkerInv, LoopPhases, Looping
    <3>4. CASE ~starts
      <4>1. work'[<<o, d>>] = "begin"
        BY <1>5, <3>1, <3>4
      <4> QED
        BY <2>2, <3>2, <3>4, <4>1 DEF WorkerInv, LoopPhases, Looping
    <3> QED
      BY <3>3, <3>4
  <2>3. CASE ~(q = o /\ d \in ds)
    <3>1. work'[<<q, d>>] = work[<<q, d>>]
      BY <1>7, <2>3
    <3>2. CASE work[<<q, d>>] = "none"
      BY <3>1, <3>2 DEF WorkerInv, LoopPhases, Looping
    <3>3. CASE work[<<q, d>>] # "none"
      <4>1. ~(d \in ds /\ starts)
        BY <1>9, <3>3
      <4>2. cancel'[d] = cancel[d] /\ failures'[d] = failures[d]
        BY <1>8, <4>1
      <4>3. \A z \in Operations : work'[<<z, d>>] \in {work[<<z, d>>], "begin"}
        BY <1>5, <1>7, <4>1
      <4>4. Loops(d)' \subseteq Loops(d)
        BY <4>3 DEF Loops, Looping
      <4> QED
        BY <1>3, <2>1, <2>3, <3>1, <4>2, <4>4, WorkerKept
    <3> QED
      BY <3>2, <3>3
  <2> QED
    BY <2>2, <2>3
<1>11. work' \in [Pairs -> Phases]
  <2>1. work \in [Pairs -> Phases] /\ first \in Phases
    BY <1>5 DEF IInv, TypeOK, Phases, Looping
  <2> QED
    BY <1>1, <2>1
<1>12. failures' \in [Devices -> 0..FailureLimit]
  <2>1. failures \in [Devices -> 0..FailureLimit] /\ 0 \in 0..FailureLimit
    BY LimitsAssumption DEF IInv, TypeOK
  <2> QED
    BY <1>1, <2>1
<1>13. cancel' \in [Devices -> [operation : Operations, cancelled : BOOLEAN] \cup {NoControl}]
  BY <1>1, <1>6 DEF IInv, TypeOK
<1> QED
  BY <1>10, <1>11, <1>12, <1>13

\* The scheduler starts what it can of an operation that is due.
LEMMA ScheduleStep ==
    ASSUME IInv, NEW o \in Operations, NEW chosen, NEW refused, NEW outcome,
           Schedule(o, chosen, refused, outcome)
    PROVE  IInv'
<1> DEFINE failed == refused \cup {d \in chosen : Conflict(o, d)}
           ds == IF o \in lapsed THEN {} ELSE chosen \ failed
           refusing == [hub EXCEPT ![o].targets = [d \in Devices |->
               IF d \in failed THEN [@[d] EXCEPT !.state = "failed"] ELSE @[d]]]
           candidate == Dispatched(refusing, o, ds)
           dates == hub[o].action = "start_windows" /\ outcome # "failed"
<1>1. /\ up /\ due[o] > 0 /\ due' = [due EXCEPT ![o] = @ - 1]
      /\ chosen \subseteq Pending(o) /\ refused \subseteq chosen
      /\ IF chosen = {} THEN UNCHANGED <<hub, disk, work, cancel, failures>>
         ELSE Persist(candidate, outcome) /\ StartWork(o, ds, outcome)
      /\ started' = [p \in Pairs |-> IF p[1] = o /\ p[2] \in ds /\ dates THEN now ELSE started[p]]
      /\ UNCHANGED <<up, now, lapsed, asked, reached>>
      /\ chosen = {} => ds = {}
  BY DEF Schedule, AuthorityRefuses
<1>2. due' \in [Operations -> Nat] /\ \A q \in Operations : q # o => due'[q] = due[q]
  BY <1>1 DEF IInv, TypeOK
<1>3. o \in ConfirmedOf(hub)
  BY <1>1 DEF IInv, DueInv
<1>4. /\ \A d \in failed \cup ds : d \in Pending(o)
      /\ ds \in SUBSET Pending(o) /\ \A d \in ds : ~Conflict(o, d)
  BY <1>1
<1>5. candidate = Scheduled(o, failed, ds)
  BY DEF Dispatched, Scheduled, Marked
<1> HIDE DEF ds, failed, candidate, dates
<1>6. /\ Keeps(hub, candidate)
      /\ \A d \in Devices : d \in ds => StateOf(candidate, o, d) = "dispatched"
      /\ \A q \in Operations, d \in Devices :
            StateOf(candidate, q, d) \in Live =>
               StateOf(hub, q, d) \in Live \/ (q = o /\ d \in ds)
  <2>1. \A d \in Devices : d \in failed \cup ds => StateOf(hub, o, d) # "untargeted"
    BY <1>4 DEF Pending
  <2> QED
    BY <1>3, <1>5, <2>1, ScheduledKeeps
<1>7. /\ Dated(hub, now, started) /\ Dated(disk, now, started)
      /\ now \in Nat \ {0} /\ started \in [Pairs -> 0..now]
      /\ hub \in Ledgers /\ disk \in Ledgers
  BY DEF IInv, LedgersInv, TypeOK, Good
<1>8. /\ started' \in [Pairs -> 0..now]
      /\ \A q \in Operations, d \in Devices :
            started'[<<q, d>>] = IF q = o /\ d \in ds /\ dates THEN now ELSE started[<<q, d>>]
      /\ \A q \in Operations, d \in Devices :
            started[<<q, d>>] \in 0..now /\ started[<<q, d>>] <= started'[<<q, d>>]
  <2>1. now \in 0..now
    BY <1>7
  <2>2. \A q \in Operations, d \in Devices :
            started'[<<q, d>>] = IF q = o /\ d \in ds /\ dates THEN now ELSE started[<<q, d>>]
    BY <1>1, PairFields
  <2>3. \A q \in Operations, d \in Devices : started[<<q, d>>] \in 0..now
    BY <1>7, PairFields
  <2>4. ASSUME NEW q \in Operations, NEW d \in Devices
        PROVE  started[<<q, d>>] <= started'[<<q, d>>]
    <3>1. started'[<<q, d>>] \in {now, started[<<q, d>>]}
      BY <2>2
    <3>2. started[<<q, d>>] \in Nat /\ started[<<q, d>>] <= now
      BY <1>7, <2>3
    <3> QED
      BY <1>7, <3>1, <3>2
  <2> QED
    BY <1>1, <1>7, <2>1, <2>2, <2>3, <2>4
<1>9. ASSUME NEW h \in Ledgers, Dated(h, now, started)
      PROVE  Dated(h, now', started')
  <2> SUFFICES ASSUME NEW q \in ConfirmedOf(h), NEW d \in Devices,
                      h[q].confirmed <= started[<<q, d>>]
               PROVE  h[q].confirmed <= started'[<<q, d>>]
    BY <1>1, <1>9 DEF Dated
  <2>1. q \in Operations /\ h[q].confirmed \in Nat
    BY KnownFields DEF ConfirmedOf
  <2> QED
    BY <1>7, <1>8, <2>1
<1>10. Dated(hub, now', started') /\ Dated(disk, now', started')
  BY <1>7, <1>9
<1>11. outcome # "failed" => Dated(candidate, now', started')
  <2> SUFFICES ASSUME outcome # "failed", NEW q \in ConfirmedOf(candidate)
               PROVE  /\ candidate[q].confirmed <= now
                      /\ \A d \in Devices :
                            /\ candidate[q].action = "start_windows"
                            /\ StateOf(candidate, q, d) \in Live
                            => candidate[q].confirmed <= started'[<<q, d>>]
    BY <1>1 DEF Dated
  <2>1. /\ q \in ConfirmedOf(hub) /\ q \in Operations
        /\ candidate[q].action = hub[q].action /\ candidate[q].confirmed = hub[q].confirmed
    BY <1>6 DEF Keeps, Follows, ConfirmedOf
  <2>2. hub[q].confirmed <= now
    BY <1>7, <2>1 DEF Dated
  <2>3. ASSUME NEW d \in Devices, hub[q].action = "start_windows",
               StateOf(candidate, q, d) \in Live
        PROVE  hub[q].confirmed <= started'[<<q, d>>]
    <3>1. CASE StateOf(hub, q, d) \in Live
      BY <1>10, <2>1, <2>3, <3>1 DEF Dated
    <3>2. CASE q = o /\ d \in ds
      BY <1>8, <2>2, <2>3, <3>2 DEF dates
    <3> QED
      BY <1>6, <2>1, <2>3, <3>1, <3>2
  <2> QED
    BY <2>1, <2>2, <2>3
<1>12. CASE UNCHANGED <<hub, disk, work, cancel, failures>> /\ ds = {}
  <2>1. \A q \in Operations, d \in Devices : started'[<<q, d>>] = started[<<q, d>>]
    BY <1>8, <1>12
  <2>2. LedgerStep
    BY <1>10, <1>12, KeepsItself DEF IInv, LedgersInv, LedgerStep
  <2>3. DueInv'
    BY <1>2, <1>3, <2>2, DueKept
  <2>4. LedgersInv'
    BY <1>1, <2>2, LedgersKept
  <2>5. TypeOK'
    BY <1>1, <1>2, <1>8, <1>12 DEF IInv, TypeOK
  <2>6. WorkersInv'
    <3> SUFFICES ASSUME NEW q \in Operations, NEW d \in Devices
                 PROVE  WorkerInv(q, d)'
      BY DEF WorkersInv
    <3>1. WorkerInv(q, d) /\ ReachedBy(hub)
      BY DEF IInv, WorkersInv, LedgersInv
    <3>2. Loops(d)' = Loops(d)
      BY <1>12 DEF Loops
    <3> QED
      BY <1>1, <1>12, <2>1, <2>2, <3>1, <3>2, WorkerKept
  <2>7. DownInv'
    BY <1>1 DEF DownInv
  <2> QED
    BY <2>3, <2>4, <2>5, <2>6, <2>7 DEF IInv
<1>13. CASE Persist(candidate, outcome) /\ StartWork(o, ds, outcome)
  <2>1. LedgerStep
    <3>1. CASE outcome # "failed"
      BY <1>6, <1>10, <1>11, <1>13, <3>1, PersistStep
    <3>2. CASE outcome = "failed"
      <4>1. hub' = hub /\ disk' = disk
        BY <1>13, <3>2 DEF Persist
      <4> QED
        BY <1>10, <4>1, KeepsItself DEF IInv, LedgersInv, LedgerStep
    <3> QED
      BY <3>1, <3>2
  <2>2. /\ WorkersInv'
        /\ work' \in [Pairs -> Phases]
        /\ failures' \in [Devices -> 0..FailureLimit]
        /\ cancel' \in [Devices -> [operation : Operations, cancelled : BOOLEAN] \cup {NoControl}]
    <3>1. CASE outcome = "done"
      <4>1. hub' = candidate
        BY <1>13, <3>1 DEF Persist
      <4>2. \A d \in ds : d \in Devices /\ StateOf(hub', o, d) \in Past
        BY <1>4, <1>6, <4>1 DEF Pending, Past
      <4>3. hub[o].action = "start_windows" => \A d \in ds : started'[<<o, d>>] = now
        BY <1>8, <3>1, <4>2 DEF dates
      <4>4. \A q \in Operations, d \in Devices :
               ~(q = o /\ d \in ds) => started'[<<q, d>>] = started[<<q, d>>]
        BY <1>8
      <4>5. StartWork(o, ds, "done")
        BY <1>13, <3>1
      <4> QED
        BY <1>1, <1>3, <1>4, <2>1, <4>2, <4>3, <4>4, <4>5, StartWorkStep
    <3>2. CASE outcome # "done"
      <4>1. UNCHANGED <<work, cancel, failures>>
        BY <1>13, <3>2 DEF StartWork
      <4>2. ASSUME NEW q \in Operations, NEW d \in Devices PROVE WorkerInv(q, d)'
        <5>1. WorkerInv(q, d) /\ ReachedBy(hub)
          BY DEF IInv, WorkersInv, LedgersInv
        <5>2. Loops(d)' = Loops(d)
          BY <4>1 DEF Loops
        <5>3. work[<<q, d>>] \in Looping => started'[<<q, d>>] = started[<<q, d>>]
          <6>1. q = o /\ d \in ds => work[<<q, d>>] = "none"
            <7> SUFFICES ASSUME q = o, d \in ds, work[<<o, d>>] # "none" PROVE FALSE
              OBVIOUS
            <7>1. StateOf(hub, o, d) \in Past
              BY <5>1 DEF WorkerInv
            <7> QED
              BY <1>4, <7>1 DEF Pending, Past
          <6> QED
            BY <1>8, <6>1 DEF Looping
        <5> QED
          BY <1>1, <2>1, <4>1, <5>1, <5>2, <5>3, WorkerKept
      <4> QED
        BY <4>1, <4>2 DEF IInv, TypeOK, WorkersInv
    <3> QED
      BY <3>1, <3>2
  <2>3. DueInv'
    BY <1>2, <1>3, <2>1, DueKept
  <2>4. LedgersInv'
    BY <1>1, <2>1, LedgersKept
  <2>5. TypeOK'
    BY <1>1, <1>2, <1>8, <2>1, <2>2, LedgerStepKeeps DEF IInv, TypeOK, Ledgers
  <2>6. DownInv'
    BY <1>1 DEF DownInv
  <2> QED
    BY <2>2, <2>3, <2>4, <2>5, <2>6 DEF IInv
<1> QED
  BY <1>1, <1>12, <1>13

-----------------------------------------------------------------------------
(* Crash and start.                                                          *)

\* What a restart resumes, what it starts at once and what it leaves of the
\* ledger on the disk.
Resumed(o, d) ==
    /\ o \in ConfirmedOf(disk)
    /\ Unsettled(disk, o, d) \/ Active(disk, o, d)
    /\ Latest(o, d)

Restarted(o, d) == Resumed(o, d) /\ StateOf(disk, o, d) # "accepted"

Recovered ==
    [o \in Operations |->
        IF ~Known(disk, o) \/ disk[o].confirmed = 0 THEN disk[o]
        ELSE [disk[o] EXCEPT !.targets = [d \in Devices |->
            IF Unsettled(disk, o, d) /\ ~Resumed(o, d)
            THEN [@[d] EXCEPT !.state = "failed"] ELSE @[d]]]]

\* A restart only gives up targets.
LEMMA RecoveredKeeps ==
    ASSUME Good(disk)
    PROVE  /\ Keeps(disk, Recovered) /\ ~Starts(disk, Recovered)
           /\ \A o \in ConfirmedOf(disk), d \in Devices :
                 StateOf(Recovered, o, d) = IF Unsettled(disk, o, d) /\ ~Resumed(o, d)
                                            THEN "failed" ELSE StateOf(disk, o, d)
<1>1. disk \in Ledgers
  BY DEF Good
<1>2. ASSUME NEW o \in ConfirmedOf(disk)
      PROVE  /\ Recovered[o] \in Operation
             /\ Recovered[o].action = disk[o].action
             /\ Recovered[o].confirmed = disk[o].confirmed
             /\ \A d \in Devices :
                   IF Unsettled(disk, o, d) /\ ~Resumed(o, d)
                   THEN Recovered[o].targets[d].state = "failed"
                   ELSE Recovered[o].targets[d] = disk[o].targets[d]
  <2> DEFINE u == disk[o].targets
             t == [d \in Devices |-> IF Unsettled(disk, o, d) /\ ~Resumed(o, d)
                                     THEN [u[d] EXCEPT !.state = "failed"] ELSE u[d]]
  <2>1. o \in Operations /\ Known(disk, o) /\ disk[o].confirmed # 0
    BY DEF ConfirmedOf
  <2>2. disk[o] \in Operation /\ u \in [Devices -> Target]
    BY <1>1, <2>1, KnownFields
  <2>3. ASSUME NEW d \in Devices
        PROVE  /\ t[d] \in Target
               /\ IF Unsettled(disk, o, d) /\ ~Resumed(o, d)
                  THEN t[d].state = "failed" ELSE t[d] = u[d]
    <3>1. u[d] \in Target
      BY <2>2
    <3> QED
      BY <3>1 DEF Target
  <2>4. t \in [Devices -> Target]
    BY <2>3
  <2>5. Recovered[o] = [disk[o] EXCEPT !.targets = t]
    BY <2>1 DEF Recovered
  <2> HIDE DEF t
  <2>6. /\ Recovered[o] \in Operation /\ Recovered[o].targets = t
        /\ Recovered[o].action = disk[o].action
        /\ Recovered[o].confirmed = disk[o].confirmed
    BY <2>2, <2>4, <2>5 DEF Operation
  <2> QED
    BY <2>3, <2>6
<1>3. \A o \in Operations : o \notin ConfirmedOf(disk) => Recovered[o] = disk[o]
  BY DEF Recovered, ConfirmedOf
<1>4. Recovered \in Ledgers
  <2>1. \A o \in Operations : Recovered[o] \in Operation \cup {NoOperation}
    BY <1>1, <1>2, <1>3 DEF Ledgers
  <2> QED
    BY <2>1 DEF Recovered, Ledgers
<1>5. \A o \in Operations : Known(Recovered, o) <=> Known(disk, o)
  BY <1>2, <1>3, NoOperationAssumption DEF Known, ConfirmedOf
<1>6. \A o \in Operations : Known(disk, o) =>
         Recovered[o].action = disk[o].action /\ Recovered[o].confirmed = disk[o].confirmed
  BY <1>2, <1>3
<1>7. ASSUME NEW o \in Operations, NEW d \in Devices, Known(disk, o)
      PROVE  \/ Recovered[o].targets[d] = disk[o].targets[d]
             \/ /\ o \in ConfirmedOf(disk) /\ disk[o].targets[d].state # "untargeted"
                /\ Recovered[o].targets[d].state = "failed"
  <2>1. CASE o \in ConfirmedOf(disk) /\ Unsettled(disk, o, d) /\ ~Resumed(o, d)
    <3>1. disk[o].targets[d].state # "untargeted"
      BY <1>7, <2>1 DEF Unsettled, StateOf
    <3> QED
      BY <1>2, <2>1, <3>1
  <2>2. CASE ~(o \in ConfirmedOf(disk) /\ Unsettled(disk, o, d) /\ ~Resumed(o, d))
    BY <1>2, <1>3, <2>2
  <2> QED
    BY <2>1, <2>2
<1>8. Keeps(disk, Recovered)
  BY <1>4, <1>5, <1>6, <1>7, TargetsMove DEF Past
<1>9. ASSUME NEW o \in ConfirmedOf(disk), NEW d \in Devices
      PROVE  StateOf(Recovered, o, d) = IF Unsettled(disk, o, d) /\ ~Resumed(o, d)
                                        THEN "failed" ELSE StateOf(disk, o, d)
  BY <1>2, <1>5 DEF StateOf, ConfirmedOf
<1>10. ~Starts(disk, Recovered)
  BY <1>9 DEF Starts, Live
<1> QED
  BY <1>8, <1>9, <1>10

\* A start that is resumed is not earlier than any end that was there, and no
\* other is resumed.
LEMMA LatestWins ==
    ASSUME Good(disk), ReachedBy(disk), Dated(disk, now, started),
           NEW o \in Operations, NEW d \in Devices, Resumed(o, d),
           disk[o].action = "start_windows", StateOf(disk, o, d) # "accepted",
           started[<<o, d>>] \in Nat
    PROVE  /\ \A q \in reached[d] : disk[q].confirmed <= started[<<o, d>>]
           /\ \A q \in Operations :
                 Resumed(q, d) /\ disk[q].action = "start_windows" => q = o
<1>1. disk \in Ledgers
  BY DEF Good
<1>2. \A q \in ConfirmedOf(disk) : q \in Operations /\ disk[q].confirmed \in Nat
  BY <1>1, KnownFields DEF ConfirmedOf
<1>3. ASSUME NEW q \in Operations, Resumed(q, d), disk[q].action = "start_windows"
      PROVE  /\ q \in ConfirmedOf(disk) /\ q \in Intents(d)
             /\ \A p \in Intents(d) : NotLater(p, q)
  <2>1. q \in ConfirmedOf(disk) /\ StateOf(disk, q, d) # "untargeted"
    BY <1>3 DEF Resumed, Unsettled, Active, StateOf, ConfirmedOf
  <2> QED
    BY <1>3, <2>1 DEF Resumed, Latest, Intents, ConfirmedOf
<1>4. disk[o].confirmed <= started[<<o, d>>]
  <2>1. StateOf(disk, o, d) \in Live
    BY <1>3 DEF Resumed, Unsettled, Active, StateOf, ConfirmedOf, Live
  <2> QED
    BY <1>3, <2>1 DEF Dated
<1>5. ASSUME NEW q \in reached[d]
      PROVE  disk[q].confirmed <= started[<<o, d>>]
  <2>1. q \in ConfirmedOf(disk) /\ q \in Intents(d)
    BY DEF ReachedBy, Intents, ConfirmedOf, Ends, Past
  <2>2. NotLater(q, o)
    BY <1>3, <2>1
  <2>3. disk[q].confirmed <= disk[o].confirmed
    BY <1>2, <1>3, <2>1, <2>2 DEF NotLater
  <2> QED
    BY <1>2, <1>3, <1>4, <2>1, <2>3
<1>6. ASSUME NEW q \in Operations, Resumed(q, d), disk[q].action = "start_windows"
      PROVE  q = o
  <2>1. NotLater(q, o) /\ NotLater(o, q)
    BY <1>3, <1>6
  <2>2. q \in Nat /\ o \in Nat
    BY OperationsAssumption
  <2> QED
    BY <1>2, <1>3, <1>6, <2>1, <2>2 DEF NotLater
<1> QED
  BY <1>5, <1>6

\* What a restart sets.
Watching(d) == {o \in Operations : Restarted(o, d) /\ disk[o].action = "start_windows"}

\* The restart in terms of these.
LEMMA RestartSets ==
    ASSUME Restart
    PROVE  /\ ~up /\ up' = TRUE /\ hub' = Recovered /\ disk' = Recovered
           /\ due' \in [Operations -> Nat]
           /\ \A o \in Operations : due'[o] > 0 => \E d \in Devices : Resumed(o, d)
           /\ work' = [p \in Pairs |->
                 IF ~Restarted(p[1], p[2]) THEN "none"
                 ELSE IF disk[p[1]].action = "start_windows" THEN "top" ELSE "begin"]
           /\ cancel' = [d \in Devices |->
                 IF Watching(d) = {} THEN NoControl
                 ELSE [operation |-> CHOOSE o \in Watching(d) : TRUE, cancelled |-> FALSE]]
           /\ UNCHANGED <<now, lapsed, asked, failures, started, reached>>
<1> DEFINE resumes == {p \in Pairs : /\ Known(disk, p[1]) /\ disk[p[1]].confirmed # 0
                                     /\ \/ Unsettled(disk, p[1], p[2])
                                        \/ Active(disk, p[1], p[2])
                                     /\ Latest(p[1], p[2])}
           atOnce == {p \in resumes : StateOf(disk, p[1], p[2]) # "accepted"}
           watching(d) == {o \in Operations : /\ <<o, d>> \in atOnce
                                              /\ disk[o].action = "start_windows"}
           recovered == [o \in Operations |->
               IF ~Known(disk, o) \/ disk[o].confirmed = 0 THEN disk[o]
               ELSE [disk[o] EXCEPT !.targets = [d \in Devices |->
                   IF Unsettled(disk, o, d) /\ <<o, d>> \notin resumes
                   THEN [@[d] EXCEPT !.state = "failed"] ELSE @[d]]]]
<1>1. \A o \in Operations, d \in Devices :
          /\ <<o, d>> \in resumes <=> Resumed(o, d)
          /\ <<o, d>> \in atOnce <=> Restarted(o, d)
  BY PairFields DEF Resumed, Restarted, ConfirmedOf
<1>2. \A p \in Pairs : p \in resumes <=> Resumed(p[1], p[2])
  BY PairFields DEF Resumed, ConfirmedOf
<1>3. \A p \in Pairs : p \in atOnce <=> Restarted(p[1], p[2])
  BY <1>2 DEF Restarted
<1>4. /\ ~up /\ up' = TRUE /\ hub' = recovered /\ disk' = recovered
      /\ due' = [o \in Operations |->
              IF \E d \in Devices : <<o, d>> \in resumes \ atOnce THEN 1 ELSE 0]
      /\ work' = [p \in Pairs |->
              IF p \notin atOnce THEN "none"
              ELSE IF disk[p[1]].action = "start_windows" THEN "top" ELSE "begin"]
      /\ cancel' = [d \in Devices |->
              IF watching(d) = {} THEN NoControl
              ELSE [operation |-> CHOOSE o \in watching(d) : TRUE, cancelled |-> FALSE]]
      /\ UNCHANGED <<now, lapsed, asked, failures, started, reached>>
  BY DEF Restart, history
<1> HIDE DEF resumes, atOnce
<1>6. recovered = Recovered
  <2>1. ASSUME NEW o \in Operations
        PROVE  [d \in Devices |->
                  IF Unsettled(disk, o, d) /\ <<o, d>> \notin resumes
                  THEN [disk[o].targets[d] EXCEPT !.state = "failed"] ELSE disk[o].targets[d]]
               = [d \in Devices |->
                  IF Unsettled(disk, o, d) /\ ~Resumed(o, d)
                  THEN [disk[o].targets[d] EXCEPT !.state = "failed"] ELSE disk[o].targets[d]]
    BY <1>1
  <2> QED
    BY <2>1 DEF Recovered
<1>7. \A d \in Devices : watching(d) = Watching(d)
  BY <1>1 DEF Watching
<1> HIDE DEF watching, recovered
<1>8. /\ due' \in [Operations -> Nat]
      /\ \A o \in Operations : due'[o] > 0 => \E d \in Devices : Resumed(o, d)
  <2>1. \A o \in Operations :
           due'[o] = IF \E d \in Devices : <<o, d>> \in resumes \ atOnce THEN 1 ELSE 0
    BY <1>4
  <2>2. \A o \in Operations : due'[o] > 0 => \E d \in Devices : <<o, d>> \in resumes
    BY <2>1
  <2>3. due' \in [Operations -> Nat]
    BY <1>4
  <2> QED
    BY <1>1, <2>2, <2>3
<1>9. work' = [p \in Pairs |->
                 IF ~Restarted(p[1], p[2]) THEN "none"
                 ELSE IF disk[p[1]].action = "start_windows" THEN "top" ELSE "begin"]
  BY <1>3, <1>4
<1>10. cancel' = [d \in Devices |->
                 IF Watching(d) = {} THEN NoControl
                 ELSE [operation |-> CHOOSE o \in Watching(d) : TRUE, cancelled |-> FALSE]]
  BY <1>4, <1>7
<1> QED
  BY <1>4, <1>6, <1>8, <1>9, <1>10

\* A start: what goes on is the latest intent for its headset.
LEMMA RestartStep ==
    ASSUME IInv, Restart
    PROVE  IInv'
<1>1. /\ ~up /\ up' = TRUE /\ hub' = Recovered /\ disk' = Recovered
      /\ due' \in [Operations -> Nat]
      /\ \A o \in Operations : due'[o] > 0 => \E d \in Devices : Resumed(o, d)
      /\ work' = [p \in Pairs |->
            IF ~Restarted(p[1], p[2]) THEN "none"
            ELSE IF disk[p[1]].action = "start_windows" THEN "top" ELSE "begin"]
      /\ cancel' = [d \in Devices |->
            IF Watching(d) = {} THEN NoControl
            ELSE [operation |-> CHOOSE o \in Watching(d) : TRUE, cancelled |-> FALSE]]
      /\ UNCHANGED <<now, lapsed, asked, failures, started, reached>>
  BY RestartSets
<1>2. /\ Good(disk) /\ Follows(hub, disk) /\ ReachedBy(hub)
      /\ Dated(disk, now, started) /\ started \in [Pairs -> 0..now] /\ now \in Nat
  BY DEF IInv, LedgersInv, TypeOK
<1>3. ReachedBy(disk)
  BY <1>2 DEF ReachedBy, Follows
<1>4. /\ Keeps(disk, Recovered) /\ ~Starts(disk, Recovered)
      /\ \A o \in ConfirmedOf(disk), d \in Devices :
            StateOf(Recovered, o, d) = IF Unsettled(disk, o, d) /\ ~Resumed(o, d)
                                       THEN "failed" ELSE StateOf(disk, o, d)
  BY <1>2, RecoveredKeeps
<1>5. /\ Good(Recovered) /\ Follows(disk, Recovered)
      /\ ConfirmedOf(Recovered) = ConfirmedOf(disk)
      /\ \A o \in ConfirmedOf(disk) :
            /\ Recovered[o].action = disk[o].action
            /\ Recovered[o].confirmed = disk[o].confirmed
            /\ \A d \in Devices :
                  /\ StateOf(Recovered, o, d) = "accepted" => StateOf(disk, o, d) = "accepted"
                  /\ StateOf(Recovered, o, d) # "untargeted" =>
                        StateOf(disk, o, d) # "untargeted"
  BY <1>4 DEF Keeps, Follows
<1>6. LedgersInv'
  <2>1. ReachedBy(Recovered)
    BY <1>3, <1>5 DEF ReachedBy, Follows
  <2>2. Follows(Recovered, Recovered)
    BY <1>5, KeepsItself
  <2>3. Dated(Recovered, now, started)
    BY <1>2, <1>4, DatedKept
  <2> QED
    BY <1>1, <1>5, <2>1, <2>2, <2>3 DEF LedgersInv, ReachedBy
<1>7. ASSUME NEW o \in Operations, NEW d \in Devices
      PROVE  work'[<<o, d>>] = IF ~Restarted(o, d) THEN "none"
                               ELSE IF disk[o].action = "start_windows" THEN "top" ELSE "begin"
  BY <1>1, PairFields
<1>8. ASSUME NEW d \in Devices
      PROVE  cancel'[d] = IF Watching(d) = {} THEN NoControl
             ELSE [operation |-> CHOOSE o \in Watching(d) : TRUE, cancelled |-> FALSE]
  BY <1>1
<1>9. TypeOK'
  <2>1. /\ work' \in [Pairs -> Phases]
        /\ \A d \in Devices : Watching(d) \subseteq Operations
    BY <1>1 DEF Phases, Looping, Watching
  <2>2. ASSUME NEW d \in Devices
        PROVE  cancel'[d] \in [operation : Operations, cancelled : BOOLEAN] \cup {NoControl}
    <3>1. CASE Watching(d) = {}
      BY <1>8, <3>1
    <3>2. CASE Watching(d) # {}
      <4> DEFINE o == CHOOSE q \in Watching(d) : TRUE
      <4>1. o \in Operations
        BY <2>1, <3>2
      <4>2. cancel'[d] = [operation |-> o, cancelled |-> FALSE]
        BY <1>8, <3>2
      <4> HIDE DEF o
      <4> QED
        BY <4>1, <4>2
    <3> QED
      BY <3>1, <3>2
  <2>3. cancel' \in [Devices -> [operation : Operations, cancelled : BOOLEAN] \cup {NoControl}]
    BY <1>1, <2>2
  <2> QED
    BY <1>1, <1>5, <2>1, <2>3 DEF IInv, TypeOK, Good, Ledgers
<1>10. WorkersInv'
  <2> SUFFICES ASSUME NEW o \in Operations, NEW d \in Devices
               PROVE  WorkerInv(o, d)'
    BY DEF WorkersInv
  <2>1. CASE ~Restarted(o, d)
    <3>1. work'[<<o, d>>] = "none"
      BY <1>7, <2>1
    <3> QED
      BY <3>1 DEF WorkerInv, LoopPhases, Looping
  <2>2. CASE Restarted(o, d)
    <3>1. /\ o \in ConfirmedOf(disk) /\ Resumed(o, d)
          /\ StateOf(disk, o, d) \in Past
      BY <2>2 DEF Restarted, Resumed, Unsettled, Active, StateOf, ConfirmedOf, Past
    <3>2. /\ o \in ConfirmedOf(hub)' /\ StateOf(hub', o, d) \in Past
          /\ hub'[o].action = disk[o].action /\ hub'[o].confirmed = disk[o].confirmed
      BY <1>1, <1>4, <1>5, <3>1
    <3>3. CASE disk[o].action = "start_windows"
      <4>1. work'[<<o, d>>] = "top"
        BY <1>7, <2>2, <3>3
      <4>2. /\ \A q \in reached[d] : disk[q].confirmed <= started[<<o, d>>]
            /\ \A q \in Operations :
                  Resumed(q, d) /\ disk[q].action = "start_windows" => q = o
        <5>1. started[<<o, d>>] \in Nat
          BY <1>2, PairFields
        <5>2. StateOf(disk, o, d) # "accepted"
          BY <2>2 DEF Restarted
        <5> QED
          BY <1>2, <1>3, <3>1, <3>3, <5>1, <5>2, LatestWins
      <4>3. Watching(d) = {o}
        BY <2>2, <3>3, <4>2 DEF Watching, Restarted
      <4>4. cancel'[d] = [operation |-> o, cancelled |-> FALSE]
        BY <1>8, <4>3
      <4>5. cancel'[d] # NoControl /\ cancel'[d].operation = o
        BY <4>4, NoOperationAssumption DEF NoControl
      <4>6. failures'[d] < FailureLimit
        BY <1>1, LimitsAssumption DEF IInv, DownInv
      <4>7. \A q \in reached'[d] : hub'[q].confirmed <= started'[<<o, d>>]
        BY <1>1, <1>3, <1>5, <4>2 DEF ReachedBy
      <4> QED
        BY <1>1, <3>2, <3>3, <4>1, <4>5, <4>6, <4>7 DEF WorkerInv, LoopPhases, Looping
    <3>4. CASE disk[o].action # "start_windows"
      <4>1. work'[<<o, d>>] = "begin"
        BY <1>7, <2>2, <3>4
      <4> QED
        BY <3>2, <3>4, <4>1 DEF WorkerInv, LoopPhases, Looping
    <3> QED
      BY <3>3, <3>4
  <2> QED
    BY <2>1, <2>2
<1>11. DueInv'
  BY <1>1, <1>5 DEF DueInv, Resumed
<1>12. DownInv'
  BY <1>1 DEF DownInv
<1> QED
  BY <1>6, <1>9, <1>10, <1>11, <1>12 DEF IInv

\* A crash ends the workers and the watchdogs.
LEMMA CrashStep == IInv /\ Crash => IInv'
<1> SUFFICES ASSUME IInv, Crash PROVE IInv'
  OBVIOUS
<1>1. /\ up' = FALSE
      /\ asked' = [o \in Operations |-> {}] /\ due' = [o \in Operations |-> 0]
      /\ work' = [p \in Pairs |-> "none"]
      /\ failures' = [d \in Devices |-> 0]
      /\ cancel' = [d \in Devices |-> NoControl]
      /\ UNCHANGED <<now, hub, disk, lapsed, started, reached>>
  BY DEF Crash, history
<1>2. LedgerStep
  BY <1>1, SameLedgers
<1>3. LedgersInv'
  BY <1>1, <1>2, LedgersKept
<1>4. TypeOK'
  <2>1. work' \in [Pairs -> Phases]
    BY <1>1 DEF Phases
  <2>2. failures' \in [Devices -> 0..FailureLimit]
    BY <1>1, LimitsAssumption
  <2>3. due' \in [Operations -> Nat] /\ asked' \in [Operations -> SUBSET (1..now)]
    BY <1>1
  <2>4. cancel' \in [Devices -> [operation : Operations, cancelled : BOOLEAN] \cup {NoControl}]
    BY <1>1
  <2> QED
    BY <1>1, <2>1, <2>2, <2>3, <2>4 DEF IInv, TypeOK
<1>5. \A o \in Operations, d \in Devices : work'[<<o, d>>] = "none"
  BY <1>1, PairFields
<1>6. WorkersInv'
  BY <1>5 DEF WorkersInv, WorkerInv, LoopPhases, Looping
<1>7. DueInv' /\ DownInv'
  BY <1>1, <1>5 DEF DueInv, DownInv
<1> QED
  BY <1>3, <1>4, <1>6, <1>7 DEF IInv

\* A preview that expires.
LEMMA LapseStep ==
    ASSUME IInv, NEW o \in Operations, Lapse(o)
    PROVE  IInv'
<1>1. /\ lapsed' = lapsed \cup {o}
      /\ UNCHANGED <<up, now, hub, disk, asked, due, work, failures, cancel, started, reached>>
  BY DEF Lapse, runtime, history
<1>2. LedgerStep
  BY <1>1, SameLedgers
<1> QED
  BY <1>1, <1>2, QuietStep DEF IInv, TypeOK

\* The clock moves on.
LEMMA TickStep == IInv /\ Tick => IInv'
<1> SUFFICES ASSUME IInv, Tick PROVE IInv'
  OBVIOUS
<1>1. /\ now' = now + 1
      /\ UNCHANGED <<up, hub, disk, lapsed, asked, due, work, failures, cancel, started, reached>>
  BY DEF Tick, runtime, history
<1>2. /\ now \in Nat \ {0} /\ asked \in [Operations -> SUBSET (1..now)]
      /\ lapsed \subseteq Operations
  BY DEF IInv, TypeOK
<1>3. now' \in Nat \ {0} /\ now <= now' /\ 1..now \subseteq 1..now'
  BY <1>1, <1>2
<1>4. asked' \in [Operations -> SUBSET (1..now')]
  BY <1>1, <1>2, <1>3
<1>5. ASSUME NEW h \in Ledgers, Dated(h, now, started)
      PROVE  Dated(h, now', started')
  <2> SUFFICES ASSUME NEW o \in ConfirmedOf(h)
               PROVE  h[o].confirmed <= now'
    BY <1>1, <1>5 DEF Dated
  <2>1. h[o].confirmed \in Nat /\ h[o].confirmed <= now
    BY <1>5, KnownFields DEF Dated, ConfirmedOf
  <2> QED
    BY <1>1, <1>2, <2>1
<1>6. LedgerStep
  BY <1>1, <1>5, KeepsItself DEF IInv, LedgersInv, LedgerStep, Good
<1> QED
  BY <1>1, <1>2, <1>3, <1>4, <1>6, QuietStep

\* A step that leaves everything as it is.
LEMMA StutterStep == IInv /\ UNCHANGED vars => IInv'
<1> SUFFICES ASSUME IInv, UNCHANGED vars PROVE IInv'
  OBVIOUS
<1>1. UNCHANGED <<up, now, hub, disk, lapsed, asked, due, work, failures, cancel, started, reached>>
  BY DEF vars, runtime, history
<1>2. LedgerStep
  BY <1>1, SameLedgers
<1> QED
  BY <1>1, <1>2, QuietStep DEF IInv, TypeOK

-----------------------------------------------------------------------------
(* The theorems.                                                             *)

\* The invariant holds at the start: there are no operations.
LEMMA InitInv == Init => IInv
<1> SUFFICES ASSUME Init PROVE IInv
  OBVIOUS
<1>1. /\ up = TRUE /\ now = 1
      /\ hub = [o \in Operations |-> NoOperation] /\ disk = hub
      /\ lapsed = {} /\ asked = [o \in Operations |-> {}]
      /\ due = [o \in Operations |-> 0]
      /\ work = [p \in Pairs |-> "none"]
      /\ failures = [d \in Devices |-> 0]
      /\ cancel = [d \in Devices |-> NoControl]
      /\ started = [p \in Pairs |-> 0] /\ reached = [d \in Devices |-> {}]
  BY DEF Init
<1>2. /\ hub \in Ledgers /\ \A o \in Operations : ~Known(hub, o)
      /\ ConfirmedOf(hub) = {}
  BY <1>1 DEF Ledgers, Known, ConfirmedOf
<1>3. Good(hub)
  <2>1. \A o \in Operations, d \in Devices : StateOf(hub, o, d) = "untargeted"
    BY <1>2 DEF StateOf
  <2> QED
    BY <1>2, <2>1 DEF Good, StatesFit, Proven, Past
<1>4. LedgersInv
  BY <1>1, <1>2, <1>3, KeepsItself DEF LedgersInv, ReachedBy, Dated
<1>5. TypeOK
  <2>1. work \in [Pairs -> Phases]
    BY <1>1 DEF Phases
  <2>2. failures \in [Devices -> 0..FailureLimit]
    BY <1>1, LimitsAssumption
  <2>3. /\ due \in [Operations -> Nat] /\ asked \in [Operations -> SUBSET (1..now)]
        /\ started \in [Pairs -> 0..now] /\ reached \in [Devices -> SUBSET Operations]
    BY <1>1
  <2>4. cancel \in [Devices -> [operation : Operations, cancelled : BOOLEAN] \cup {NoControl}]
    BY <1>1
  <2> QED
    BY <1>1, <1>2, <2>1, <2>2, <2>3, <2>4 DEF TypeOK, Ledgers
<1>6. \A o \in Operations, d \in Devices : work[<<o, d>>] = "none"
  BY <1>1, PairFields
<1>7. WorkersInv
  BY <1>6 DEF WorkersInv, WorkerInv, LoopPhases, Looping
<1>8. DueInv /\ DownInv
  BY <1>1 DEF DueInv, DownInv
<1> QED
  BY <1>4, <1>5, <1>7, <1>8 DEF IInv

\* What a worker does.
LEMMA WorkerStep ==
    ASSUME IInv, NEW o \in Operations, NEW d \in Devices, Worker(o, d)
    PROVE  IInv'
BY BeginStep, StoppedStep, CallStep, FinishStep, LoopSeesCancelStep, LoopRenewsStep,
   RepairStep, LoopEndsStep DEF Worker

\* What a worker commits.
LEMMA CommitStep ==
    ASSUME IInv, NEW o \in Operations, NEW d \in Devices, NEW outcome, Commit(o, d, outcome)
    PROVE  IInv'
BY StopGivesUpStep, CallFailsStep, RenewalFailsStep, RepairFailsStep, AnsweredStep,
   RepairedStep DEF Commit

\* Every step keeps the invariant.
LEMMA NextInv == IInv /\ [Next]_vars => IInv'
<1> SUFFICES ASSUME IInv, [Next]_vars PROVE IInv'
  OBVIOUS
<1>1. CASE \E o \in Operations, a \in Actions, ds \in EligibleChoices, c \in Outcomes :
              Preview(o, a, ds, c)
  BY <1>1, PreviewStep
<1>2. CASE \/ \E o \in Operations : Ask(o)
           \/ \E o \in Operations, t \in 1..now, c \in Outcomes : Execute(o, t, c)
  BY <1>2, AskStep, ExecuteStep
<1>3. CASE \E o \in Operations, chosen, refused \in SUBSET Devices, c \in Outcomes :
              Schedule(o, chosen, refused, c)
  BY <1>3, ScheduleStep
<1>4. CASE \E o \in Operations, d \in Devices : Worker(o, d)
  BY <1>4, WorkerStep
<1>5. CASE \E o \in Operations, d \in Devices, c \in Outcomes : Commit(o, d, c)
  BY <1>5, CommitStep
<1>6. CASE \E o \in Operations : Lapse(o)
  BY <1>6, LapseStep
<1>7. CASE Tick \/ Crash \/ Restart
  BY <1>7, TickStep, CrashStep, RestartStep
<1>9. CASE UNCHANGED vars
  BY <1>9, StutterStep
<1> QED
  BY <1>1, <1>2, <1>3, <1>4, <1>5, <1>6, <1>7, <1>9 DEF Next

\* The inductive invariant: the ledgers, the workers and the dates of stops and
\* watchdogs fit together in every state.
THEOREM Invariance == Spec => []IInv
BY InitInv, NextInv, PTL DEF Spec

\* Every variable has its type: no time, count of failures or control of a
\* watchdog is out of range.
THEOREM TypeCorrect == Spec => []TypeOK
<1>1. IInv => TypeOK
  BY DEF IInv
<1> QED
  BY <1>1, Invariance, PTL

\* A running watchdog is the one its headset's control names, which is what a
\* stop or a restore cancels and waits for.
THEOREM WatchdogReachable == Spec => []WatchdogCanBeStopped
<1>1. IInv => WatchdogCanBeStopped
  <2> SUFFICES ASSUME IInv, NEW d \in Devices, NEW o \in Operations, o \in Loops(d)
               PROVE  cancel[d].operation = o
    BY DEF WatchdogCanBeStopped
  <2> QED
    BY DEF IInv, WorkersInv, WorkerInv, Loops, LoopPhases
<1> QED
  BY <1>1, Invariance, PTL

\* A headset has one watchdog at most: two would share its control.
THEOREM OneWatchdogEach ==
    Spec => [](\A d \in Devices, o, q \in Operations :
                  o \in Loops(d) /\ q \in Loops(d) => o = q)
<1>1. WatchdogCanBeStopped => \A d \in Devices, o, q \in Operations :
                                 o \in Loops(d) /\ q \in Loops(d) => o = q
  BY DEF WatchdogCanBeStopped
<1> QED
  BY <1>1, WatchdogReachable, PTL

\* A stop or restore that read its clock after a watchdog was started is not
\* undone by it: not by a repair that was under way, and not when a restart
\* resumes what it takes for the latest intent.
THEOREM LaterStopsWin == Spec => []LaterStopWins
<1>1. IInv => LaterStopWins
  <2> SUFFICES ASSUME IInv, NEW o \in Operations, NEW d \in Devices,
                      work[<<o, d>>] = "repairing", NEW q \in reached[d]
               PROVE  hub[q].confirmed <= started[<<o, d>>]
    BY PairFields DEF LaterStopWins
  <2> QED
    BY DEF IInv, WorkersInv, WorkerInv, Looping
<1> QED
  BY <1>1, Invariance, PTL

\* The provider is called for what the disk knows as dispatched: a crash during
\* the call leaves a record of it.
THEOREM CalledDurable == Spec => []CalledIsDurable
<1>1. IInv => CalledIsDurable
  <2> SUFFICES ASSUME IInv, NEW o \in Operations, NEW d \in Devices,
                      work[<<o, d>>] \in Calling
               PROVE  StateOf(disk, o, d) \in Past
    BY PairFields DEF CalledIsDurable, Past
  <2>1. o \in ConfirmedOf(hub) /\ StateOf(hub, o, d) \in Past
    BY DEF IInv, WorkersInv, WorkerInv, Calling
  <2> QED
    BY <2>1 DEF IInv, LedgersInv, Follows
<1> QED
  BY <1>1, Invariance, PTL

\* An applied target has the readback its action is for, in memory and on disk.
THEOREM AppliedProven == Spec => []AppliedIsProven
<1>1. IInv => AppliedIsProven
  BY PairFields DEF IInv, LedgersInv, Good, Proven, AppliedIsProven
<1> QED
  BY <1>1, Invariance, PTL
=============================================================================
