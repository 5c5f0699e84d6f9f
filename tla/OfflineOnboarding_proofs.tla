----------------------- MODULE OfflineOnboarding_proofs -----------------------
(***************************************************************************)
(* Theorems of ProviderProcess and of OfflineOnboarding.                   *)
(*                                                                         *)
(* First, what a call of an external program returns and leaves behind,    *)
(* for every choice of runners and every behaviour of the program.  Both   *)
(* properties speak of the end of a call only; IInv says what holds on the *)
(* way there: what a reader has sent is what was written, a loop that goes *)
(* on has met no failure, and what a call has concluded it has also ended. *)
(* Then the bundle, for every list of headsets and whatever fails.         *)
(***************************************************************************)
EXTENDS OfflineOnboarding, TLAPS

Concluding == {"cleanup", "answered", "returned"}
Before == {"start", "verified", "staged"}

\* What has been sent is what was written, and what was taken is what was sent.
SentIsWritten ==
    \A s \in Streams :
        /\ box[s] \in Read => box[s] = written[s]
        /\ got[s] # "pending" => got[s] = box[s]

\* A loop that goes on has taken no failure, and nothing beyond the limit but
\* that of the hotspot, which is looked at later.
NothingBadTaken ==
    pc \notin Concluding =>
        \A s \in Streams : got[s] # "error" /\ (runner # "hotspot" => got[s] # "over")

\* Where a caller may be, and what it knows of the program there.
Places ==
    /\ root = "none" => tree = "none"
    /\ pc \in Before => root = "none"
    /\ pc = "drain" => root = "exited" /\ runner \in Adapters
    /\ pc = "checked" => runner = "key_tool"
    /\ pc = "cleanup" => runner # "key_tool"
    /\ pc = "answered" => runner = "kiosk_v2"

\* A success was concluded from whole streams of a program that ended.
SuccessIsWhole ==
    runner # "key_tool" /\ outcome = "ok" =>
        /\ pc \in Concluding
        /\ root = "exited"
        /\ got["out"] \in {"nothing", "some"} /\ got["err"] = "nothing"
        /\ pc = "returned" /\ runner \in Adapters => stage = "absent"

\* What is said of a call that has returned holds once it has concluded.
ConcludedIsEnded ==
    pc \in Concluding =>
        /\ root = "running" => runner = "connectivity" /\ cause = "read"
        /\ runner \in Contained \/ cause = "timeout" => tree = "none"

\* The inductive invariant.
IInv ==
    /\ TypeOK
    /\ SentIsWritten
    /\ NothingBadTaken
    /\ Places
    /\ SuccessIsWhole
    /\ ConcludedIsEnded

-----------------------------------------------------------------------------
(* Every call begins so.                                                     *)

\* The invariant holds at the start.
LEMMA InitHolds == Init => IInv
BY RunnersAssumption DEF Init, IInv, TypeOK, SentIsWritten, NothingBadTaken, Places,
   SuccessIsWhole, ConcludedIsEnded, Concluding, Before, AllRunners, Adapters, Contained,
   Streams, Read

(* The program and its readers move while the caller stays where it is.      *)

\* Writes, Forks, Exits and DescendantsEnd.
LEMMA ProgramKeeps == IInv /\ Program => IInv'
<1> SUFFICES ASSUME IInv, Program PROVE IInv'
  OBVIOUS
<1> USE DEF IInv, TypeOK, SentIsWritten, NothingBadTaken, Places, SuccessIsWhole,
            ConcludedIsEnded, Concluding, Before, Adapters, Contained, Streams, Read,
            Environment, process, streams
<1>1. ASSUME NEW s \in Streams, NEW amount \in {"some", "over"}, Writes(s, amount) PROVE IInv'
  BY <1>1 DEF Writes
<1>2. ASSUME NEW how \in {"holding", "detached"}, Forks(how) PROVE IInv'
  BY <1>2 DEF Forks
<1>3. CASE Exits
  BY <1>3 DEF Exits
<1>4. CASE DescendantsEnd
  BY <1>4 DEF DescendantsEnd
<1> QED
  BY <1>1, <1>2, <1>3, <1>4 DEF Program

\* DrainEnds, DrainIsFull, DrainOverflows and DrainFails.
LEMMA ReadersKeep == IInv /\ Readers => IInv'
<1> SUFFICES ASSUME IInv, NEW s \in Streams,
                    DrainEnds(s) \/ DrainIsFull(s) \/ DrainOverflows(s) \/ DrainFails(s)
             PROVE  IInv'
  BY DEF Readers
<1> USE DEF IInv, TypeOK, SentIsWritten, NothingBadTaken, Places, SuccessIsWhole,
            ConcludedIsEnded, Concluding, Before, Adapters, Contained, Streams, Read,
            Environment, process, streams, Sends
<1>1. CASE DrainEnds(s)
  BY <1>1 DEF DrainEnds
<1>2. CASE DrainIsFull(s)
  BY <1>2 DEF DrainIsFull
<1>3. CASE DrainOverflows(s)
  BY <1>3 DEF DrainOverflows
<1>4. CASE DrainFails(s)
  BY <1>4 DEF DrainFails
<1> QED
  BY <1>1, <1>2, <1>3, <1>4

-----------------------------------------------------------------------------
(* A call begins.                                                            *)

\* Verifies, Stages and Starts of an adapter or of the kiosk provider.
LEMMA BeginningKeeps ==
    ASSUME IInv, NEW r \in Adapters \cup {"kiosk_v2"}, Verifies(r) \/ Stages(r) \/ Starts(r)
    PROVE  IInv'
<1> USE DEF IInv, TypeOK, SentIsWritten, NothingBadTaken, Places, SuccessIsWhole,
            ConcludedIsEnded, Concluding, Before, Adapters, Contained, Streams, Read,
            Beginning, Refused, GivenUp, Continues, streams
<1>1. CASE Verifies(r)
  BY <1>1 DEF Verifies
<1>2. CASE Stages(r)
  BY <1>2 DEF Stages
<1>3. CASE Starts(r)
  BY <1>3 DEF Starts
<1> QED
  BY <1>1, <1>2, <1>3

\* The same for each, and KeyToolStarts.
LEMMA StartingKeeps == IInv /\ Starting => IInv'
<1> SUFFICES ASSUME IInv, Starting PROVE IInv'
  OBVIOUS
<1>1. CASE KeyToolStarts
  BY <1>1 DEF KeyToolStarts, Beginning, Refused, GivenUp, Continues, streams, IInv, TypeOK, SentIsWritten, NothingBadTaken,
     Places, SuccessIsWhole, ConcludedIsEnded, Concluding, Before, Adapters, Contained,
     Streams, Read
<1>2. CASE ConnectivityVerifies \/ ConnectivityStages \/ ConnectivityStarts
  BY <1>2, BeginningKeeps DEF ConnectivityVerifies, ConnectivityStages, ConnectivityStarts, Adapters
<1>3. CASE AwakeVerifies \/ AwakeStages \/ AwakeStarts
  BY <1>3, BeginningKeeps DEF AwakeVerifies, AwakeStages, AwakeStarts, Adapters
<1>4. CASE HotspotVerifies \/ HotspotStages \/ HotspotStarts
  BY <1>4, BeginningKeeps DEF HotspotVerifies, HotspotStages, HotspotStarts, Adapters
<1>5. CASE KioskVerifies \/ KioskStages \/ KioskStarts
  BY <1>5, BeginningKeeps DEF KioskVerifies, KioskStages, KioskStarts
<1> QED
  BY <1>1, <1>2, <1>3, <1>4, <1>5 DEF Starting

-----------------------------------------------------------------------------
(* The loops of the five callers.                                            *)

\* A stream is received in the loop or after the exit.
LEMMA ReceivingKeeps == IInv /\ Receiving => IInv'
<1> SUFFICES ASSUME IInv, NEW s \in Streams,
                    \/ ConnectivityReceives(s) \/ ConnectivityDrains(s)
                    \/ AwakeReceives(s) \/ AwakeDrains(s)
                    \/ HotspotReceives(s) \/ HotspotDrains(s)
                    \/ KioskReceives(s)
             PROVE  IInv'
  BY DEF Receiving
<1> USE DEF IInv, TypeOK, SentIsWritten, NothingBadTaken, Places, SuccessIsWhole,
            ConcludedIsEnded, Concluding, Before, Adapters, Contained, Streams, Read,
            Concluded, FailEnding, FailLeaving, TreeKilled, Caller, Takes,
            Loop, After, GoesOn, process, streams
<1>1. CASE ConnectivityReceives(s)
  BY <1>1 DEF ConnectivityReceives
<1>2. CASE ConnectivityDrains(s)
  BY <1>2 DEF ConnectivityDrains
<1>3. CASE AwakeReceives(s)
  BY <1>3 DEF AwakeReceives
<1>4. CASE AwakeDrains(s)
  BY <1>4 DEF AwakeDrains
<1>5. CASE HotspotReceives(s)
  BY <1>5 DEF HotspotReceives
<1>6. CASE HotspotDrains(s)
  BY <1>6 DEF HotspotDrains
<1>7. CASE KioskReceives(s)
  BY <1>7 DEF KioskReceives
<1> QED
  BY <1>1, <1>2, <1>3, <1>4, <1>5, <1>6, <1>7

\* What the system says of the child, or that it does not say it.
LEMMA LooksKeep ==
    ASSUME IInv, NEW waits \in BOOLEAN,
           \/ ConnectivityLooks(waits) \/ AwakeLooks(waits)
           \/ HotspotLooks(waits) \/ KioskLooks(waits)
    PROVE  IInv'
<1> USE DEF IInv, TypeOK, SentIsWritten, NothingBadTaken, Places, SuccessIsWhole,
            ConcludedIsEnded, Concluding, Before, Adapters, Contained, Streams, Read,
            Concluded, FailEnding, FailLeaving, TreeKilled, Caller, Takes,
            Loop, After, GoesOn, process, streams
<1>1. CASE ConnectivityLooks(waits)
  BY <1>1 DEF ConnectivityLooks
<1>2. CASE AwakeLooks(waits)
  BY <1>2 DEF AwakeLooks
<1>3. CASE HotspotLooks(waits)
  BY <1>3 DEF HotspotLooks
<1>4. CASE KioskLooks(waits)
  BY <1>4 DEF KioskLooks, Received
<1> QED
  BY <1>1, <1>2, <1>3, <1>4

\* How each loop concludes.
LEMMA DecidingKeeps == IInv /\ Deciding => IInv'
<1> SUFFICES ASSUME IInv, Deciding PROVE IInv'
  OBVIOUS
<1> USE DEF IInv, TypeOK, SentIsWritten, NothingBadTaken, Places, SuccessIsWhole,
            ConcludedIsEnded, Concluding, Before, Adapters, Contained, Streams, Read,
            Concluded, FailEnding, FailLeaving, TreeKilled, Caller, Takes,
            Loop, After, GoesOn, process, streams,
            Judged, Received
<1>1. ASSUME NEW success \in BOOLEAN, AwakeJudges(success) PROVE IInv'
  BY <1>1 DEF AwakeJudges
<1>2. ASSUME NEW success \in BOOLEAN, KeyToolFinishes(success) PROVE IInv'
  BY <1>2 DEF KeyToolFinishes
<1>3. CASE ConnectivityJudges
  BY <1>3 DEF ConnectivityJudges
<1>4. CASE HotspotJudges
  BY <1>4 DEF HotspotJudges
<1>5. CASE HotspotGivesUp
  BY <1>5 DEF HotspotGivesUp
<1>6. CASE KeyToolChecks
  BY <1>6 DEF KeyToolChecks
<1>7. CASE \/ ConnectivityLooks(TRUE) \/ AwakeLooks(TRUE)
           \/ HotspotLooks(TRUE) \/ KioskLooks(TRUE)
  BY <1>7, LooksKeep
<1> QED
  BY <1>1, <1>2, <1>3, <1>4, <1>5, <1>6, <1>7 DEF Deciding

\* CleansUp, KioskAnswers and KioskDrops.
LEMMA EndingKeeps == IInv /\ Ending => IInv'
<1> SUFFICES ASSUME IInv, Ending PROVE IInv'
  OBVIOUS
<1> USE DEF IInv, TypeOK, SentIsWritten, NothingBadTaken, Places, SuccessIsWhole,
            ConcludedIsEnded, Concluding, Before, Adapters, Contained, Streams, Read,
            process, streams
<1>1. ASSUME NEW removed \in BOOLEAN, CleansUp(removed) PROVE IInv'
  BY <1>1 DEF CleansUp
<1>2. ASSUME NEW same \in BOOLEAN, NEW valid \in BOOLEAN, KioskAnswers(same, valid) PROVE IInv'
  BY <1>2 DEF KioskAnswers
<1>3. ASSUME NEW removed \in BOOLEAN, KioskDrops(removed) PROVE IInv'
  BY <1>3 DEF KioskDrops
<1> QED
  BY <1>1, <1>2, <1>3 DEF Ending

-----------------------------------------------------------------------------
(* The theorems.                                                             *)

\* Every step keeps it.
LEMMA NextKeeps == IInv /\ [Next]_vars => IInv'
<1> SUFFICES ASSUME IInv, [Next]_vars PROVE IInv'
  OBVIOUS
<1>1. CASE Program \/ Readers \/ Starting \/ Receiving \/ Deciding \/ Ending
  BY <1>1, ProgramKeeps, ReadersKeep, StartingKeeps, ReceivingKeeps, DecidingKeeps, EndingKeeps
<1>2. CASE WaitFails
  BY <1>2, LooksKeep DEF WaitFails
<1>3. CASE Deadline \/ GracePasses
  <2> USE DEF IInv, TypeOK, SentIsWritten, NothingBadTaken, Places, SuccessIsWhole,
              ConcludedIsEnded, process, streams
  <2>1. CASE Deadline
    BY <2>1 DEF Deadline
  <2>2. CASE GracePasses
    BY <2>2 DEF GracePasses
  <2> QED
    BY <1>3, <2>1, <2>2
<1>4. CASE UNCHANGED vars
  BY <1>4 DEF vars, IInv, TypeOK, SentIsWritten, NothingBadTaken, Places, SuccessIsWhole,
     ConcludedIsEnded
<1> QED
  BY <1>1, <1>2, <1>3, <1>4 DEF Next

\* What is said above IInv holds of every call at all times.
THEOREM Invariance == Spec => []IInv
<1> QED
  BY InitHolds, NextKeeps, PTL DEF Spec

\* Every variable has its type.
THEOREM TypeCorrect == Spec => []TypeOK
<1>1. IInv => TypeOK
  BY DEF IInv
<1> QED
  BY <1>1, Invariance, PTL

\* What the invariant says of a call that has returned with success.
LEMMA SuccessMeans == IInv => OkIsWhole
<1> SUFFICES ASSUME IInv, runner # "key_tool", pc = "returned", outcome = "ok" PROVE Whole
  BY DEF OkIsWhole
<1>1. /\ root = "exited"
      /\ got["out"] \in {"nothing", "some"} /\ got["err"] = "nothing"
      /\ runner \in Adapters => stage = "absent"
  BY DEF IInv, SuccessIsWhole
<1>2. got["out"] = written["out"] /\ got["err"] = written["err"]
  BY <1>1 DEF IInv, SentIsWritten, Streams, Read
<1> QED
  BY <1>1, <1>2 DEF Whole

\* What a call returns as a success is all that the program has written, within
\* the limit and with nothing on standard error, of a program that ended by
\* itself; and the stage is gone.
THEOREM SuccessIsTheWhole == Spec => []OkIsWhole
BY SuccessMeans, Invariance, PTL

\* No call leaves its program running, but the connectivity adapter where a
\* reader fails; and a job or a deadline ends the descendants too.
THEOREM NothingRunsOn == Spec => []NoneLeftRunning
<1>1. IInv => NoneLeftRunning
  BY DEF IInv, ConcludedIsEnded, NoneLeftRunning, Concluding
<1> QED
  BY <1>1, Invariance, PTL

-----------------------------------------------------------------------------
(* The objects of a bundle.                                                  *)

\* Where the objects of a headset stand in the order of creation.
LEMMA Positions ==
    ASSUME NEW n \in Nat
    PROVE  /\ \A i \in 3..4 * n + 2 : (i + 1) \div 4 \in 1..n
           /\ \A i \in 3..4 * n + 2 : i % 4 = 0 =>
                 i - 1 \in 3..4 * n + 2 /\ (i - 1) % 4 = 3 /\ i \div 4 = (i + 1) \div 4
           /\ \A i \in 3..4 * n + 2 : i % 4 = 1 =>
                 i - 2 \in 3..4 * n + 2 /\ (i - 2) % 4 = 3 /\ (i - 1) \div 4 = (i + 1) \div 4
           /\ \A i \in 3..4 * n + 2 : i % 4 = 2 =>
                 i - 3 \in 3..4 * n + 2 /\ (i - 3) % 4 = 3 /\ (i - 2) \div 4 = (i + 1) \div 4
           /\ \A k \in 1..n :
                 /\ 4 * k \in 3..4 * n + 2 /\ (4 * k) % 4 = 0
                 /\ (4 * k + 1) \div 4 = k
                 /\ 4 * k + 1 \in 3..4 * n + 2 /\ (4 * k + 1) % 4 = 1
                 /\ (4 * k + 2) \div 4 = k
  OBVIOUS

\* What stands where.
LEMMA WorkIs ==
    /\ Len(Devices) \in Nat /\ Total \in Nat /\ Total = 4 * Len(Devices) + 4
    /\ Len(Work) = Total /\ DOMAIN Work = 1..Total
    /\ Work[1] = Hub /\ Work[2] = DeviceRoot
    /\ Work[Total - 1] = Config /\ Work[Total] = Inventory
    /\ \A i \in 3..4 * Len(Devices) + 2 :
          /\ Devices[(i + 1) \div 4] \in Headsets
          /\ Work[i] = OfHeadset(Devices[(i + 1) \div 4], i)
    /\ \A d \in Headsets : \E k \in 1..Len(Devices) : Devices[k] = d
  <1>1. Len(Devices) \in Nat /\ DOMAIN Devices = 1..Len(Devices)
    BY RequestAssumption
  <1>2. Total \in Nat /\ Total = 4 * Len(Devices) + 4 /\ Total >= 4
    BY <1>1 DEF Total
  <1>3. DOMAIN Work = 1..Total
    BY DEF Work
  <1>4. Len(Work) = Total
    BY <1>2 DEF Work
  <1>5. /\ Work[1] = Hub /\ Work[2] = DeviceRoot
        /\ Work[Total - 1] = Config /\ Work[Total] = Inventory
    BY <1>2 DEF Work
  <1>6. ASSUME NEW i \in 3..4 * Len(Devices) + 2
        PROVE  /\ Devices[(i + 1) \div 4] \in Headsets
               /\ Work[i] = OfHeadset(Devices[(i + 1) \div 4], i)
    <2>1. (i + 1) \div 4 \in 1..Len(Devices)
      BY <1>1, Positions
    <2>2. Devices[(i + 1) \div 4] \in Headsets
      BY <1>1, <2>1 DEF Headsets, ToSet
    <2>3. i \in 1..Total /\ ~(i <= 2) /\ ~(i >= Total - 1)
      BY <1>1, <1>2
    <2>4. Work[i] = OfHeadset(Devices[(i + 1) \div 4], i)
      BY <2>3 DEF Work
    <2>5. QED
      BY <2>2, <2>4
  <1>7. \A d \in Headsets : \E k \in 1..Len(Devices) : Devices[k] = d
    BY <1>1 DEF Headsets, ToSet
  <1>8. QED
    BY <1>1, <1>2, <1>3, <1>4, <1>5, <1>6, <1>7

Files == {"seed", "record", "profile"}

\* The kinds of objects differ, whatever a headset is called.
LEMMA Kinds ==
    ASSUME NEW d
    PROVE  /\ Seed(d)[1] = "seed" /\ Seed(d)[2] = d
           /\ Record(d)[1] = "record" /\ Record(d)[2] = d
           /\ Profile(d)[1] = "profile" /\ Profile(d)[2] = d
           /\ Directory(d)[1] = "device" /\ Directory(d)[2] = d
           /\ Root[1] = "root" /\ Hub[1] = "hub" /\ DeviceRoot[1] = "devices"
           /\ Config[1] = "config" /\ Inventory[1] = "inventory"
  BY DEF Seed, Record, Profile, Directory, Root, Hub, DeviceRoot, Config, Inventory

\* An object a headset has, and the directory that holds it.
LEMMA HeadsetObjects ==
    ASSUME NEW i \in 3..4 * Len(Devices) + 2
    PROVE  LET d == Devices[(i + 1) \div 4] IN
           /\ d \in Headsets /\ Work[i] \in {Directory(d), Seed(d), Record(d), Profile(d)}
           /\ Work[i] = Directory(d) \/ \E j \in 1..i - 1 : Work[j] = Directory(d)
  <1>. DEFINE d == Devices[(i + 1) \div 4]
              n == Len(Devices)
  <1>1. n \in Nat /\ d \in Headsets /\ Work[i] = OfHeadset(d, i)
    BY WorkIs
  <1>2. i % 4 \in 0..3 /\ i \in Nat /\ i >= 3
    BY <1>1
  <1>3. Work[i] \in {Directory(d), Seed(d), Record(d), Profile(d)}
    BY <1>1 DEF OfHeadset
  <1>4. CASE i % 4 = 3
    BY <1>1, <1>4 DEF OfHeadset
  <1>5. ASSUME NEW j \in 3..4 * n + 2, j % 4 = 3, (j + 1) \div 4 = (i + 1) \div 4, j < i
        PROVE  \E k \in 1..i - 1 : Work[k] = Directory(d)
    <2>1. Work[j] = OfHeadset(d, j)
      BY <1>1, <1>5, WorkIs
    <2>2. Work[j] = Directory(d)
      BY <1>5, <2>1 DEF OfHeadset
    <2>3. j \in 1..i - 1
      BY <1>1, <1>2, <1>5
    <2>4. QED
      BY <2>2, <2>3
  <1>6. CASE i % 4 = 0
    <2>1. /\ i - 1 \in 3..4 * n + 2 /\ (i - 1) % 4 = 3
          /\ (i - 1 + 1) \div 4 = (i + 1) \div 4 /\ i - 1 < i
      BY <1>1, <1>2, <1>6, Positions
    <2>2. QED
      BY <1>1, <1>3, <1>5, <2>1
  <1>7. CASE i % 4 = 1
    <2>1. /\ i - 2 \in 3..4 * n + 2 /\ (i - 2) % 4 = 3
          /\ (i - 2 + 1) \div 4 = (i + 1) \div 4 /\ i - 2 < i
      BY <1>1, <1>2, <1>7, Positions
    <2>2. QED
      BY <1>1, <1>3, <1>5, <2>1
  <1>8. CASE i % 4 = 2
    <2>1. /\ i - 3 \in 3..4 * n + 2 /\ (i - 3) % 4 = 3
          /\ (i - 3 + 1) \div 4 = (i + 1) \div 4 /\ i - 3 < i
      BY <1>1, <1>2, <1>8, Positions
    <2>2. QED
      BY <1>1, <1>3, <1>5, <2>1
  <1>9. Work[i] = Directory(d) \/ \E j \in 1..i - 1 : Work[j] = Directory(d)
    BY <1>2, <1>4, <1>6, <1>7, <1>8
  <1>10. QED
    BY <1>1, <1>3, <1>9

\* Every object but the root is created in its turn, after the directory that
\* holds it, and the inventory is the last.
LEMMA WorkOrder ==
    ASSUME NEW i \in 1..Total
    PROVE  /\ Work[i] \in Objects \ {Root}
           /\ Work[i] = Inventory <=> i = Total
           /\ IsDirectory(Parent(Work[i]))
           /\ Parent(Work[i]) = Root \/ \E j \in 1..i - 1 : Work[j] = Parent(Work[i])
           /\ Work[i][1] = "record" => Work[i][2] \in Headsets
  <1>1. Work[i] \in Objects
    BY WorkIs DEF Objects, ToSet
  <1>2. CASE i \in {1, 2, Total}
    <2>1. Work[i] \in {Hub, DeviceRoot, Inventory} /\ (Work[i] = Inventory <=> i = Total)
      BY <1>2, WorkIs, Kinds
    <2>2. Parent(Work[i]) = Root
      BY <2>1 DEF Parent
    <2>3. QED
      BY <1>1, <2>1, <2>2, Kinds DEF IsDirectory
  <1>3. CASE i = Total - 1
    <2>1. Work[i] = Config /\ i # Total /\ 1 \in 1..i - 1
      BY <1>3, WorkIs
    <2>2. Parent(Work[i]) = Hub
      BY <2>1, Kinds DEF Parent
    <2>3. QED
      BY <1>1, <2>1, <2>2, WorkIs, Kinds DEF IsDirectory
  <1>4. CASE i \in 3..4 * Len(Devices) + 2
    <2>. DEFINE d == Devices[(i + 1) \div 4]
    <2>1. /\ d \in Headsets /\ Work[i] \in {Directory(d), Seed(d), Record(d), Profile(d)}
          /\ Work[i] = Directory(d) \/ \E j \in 1..i - 1 : Work[j] = Directory(d)
      BY <1>4, HeadsetObjects
    <2>2. i # Total /\ 2 \in 1..i - 1
      BY <1>4, WorkIs
    <2>. HIDE DEF d
    <2>3. /\ Work[i] \notin {Root, Hub, DeviceRoot, Inventory, Config}
          /\ Work[i][2] = d
      BY <2>1, Kinds
    <2>4. Parent(Work[i]) = IF Work[i] = Directory(d) THEN DeviceRoot ELSE Directory(d)
      BY <2>1, <2>3, Kinds DEF Parent
    <2>5. \E j \in 1..i - 1 : Work[j] = Parent(Work[i])
      BY <2>1, <2>2, <2>4, WorkIs
    <2>6. IsDirectory(Parent(Work[i]))
      BY <2>4, Kinds DEF IsDirectory
    <2>7. QED
      BY <1>1, <2>1, <2>2, <2>3, <2>5, <2>6
  <1>5. i \in {1, 2, Total} \/ i = Total - 1 \/ i \in 3..4 * Len(Devices) + 2
    <2>1. \A n \in Nat : \A j \in 1..4 * n + 4 :
             j \in {1, 2, 4 * n + 4} \/ j = 4 * n + 4 - 1 \/ j \in 3..4 * n + 2
      OBVIOUS
    <2>2. Len(Devices) \in Nat /\ Total = 4 * Len(Devices) + 4
      BY WorkIs
    <2>3. QED
      BY <2>1, <2>2
  <1>6. QED
    BY <1>2, <1>3, <1>4, <1>5

\* The objects, and what every step relies on about them.
LEMMA ObjectFacts ==
    /\ Root \in Objects /\ Inventory \in Objects /\ Root # Inventory
    /\ IsDirectory(Root) /\ ~IsDirectory(Inventory) /\ Parent(Inventory) = Root
    /\ \A o \in Objects : o = Root \/ \E i \in 1..Total : Work[i] = o
    /\ \A o \in Objects \ {Root} : Parent(o) \in Objects /\ IsDirectory(Parent(o))
    /\ \A d \in Headsets :
          /\ Seed(d) \in Objects \ {Root}
          /\ \E i \in 1..Total : Work[i] = Record(d)
  <1>1. \A o \in Objects : o = Root \/ \E i \in 1..Total : Work[i] = o
    BY WorkIs DEF Objects, ToSet
  <1>2. /\ Root \in Objects /\ Inventory \in Objects /\ Root # Inventory
        /\ IsDirectory(Root) /\ ~IsDirectory(Inventory) /\ Parent(Inventory) = Root
    <2>1. Total \in 1..Total
      BY WorkIs
    <2>2. Inventory \in Objects
      BY <2>1, WorkIs, WorkOrder
    <2>3. QED
      BY <2>2, Kinds DEF Objects, IsDirectory, Parent
  <1>3. ASSUME NEW o \in Objects \ {Root}
        PROVE  Parent(o) \in Objects /\ IsDirectory(Parent(o))
    <2>1. PICK i \in 1..Total : Work[i] = o
      BY <1>1
    <2>2. /\ IsDirectory(Parent(o))
          /\ Parent(o) = Root \/ \E j \in 1..i - 1 : Work[j] = Parent(o)
      BY <2>1, WorkOrder
    <2>3. 1..i - 1 \subseteq 1..Total
      BY WorkIs
    <2>4. QED
      BY <1>2, <2>2, <2>3, WorkOrder
  <1>4. ASSUME NEW d \in Headsets
        PROVE  /\ Seed(d) \in Objects \ {Root}
               /\ \E i \in 1..Total : Work[i] = Record(d)
    <2>1. PICK k \in 1..Len(Devices) : Devices[k] = d
      BY WorkIs
    <2>2. /\ 4 * k \in 3..4 * Len(Devices) + 2 /\ (4 * k) % 4 = 0
          /\ (4 * k + 1) \div 4 = k
          /\ 4 * k + 1 \in 3..4 * Len(Devices) + 2 /\ (4 * k + 1) % 4 = 1
          /\ (4 * k + 1 + 1) \div 4 = k
      <3>1. Len(Devices) \in Nat /\ k \in Nat
        BY WorkIs
      <3>2. 4 * k + 1 + 1 = 4 * k + 2
        BY <3>1
      <3>3. QED
        BY <3>1, <3>2, Positions
    <2>3. Work[4 * k] = OfHeadset(d, 4 * k) /\ Work[4 * k + 1] = OfHeadset(d, 4 * k + 1)
      BY <2>1, <2>2, WorkIs
    <2>4. Work[4 * k] = Seed(d) /\ Work[4 * k + 1] = Record(d)
      BY <2>2, <2>3 DEF OfHeadset
    <2>5. 4 * k \in 1..Total /\ 4 * k + 1 \in 1..Total
      <3>1. \A n \in Nat : \A j \in 3..4 * n + 2 : j \in 1..4 * n + 4
        OBVIOUS
      <3>2. Len(Devices) \in Nat /\ Total = 4 * Len(Devices) + 4
        BY WorkIs
      <3>3. QED
        BY <2>2, <3>1, <3>2
    <2>6. QED
      BY <2>4, <2>5, WorkOrder, Kinds
  <1>5. QED
    BY <1>1, <1>2, <1>3, <1>4

\* A rollback takes the inventory first.
LEMMA InventoryFirst ==
    ASSUME command = "rollback", NEW o \in handles, IsNext(o), Inventory \in handles
    PROVE  o = Inventory
  <1>1. Height(Inventory) = 7 /\ Height(Inventory) <= Height(o)
    BY DEF IsNext, Height
  <1>2. o # Inventory => Height(o) \in 1..6
    BY DEF Height
  <1>3. QED
    BY <1>1, <1>2

-----------------------------------------------------------------------------
(* The inductive invariant of the onboarding.                                *)

\* The key tool between two of its calls, beside what holds during a call.
Between ==
    pc = "idle" /\ root = "none" /\ tree = "none" /\ runner \in AllRunners
CallInv == IInv \/ Between

OnboardingTypes ==
    /\ command \in {"none", "apply", "rollback", "cleanup"}
    /\ step \in 0..Total
    /\ disk \in [Objects -> {"absent", "ours", "torn", "foreign"}]
    /\ handles \subseteq Objects /\ extras \subseteq Objects
    /\ keys \in [Headsets -> Keys \cup {None}]
    /\ missed \in BOOLEAN
    /\ bundle \in Nat /\ shown \in 0..bundle /\ foreign \in Nat

\* What exists is in a directory that exists: nothing deletes a directory that is
\* not empty.
Tree == \A o \in Objects \ {Root} : Exists(o) => Exists(Parent(o))

\* What a command holds open is its own, and only a command holds anything.
HandlesAreOurs ==
    /\ \A o \in handles : disk[o] = "ours"
    /\ command = "none" => handles = {}
    /\ command # "none" => result = "running"
    /\ command = "cleanup" => shown = bundle

\* An apply holds all that exists, what it has created so far is there and nothing
\* else, and each record was written with its key.
Applying ==
    command = "apply" =>
        /\ Root \in handles
        /\ \A o \in Objects : Exists(o) => o \in handles
        /\ \A i \in 1..step : /\ Work[i] \in handles
                              /\ Work[i][1] = "record" => keys[Work[i][2]] # None
        /\ \A i \in step + 1..Total : Work[i] \notin handles

\* The key tool is called by an apply, before the record of a headset that has no
\* key.
Calling ==
    /\ command = "apply" /\ pc # "idle" =>
          step < Total /\ NextObject[1] = "record" /\ keys[Owner] = None
    /\ command # "apply" /\ runner = "key_tool" => pc = "idle"

\* What a rollback has not noted as missed it still holds, or the directory around
\* it.
RollingBack ==
    command = "rollback" /\ ~missed =>
        \A o \in Objects \ {Root} : Exists(o) => o \in handles \/ Parent(o) \in handles

KeysDiffer == \A d, e \in Headsets : d # e => keys[d] # keys[e] \/ keys[d] = None

\* While the inventory means something, and a rollback has not got to it.
CommitMarker ==
    disk[Inventory] = "ours" /\ shown # bundle /\ foreign = 0 /\ ~missed =>
        /\ \A o \in Objects : disk[o] = "ours"
        /\ \A d \in Headsets : keys[d] # None
        /\ command = "rollback" => Inventory \in handles

BundleInv ==
    /\ OnboardingTypes /\ Tree /\ HandlesAreOurs /\ Applying /\ Calling
    /\ RollingBack /\ KeysDiffer /\ CommitMarker /\ ResultsAreHonest

\* The invariant the properties follow from.
OnboardingInv == CallInv /\ BundleInv

\* A step of a call keeps what holds of the call; between two calls there is none.
LEMMA CallKeeps ==
    ASSUME CallInv, [Next]_vars
    PROVE  CallInv' /\ (pc = "idle" => UNCHANGED vars)
  <1>1. CASE IInv
    <2>1. pc # "idle"
      BY <1>1 DEF IInv, TypeOK
    <2>2. QED
      BY <1>1, <2>1, NextKeeps DEF CallInv
  <1>2. CASE Between /\ Next
    <2>1. ~Program
      BY <1>2 DEF Between, Program, Writes, Held, Forks, Exits, DescendantsEnd
    <2>2. ~Readers
      BY <1>2 DEF Between, Readers, DrainEnds, DrainIsFull, DrainOverflows, DrainFails, Sends
    <2>3. ~Starting
      BY <1>2 DEF Between, Starting, ConnectivityVerifies, ConnectivityStages,
                  ConnectivityStarts, AwakeVerifies, AwakeStages, AwakeStarts,
                  HotspotVerifies, HotspotStages, HotspotStarts, KioskVerifies,
                  KioskStages, KioskStarts, KeyToolStarts, Verifies, Stages, Starts,
                  Beginning
    <2>4. ~Receiving
      BY <1>2 DEF Between, Receiving, ConnectivityReceives, ConnectivityDrains,
                  AwakeReceives, AwakeDrains, HotspotReceives, HotspotDrains,
                  KioskReceives, Loop, After
    <2>5. ~Deciding /\ ~WaitFails
      BY <1>2 DEF Between, Deciding, WaitFails, ConnectivityLooks, AwakeLooks,
                  HotspotLooks, KioskLooks, AwakeJudges, KeyToolFinishes,
                  ConnectivityJudges, HotspotJudges, HotspotGivesUp, KeyToolChecks,
                  Loop, After
    <2>6. ~Ending /\ ~Deadline /\ ~GracePasses
      BY <1>2 DEF Between, Ending, CleansUp, KioskAnswers, KioskDrops, Deadline, GracePasses
    <2>7. QED
      BY <1>2, <2>1, <2>2, <2>3, <2>4, <2>5, <2>6 DEF Next
  <1>3. CASE Between /\ UNCHANGED vars
    BY <1>3 DEF Between, vars, process, streams, CallInv
  <1>4. QED
    BY <1>1, <1>2, <1>3 DEF CallInv

\* A call keeps its runner.
LEMMA RunnerStays ==
    ASSUME [Next]_vars
    PROVE  runner' = runner
  <1>. USE DEF Environment, Caller, Beginning, Sends
  <1>1. CASE Program
    BY <1>1 DEF Program, Writes, Forks, Exits, DescendantsEnd
  <1>2. CASE Readers
    BY <1>2 DEF Readers, DrainEnds, DrainIsFull, DrainOverflows, DrainFails
  <1>3. CASE Starting
    BY <1>3 DEF Starting, ConnectivityVerifies, ConnectivityStages, ConnectivityStarts,
                AwakeVerifies, AwakeStages, AwakeStarts, HotspotVerifies, HotspotStages,
                HotspotStarts, KioskVerifies, KioskStages, KioskStarts, KeyToolStarts,
                Verifies, Stages, Starts
  <1>4. CASE Receiving
    BY <1>4 DEF Receiving, ConnectivityReceives, ConnectivityDrains, AwakeReceives,
                AwakeDrains, HotspotReceives, HotspotDrains, KioskReceives
  <1>5. CASE Deciding \/ WaitFails
    BY <1>5 DEF Deciding, WaitFails, ConnectivityLooks, AwakeLooks, HotspotLooks,
                KioskLooks, AwakeJudges, KeyToolFinishes, ConnectivityJudges,
                HotspotJudges, HotspotGivesUp, KeyToolChecks
  <1>6. CASE Ending \/ Deadline \/ GracePasses
    BY <1>6 DEF Ending, CleansUp, KioskAnswers, KioskDrops, Deadline, GracePasses
  <1>7. CASE UNCHANGED vars
    BY <1>7 DEF vars
  <1>8. QED
    BY <1>1, <1>2, <1>3, <1>4, <1>5, <1>6, <1>7 DEF Next

\* Before a call everything of the last one is forgotten.
LEMMA FreshCall ==
    ASSUME CallInv, NEW at \in {"start", "idle"}, Fresh(at)
    PROVE  CallInv'
  <1>1. runner \in AllRunners
    BY DEF CallInv, IInv, TypeOK, Between
  <1>2. CASE at = "idle"
    BY <1>1, <1>2 DEF Fresh, CallInv, Between
  <1>3. CASE at = "start"
    <2>1. IInv'
      BY <1>1, <1>3 DEF Fresh, IInv, TypeOK, SentIsWritten, NothingBadTaken, Places,
         SuccessIsWhole, ConcludedIsEnded, Concluding, Before, Adapters, Contained,
         Streams, Read
    <2>2. QED
      BY <2>1 DEF CallInv
  <1>4. QED
    BY <1>2, <1>3

\* A step of the call leaves the bundle alone.
LEMMA CallsStep ==
    ASSUME OnboardingInv, [Calls]_all
    PROVE  OnboardingInv'
  <1>1. CallInv' /\ (pc = "idle" => pc' = pc) /\ UNCHANGED onboarding /\ runner' = runner
    BY CallKeeps, RunnerStays DEF OnboardingInv, Calls, all, vars
  <1>2. UNCHANGED <<command, step, disk, extras, handles, keys, missed, result, bundle,
                    shown, foreign>>
    BY <1>1 DEF onboarding, files
  <1>3. Calling'
    BY <1>1, <1>2 DEF OnboardingInv, BundleInv, Calling, NextObject, Owner
  <1>4. QED
    BY <1>1, <1>2, <1>3
       DEF OnboardingInv, BundleInv, OnboardingTypes, Tree, HandlesAreOurs, Applying,
           RollingBack, KeysDiffer, CommitMarker, ResultsAreHonest, Exists

\* A step that leaves the call alone.
LEMMA CallUntouched ==
    ASSUME OnboardingInv, UNCHANGED vars
    PROVE  CallInv' /\ pc' = pc /\ runner' = runner
  BY CallKeeps DEF OnboardingInv, vars

\* A command that is refused changes nothing but the result.
LEMMA RefusedStep ==
    ASSUME OnboardingInv, Idle, IsRefused
    PROVE  OnboardingInv'
  <1>1. UNCHANGED <<command, step, disk, extras, handles, keys, missed, bundle, shown,
                    foreign>>
        /\ result' = "refused" /\ UNCHANGED vars /\ command = "none"
    BY DEF IsRefused, Idle, files, Stays
  <1>2. CallInv' /\ pc' = pc /\ runner' = runner
    BY <1>1, CallUntouched
  <1>3. QED
    BY <1>1, <1>2
       DEF OnboardingInv, BundleInv, OnboardingTypes, Tree, HandlesAreOurs, Applying,
           Calling, RollingBack, KeysDiffer, CommitMarker, ResultsAreHonest, Exists

\* No object is created twice.
LEMMA WorkOnce ==
    ASSUME NEW i \in 1..Total, NEW j \in 1..Total, Work[i] = Work[j]
    PROVE  i = j
  <1>. DEFINE n == Len(Devices)
              Of(k) == Devices[(k + 1) \div 4]
  <1>1. n \in Nat /\ Total = 4 * n + 4
    BY WorkIs
  <1>2. \A k \in 1..Total : k \in {1, 2, Total - 1, Total} \/ k \in 3..4 * n + 2
    <2>1. \A m \in Nat : \A k \in 1..4 * m + 4 :
             k \in {1, 2, 4 * m + 4 - 1, 4 * m + 4} \/ k \in 3..4 * m + 2
      OBVIOUS
    <2>2. QED
      BY <1>1, <2>1
  <1>3. ASSUME NEW k \in 3..4 * n + 2
        PROVE  /\ Work[k][2] = Of(k)
               /\ k % 4 = 3 => Work[k][1] = "device"
               /\ k % 4 = 0 => Work[k][1] = "seed"
               /\ k % 4 = 1 => Work[k][1] = "record"
               /\ k % 4 = 2 => Work[k][1] = "profile"
               /\ k % 4 \in 0..3 /\ (k + 1) \div 4 \in 1..n
    <2>1. Work[k] = OfHeadset(Of(k), k)
      BY <1>3, WorkIs
    <2>2. k % 4 \in 0..3 /\ (k + 1) \div 4 \in 1..n
      BY <1>1, <1>3, Positions
    <2>. HIDE DEF Of
    <2>3. QED
      BY <2>1, <2>2, Kinds DEF OfHeadset, Seed, Record, Profile, Directory
  <1>4. CASE i \in 3..4 * n + 2 /\ j \in 3..4 * n + 2
    <2>1. i % 4 = j % 4 /\ Of(i) = Of(j)
      <3>. HIDE DEF Of
      <3>1. /\ Work[i][2] = Of(i) /\ Work[j][2] = Of(j)
            /\ i % 4 \in {0, 1, 2, 3} /\ j % 4 \in {0, 1, 2, 3}
        BY <1>3, <1>4
      <3>2. /\ i % 4 = 3 => Work[i][1] = "device"
            /\ i % 4 = 0 => Work[i][1] = "seed"
            /\ i % 4 = 1 => Work[i][1] = "record"
            /\ i % 4 = 2 => Work[i][1] = "profile"
        BY <1>3, <1>4
      <3>3. /\ j % 4 = 3 => Work[j][1] = "device"
            /\ j % 4 = 0 => Work[j][1] = "seed"
            /\ j % 4 = 1 => Work[j][1] = "record"
            /\ j % 4 = 2 => Work[j][1] = "profile"
        BY <1>3, <1>4
      <3>4. QED
        BY <3>1, <3>2, <3>3
    <2>2. (i + 1) \div 4 = (j + 1) \div 4
      <3>1. (i + 1) \div 4 \in 1..n /\ (j + 1) \div 4 \in 1..n
        BY <1>3, <1>4
      <3>2. DOMAIN Devices = 1..n
        BY RequestAssumption
      <3>3. QED
        BY <2>1, <3>1, <3>2, RequestAssumption DEF IsInjective
    <2>3. \A a, b \in Nat : a % 4 = b % 4 /\ (a + 1) \div 4 = (b + 1) \div 4 => a = b
      OBVIOUS
    <2>4. i \in Nat /\ j \in Nat
      BY <1>1
    <2>5. QED
      BY <2>1, <2>2, <2>3, <2>4
  <1>5. ASSUME NEW k \in 1..Total
        PROVE  /\ k = 1 <=> Work[k][1] = "hub"
               /\ k = 2 <=> Work[k][1] = "devices"
               /\ k = Total - 1 <=> Work[k][1] = "config"
               /\ k = Total <=> Work[k][1] = "inventory"
    <2>1. CASE k \in {1, 2, Total - 1, Total}
      BY <1>1, <2>1, WorkIs, Kinds
    <2>2. CASE k \in 3..4 * n + 2
      <3>1. Work[k][1] \in {"device", "seed", "record", "profile"}
        BY <1>3, <2>2
      <3>2. k \notin {1, 2, Total - 1, Total}
        BY <1>1, <2>2
      <3>3. QED
        BY <3>1, <3>2
    <2>3. QED
      BY <1>2, <2>1, <2>2
  <1>6. CASE ~(i \in 3..4 * n + 2 /\ j \in 3..4 * n + 2)
    <2>1. i \in {1, 2, Total - 1, Total} \/ j \in {1, 2, Total - 1, Total}
      BY <1>2, <1>6
    <2>2. Work[i][1] = Work[j][1]
      OBVIOUS
    <2>3. QED
      BY <1>1, <1>5, <2>1, <2>2
  <1>7. QED
    BY <1>4, <1>6

\* The object next to be created, while an apply generates.
LEMMA NextIs ==
    ASSUME step \in 0..Total, step < Total
    PROVE  /\ step + 1 \in 1..Total /\ NextObject \in Objects \ {Root}
           /\ NextObject = Inventory <=> step + 1 = Total
           /\ IsDirectory(Parent(NextObject))
           /\ Parent(NextObject) = Root \/ \E j \in 1..step : Work[j] = Parent(NextObject)
           /\ NextObject[1] = "record" => Owner \in Headsets
           /\ \A i \in 1..Total : Work[i] = NextObject => i = step + 1
  <1>1. step + 1 \in 1..Total /\ (step + 1) - 1 = step
    BY WorkIs
  <1>2. QED
    BY <1>1, WorkOrder, WorkOnce DEF NextObject, Owner

\* What is not the root is at most three directories below it.
LEMMA Levels ==
    ASSUME NEW o \in Objects \ {Root}
    PROVE  LET Up(p) == p = Root \/ (p \in Objects \ {Root} /\ Parent(p) = Root)
           IN  Up(Parent(o)) \/ (Parent(o) \in Objects \ {Root} /\ Up(Parent(Parent(o))))
  <1>1. PICK i \in 1..Total : Work[i] = o
    BY ObjectFacts
  <1>2. /\ Hub \in Objects \ {Root} /\ DeviceRoot \in Objects \ {Root}
        /\ Parent(Hub) = Root /\ Parent(DeviceRoot) = Root
    <2>1. 1 \in 1..Total /\ 2 \in 1..Total
      BY WorkIs
    <2>2. QED
      BY <2>1, WorkIs, WorkOrder DEF Parent
  <1>3. Parent(o) \in {Root, Hub, DeviceRoot}
        \/ \E d \in Headsets : Parent(o) = Directory(d) /\ Directory(d) \in Objects \ {Root}
    <2>1. CASE i \in {1, 2, Total}
      BY <1>1, <2>1, WorkIs DEF Parent
    <2>2. CASE i = Total - 1
      BY <1>1, <2>2, WorkIs, Kinds DEF Parent
    <2>3. CASE i \in 3..4 * Len(Devices) + 2
      <3>. DEFINE d == Devices[(i + 1) \div 4]
      <3>1. /\ d \in Headsets /\ o \in {Directory(d), Seed(d), Record(d), Profile(d)}
            /\ o = Directory(d) \/ \E j \in 1..i - 1 : Work[j] = Directory(d)
        BY <1>1, <2>3, HeadsetObjects
      <3>. HIDE DEF d
      <3>2. o \notin {Hub, DeviceRoot, Inventory, Config} /\ o[2] = d
        BY <3>1, Kinds
      <3>3. CASE o = Directory(d)
        BY <3>2, <3>3, Kinds DEF Parent
      <3>4. CASE o # Directory(d)
        <4>1. Parent(o) = Directory(d)
          BY <3>1, <3>2, <3>4, Kinds DEF Parent
        <4>2. PICK j \in 1..i - 1 : Work[j] = Directory(d)
          BY <3>1, <3>4
        <4>3. j \in 1..Total
          BY WorkIs
        <4>4. QED
          BY <3>1, <4>1, <4>2, <4>3, WorkOrder
      <3>5. QED
        BY <3>3, <3>4
    <2>4. i \in {1, 2, Total} \/ i = Total - 1 \/ i \in 3..4 * Len(Devices) + 2
      <3>1. \A n \in Nat : \A j \in 1..4 * n + 4 :
               j \in {1, 2, 4 * n + 4} \/ j = 4 * n + 4 - 1 \/ j \in 3..4 * n + 2
        OBVIOUS
      <3>2. Len(Devices) \in Nat /\ Total = 4 * Len(Devices) + 4
        BY WorkIs
      <3>3. QED
        BY <3>1, <3>2
    <2>5. QED
      BY <2>1, <2>2, <2>3, <2>4
  <1>4. ASSUME NEW d \in Headsets
        PROVE  Parent(Directory(d)) = DeviceRoot
    BY Kinds DEF Parent
  <1>5. QED
    BY <1>2, <1>3, <1>4

\* Where nothing is directly in the root, nothing is in the bundle at all.
LEMMA NothingInRoot ==
    ASSUME Tree, \A p \in Objects \ {Root} : Exists(p) => Parent(p) # Root
    PROVE  \A o \in Objects \ {Root} : ~Exists(o)
  <1>1. ASSUME NEW o \in Objects \ {Root}, Exists(o)
        PROVE  FALSE
    <2>1. \A p \in Objects \ {Root} : Exists(p) => Exists(Parent(p)) /\ Parent(p) # Root
      BY DEF Tree
    <2>2. QED
      BY <1>1, <2>1, Levels
  <1>2. QED
    BY <1>1

\* Where the root does not exist, nothing does.
LEMMA NothingWithoutRoot ==
    ASSUME Tree, ~Exists(Root)
    PROVE  \A o \in Objects : disk[o] = "absent"
  <1>1. \A p \in Objects \ {Root} : Exists(p) => Parent(p) # Root
    BY DEF Tree
  <1>2. QED
    BY <1>1, NothingInRoot DEF Exists

-----------------------------------------------------------------------------
(* An apply.                                                                 *)

\* A bundle is begun where there was none.
LEMMA BeginsStep ==
    ASSUME OnboardingInv, ApplyBegins
    PROVE  OnboardingInv'
  <1>1. /\ UNCHANGED vars /\ UNCHANGED <<extras, shown, foreign>>
        /\ command = "none" /\ runner = "key_tool" /\ ~Exists(Root)
        /\ command' = "apply" /\ step' = 0 /\ bundle' = bundle + 1 /\ handles' = {Root}
        /\ disk' = [disk EXCEPT ![Root] = "ours"]
        /\ keys' = [d \in Headsets |-> None] /\ missed' = FALSE /\ result' = "running"
    BY DEF ApplyBegins, MayCreate, Idle
  <1>2. CallInv' /\ pc' = pc /\ runner' = runner /\ pc = "idle"
    BY <1>1, CallUntouched DEF OnboardingInv, BundleInv, Calling
  <1>3. \A o \in Objects : disk[o] = "absent"
    BY <1>1, NothingWithoutRoot DEF OnboardingInv, BundleInv
  <1>4. OnboardingTypes'
    <2>1. /\ disk \in [Objects -> {"absent", "ours", "torn", "foreign"}]
          /\ extras \subseteq Objects /\ bundle \in Nat /\ shown \in 0..bundle /\ foreign \in Nat
      BY DEF OnboardingInv, BundleInv, OnboardingTypes
    <2>2. /\ disk' \in [Objects -> {"absent", "ours", "torn", "foreign"}]
          /\ keys' \in [Headsets -> Keys \cup {None}] /\ handles' \subseteq Objects
      BY <1>1, <2>1, ObjectFacts
    <2>3. bundle' \in Nat /\ shown' \in 0..bundle' /\ step' \in 0..Total
      BY <1>1, <2>1, WorkIs
    <2>4. QED
      BY <1>1, <2>1, <2>2, <2>3 DEF OnboardingTypes
  <1>5. /\ disk'[Root] = "ours" /\ \A o \in Objects \ {Root} : disk'[o] = "absent"
    BY <1>1, <1>3, ObjectFacts DEF OnboardingInv, BundleInv, OnboardingTypes
  <1>6. Tree' /\ HandlesAreOurs' /\ ResultsAreHonest' /\ CommitMarker' /\ KeysDiffer'
    BY <1>1, <1>5, ObjectFacts DEF Tree, HandlesAreOurs, ResultsAreHonest, CommitMarker,
                                   KeysDiffer, Exists
  <1>7. Applying'
    <2>1. \A i \in 1..Total : Work[i] # Root
      BY WorkOrder
    <2>2. Total \in Nat
      BY WorkIs
    <2>3. QED
      BY <1>1, <1>5, <2>1, <2>2 DEF Applying, Exists
  <1>8. Calling' /\ RollingBack'
    BY <1>1, <1>2 DEF Calling, RollingBack
  <1>9. QED
    BY <1>2, <1>4, <1>6, <1>7, <1>8 DEF OnboardingInv, BundleInv

\* An apply that cannot go on with the root it has created leaves it behind.
LEMMA LeavesARootStep ==
    ASSUME OnboardingInv, NEW how \in {"partial", "failed"}, ApplyLeavesARoot(how)
    PROVE  OnboardingInv'
  <1>1. /\ UNCHANGED vars /\ UNCHANGED <<command, step, extras, handles, keys, missed,
                                         shown, foreign>>
        /\ command = "none" /\ ~Exists(Root) /\ bundle' = bundle + 1 /\ result' = how
        /\ disk' = [disk EXCEPT ![Root] = "torn"]
    BY DEF ApplyLeavesARoot, MayCreate, Idle
  <1>2. CallInv' /\ pc' = pc /\ runner' = runner
    BY <1>1, CallUntouched
  <1>3. \A o \in Objects : disk[o] = "absent"
    BY <1>1, NothingWithoutRoot DEF OnboardingInv, BundleInv
  <1>4. OnboardingTypes'
    <2>1. /\ disk \in [Objects -> {"absent", "ours", "torn", "foreign"}]
          /\ bundle \in Nat /\ shown \in 0..bundle
      BY DEF OnboardingInv, BundleInv, OnboardingTypes
    <2>2. disk' \in [Objects -> {"absent", "ours", "torn", "foreign"}]
      BY <1>1, <2>1
    <2>3. bundle' \in Nat /\ shown' \in 0..bundle'
      BY <1>1, <2>1
    <2>4. QED
      BY <1>1, <2>2, <2>3 DEF OnboardingInv, BundleInv, OnboardingTypes
  <1>5. /\ disk'[Root] = "torn" /\ \A o \in Objects \ {Root} : disk'[o] = "absent"
    BY <1>1, <1>3, ObjectFacts DEF OnboardingInv, BundleInv, OnboardingTypes
  <1>6. Tree' /\ HandlesAreOurs' /\ CommitMarker' /\ KeysDiffer'
    BY <1>1, <1>5, ObjectFacts DEF OnboardingInv, BundleInv, Tree, HandlesAreOurs,
                                   CommitMarker, KeysDiffer, Exists
  <1>7. ResultsAreHonest'
    BY <1>1, <1>5, ObjectFacts DEF ResultsAreHonest, Exists
  <1>8. Calling' /\ RollingBack' /\ Applying'
    BY <1>1, <1>2 DEF OnboardingInv, BundleInv, Calling, RollingBack, Applying
  <1>9. QED
    BY <1>2, <1>4, <1>6, <1>7, <1>8 DEF OnboardingInv, BundleInv

\* A file or a directory of the bundle is created and registered.
LEMMA CreatesStep ==
    ASSUME OnboardingInv, Generating, CreatesObject(NextObject),
           NextObject[1] = "record" => keys[NextObject[2]] # None
    PROVE  OnboardingInv'
  <1>. DEFINE o == NextObject
  <1>1. /\ UNCHANGED vars /\ UNCHANGED <<command, extras, keys, missed, result, bundle,
                                         shown, foreign>>
        /\ command = "apply" /\ step < Total /\ pc = "idle"
        /\ disk' = [disk EXCEPT ![o] = "ours"] /\ handles' = handles \cup {o}
        /\ step' = step + 1
    BY WorkIs DEF CreatesObject, Generating, Stays
  <1>2. CallInv' /\ pc' = pc /\ runner' = runner
    BY <1>1, CallUntouched
  <1>3. OnboardingTypes /\ Tree /\ HandlesAreOurs /\ Applying /\ KeysDiffer
    BY DEF OnboardingInv, BundleInv
  <1>4. step \in 0..Total /\ Total \in Nat
    BY <1>3, WorkIs DEF OnboardingTypes
  <1>5. /\ step + 1 \in 1..Total /\ o \in Objects \ {Root} /\ (o = Inventory <=> step + 1 = Total)
        /\ Parent(o) = Root \/ \E j \in 1..step : Work[j] = Parent(o)
        /\ \A i \in 1..Total : Work[i] = o => i = step + 1
        /\ Work[step + 1] = o
    BY <1>1, <1>4, NextIs DEF NextObject
  <1>. HIDE DEF o
  <1>6. OnboardingTypes'
    BY <1>1, <1>3, <1>4, <1>5 DEF OnboardingTypes
  <1>7. /\ disk'[o] = "ours" /\ \A p \in Objects \ {o} : disk'[p] = disk[p]
    BY <1>1, <1>3, <1>5 DEF OnboardingTypes
  <1>8. Tree'
    <2>1. Parent(o) \in handles /\ disk[Parent(o)] = "ours"
      BY <1>1, <1>3, <1>5 DEF Applying, HandlesAreOurs
    <2>2. Parent(o) \in Objects /\ disk'[Parent(o)] # "absent"
      BY <1>3, <1>7, <2>1 DEF OnboardingTypes
    <2>3. \A p \in Objects : disk[p] # "absent" => disk'[p] # "absent"
      BY <1>7
    <2>4. ASSUME NEW p \in Objects \ {Root}, disk'[p] # "absent"
          PROVE  disk'[Parent(p)] # "absent"
      <3>1. CASE p = o
        BY <2>2, <3>1
      <3>2. CASE p # o
        <4>1. disk[p] # "absent" /\ Parent(p) \in Objects
          BY <1>7, <2>4, <3>2, ObjectFacts
        <4>2. QED
          BY <1>3, <2>3, <4>1 DEF Tree, Exists
      <3>3. QED
        BY <3>1, <3>2
    <2>5. QED
      BY <2>4 DEF Tree, Exists
  <1>9. HandlesAreOurs'
    BY <1>1, <1>3, <1>7 DEF HandlesAreOurs, OnboardingTypes
  <1>10. Applying'
    <2>1. Root \in handles' /\ \A p \in Objects : Exists(p)' => p \in handles'
      BY <1>1, <1>3, <1>7 DEF Applying, Exists
    <2>2. ASSUME NEW i \in 1..step + 1
          PROVE  /\ Work[i] \in handles'
                 /\ Work[i][1] = "record" => keys[Work[i][2]] # None
      <3>1. CASE i = step + 1
        BY <1>1, <1>5, <3>1 DEF o
      <3>2. CASE i \in 1..step
        BY <1>1, <1>3, <3>2 DEF Applying
      <3>3. QED
        BY <1>4, <3>1, <3>2
    <2>3. ASSUME NEW i \in step + 2..Total
          PROVE  Work[i] \notin handles'
      <3>1. i \in step + 1..Total /\ i \in 1..Total /\ i # step + 1
        BY <1>4
      <3>2. QED
        BY <1>1, <1>3, <1>5, <3>1 DEF Applying
    <2>4. (step + 1) + 1 = step + 2
      BY <1>4
    <2>5. QED
      BY <1>1, <2>1, <2>2, <2>3, <2>4 DEF Applying
  <1>11. CommitMarker'
    <2>1. CASE step + 1 < Total
      <3>1. Inventory # o /\ Inventory \notin handles
        <4>1. Total \in step + 1..Total
          BY <1>4, <2>1
        <4>2. QED
          BY <1>1, <1>3, <1>5, <2>1, <4>1, WorkIs DEF Applying
      <3>2. disk'[Inventory] # "ours"
        BY <1>1, <1>3, <1>7, <3>1, ObjectFacts DEF Applying, Exists
      <3>3. QED
        BY <3>2 DEF CommitMarker
    <2>2. CASE step + 1 = Total
      <3>1. \A i \in 1..Total : /\ Work[i] \in handles'
                                /\ Work[i][1] = "record" => keys'[Work[i][2]] # None
        BY <1>1, <1>10, <2>2 DEF Applying
      <3>2. \A p \in Objects : p \in handles'
        BY <1>1, <1>10, <3>1, ObjectFacts DEF Applying
      <3>3. \A d \in Headsets : keys'[d] # None
        BY <3>1, ObjectFacts, Kinds
      <3>4. QED
        BY <1>1, <1>9, <3>2, <3>3 DEF HandlesAreOurs, CommitMarker
    <2>3. QED
      BY <1>4, <1>5, <2>1, <2>2
  <1>12. Calling' /\ RollingBack' /\ KeysDiffer' /\ ResultsAreHonest'
    BY <1>1, <1>2, <1>3 DEF Calling, RollingBack, KeysDiffer, ResultsAreHonest, HandlesAreOurs
  <1>13. QED
    BY <1>2, <1>6, <1>8, <1>9, <1>10, <1>11, <1>12 DEF OnboardingInv, BundleInv

\* An object could not be created, or was not completed.
LEMMA CreateFailsStep ==
    ASSUME OnboardingInv, NEW left \in {"absent", "torn"}, CreateFails(left)
    PROVE  OnboardingInv'
  <1>. DEFINE o == NextObject
  <1>1. /\ UNCHANGED vars /\ UNCHANGED <<step, extras, handles, keys, missed, result, bundle,
                                         shown, foreign>>
        /\ command = "apply" /\ step < Total /\ pc = "idle" /\ command' = "rollback"
        /\ disk' = [disk EXCEPT ![o] = left]
    BY WorkIs DEF CreateFails, Generating, RollsBack, Stays
  <1>2. CallInv' /\ pc' = pc /\ runner' = runner
    BY <1>1, CallUntouched
  <1>3. OnboardingTypes /\ Tree /\ HandlesAreOurs /\ Applying /\ KeysDiffer
    BY DEF OnboardingInv, BundleInv
  <1>4. step \in 0..Total /\ Total \in Nat
    BY <1>3, WorkIs DEF OnboardingTypes
  <1>5. /\ o \in Objects \ {Root}
        /\ Parent(o) = Root \/ \E j \in 1..step : Work[j] = Parent(o)
        /\ Work[step + 1] = o /\ step + 1 \in step + 1..Total
    BY <1>1, <1>4, NextIs DEF NextObject
  <1>. HIDE DEF o
  <1>6. OnboardingTypes'
    BY <1>1, <1>3, <1>5 DEF OnboardingTypes
  <1>7. /\ disk'[o] = left /\ \A p \in Objects \ {o} : disk'[p] = disk[p]
    BY <1>1, <1>3, <1>5 DEF OnboardingTypes
  <1>8. Parent(o) \in handles /\ disk[Parent(o)] = "ours"
    BY <1>3, <1>1, <1>5 DEF Applying, HandlesAreOurs
  <1>9. o \notin handles /\ disk[o] = "absent"
    BY <1>1, <1>3, <1>5 DEF Applying, Exists
  <1>10. Inventory \notin handles /\ disk[Inventory] = "absent"
    <2>1. Total \in step + 1..Total
      BY <1>1, <1>4
    <2>2. QED
      BY <1>1, <1>3, <2>1, WorkIs, ObjectFacts DEF Applying, Exists
  <1>11. Tree'
    <2>1. ASSUME NEW p \in Objects \ {Root}, disk'[p] # "absent"
          PROVE  disk'[Parent(p)] # "absent"
      <3>1. CASE p = o
        <4>1. Parent(o) \in Objects /\ Parent(o) # o
          BY <1>3, <1>8, <1>9 DEF OnboardingTypes
        <4>2. QED
          BY <1>7, <1>8, <3>1, <4>1
      <3>2. CASE p # o
        <4>1. disk[p] # "absent" /\ Parent(p) \in Objects
          BY <1>7, <2>1, <3>2, ObjectFacts
        <4>2. disk[Parent(p)] # "absent"
          BY <1>3, <4>1 DEF Tree, Exists
        <4>3. QED
          BY <1>7, <1>9, <4>1, <4>2
      <3>3. QED
        BY <3>1, <3>2
    <2>2. QED
      BY <2>1 DEF Tree, Exists
  <1>12. HandlesAreOurs'
    BY <1>1, <1>3, <1>7, <1>9 DEF HandlesAreOurs, OnboardingTypes
  <1>13. RollingBack'
    BY <1>1, <1>3, <1>7, <1>8 DEF RollingBack, Applying, Exists
  <1>14. CommitMarker'
    BY <1>7, <1>10, ObjectFacts DEF CommitMarker
  <1>15. Applying' /\ Calling' /\ KeysDiffer' /\ ResultsAreHonest'
    BY <1>1, <1>2, <1>3
       DEF Applying, Calling, KeysDiffer, ResultsAreHonest, HandlesAreOurs
  <1>16. QED
    BY <1>2, <1>6, <1>11, <1>12, <1>13, <1>14, <1>15 DEF OnboardingInv, BundleInv

-----------------------------------------------------------------------------
(* The key tool.                                                             *)

\* A call begins.
LEMMA CallsToolStep ==
    ASSUME OnboardingInv, CallsTool
    PROVE  OnboardingInv'
  <1>1. CallInv'
    BY FreshCall DEF OnboardingInv, CallsTool
  <1>2. UNCHANGED <<command, step, disk, extras, handles, keys, missed, result, bundle,
                    shown, foreign>>
    BY DEF CallsTool, onboarding, files
  <1>3. Calling'
    BY <1>2, WorkIs DEF CallsTool, NeedsKey, Generating, Calling, NextObject, Owner
  <1>4. QED
    BY <1>1, <1>2, <1>3
       DEF OnboardingInv, BundleInv, OnboardingTypes, Tree, HandlesAreOurs, Applying,
           RollingBack, KeysDiffer, CommitMarker, ResultsAreHonest, Exists

\* While the tool is called there is no inventory yet.
LEMMA NoInventoryYet ==
    ASSUME OnboardingTypes, Applying, command = "apply", step < Total
    PROVE  disk[Inventory] = "absent"
  <1>1. Total \in step + 1..Total
    BY WorkIs DEF OnboardingTypes
  <1>2. QED
    BY <1>1, WorkIs, ObjectFacts DEF Applying, Exists

\* The key of a headset is taken, unless another headset has it.
LEMMA TakesKeyStep ==
    ASSUME OnboardingInv, NEW k \in Keys, TakesKey(k)
    PROVE  OnboardingInv'
  <1>1. /\ UNCHANGED <<command, step, disk, extras, handles, missed, result, bundle, shown,
                       foreign>>
        /\ command = "apply" /\ pc = "returned" /\ NewKey(k) /\ pc' = "idle"
        /\ keys' = [keys EXCEPT ![Owner] = k]
    BY DEF TakesKey, ToolReturned, Fresh, Stays, files
  <1>2. CallInv'
    BY FreshCall DEF OnboardingInv, TakesKey
  <1>3. OnboardingTypes /\ Tree /\ HandlesAreOurs /\ Applying /\ KeysDiffer /\ Calling
    BY DEF OnboardingInv, BundleInv
  <1>4. step < Total /\ NextObject[1] = "record" /\ Owner \in Headsets
    BY <1>1, <1>3, NextIs DEF Calling, OnboardingTypes
  <1>5. k # None
    BY RequestAssumption
  <1>6. OnboardingTypes'
    BY <1>1, <1>3 DEF OnboardingTypes
  <1>7. \A d \in Headsets : keys'[d] = IF d = Owner THEN k ELSE keys[d]
    BY <1>1, <1>3 DEF OnboardingTypes
  <1>8. KeysDiffer'
    BY <1>1, <1>3, <1>7 DEF KeysDiffer, NewKey
  <1>9. Applying'
    <2>1. ASSUME NEW i \in 1..step, Work[i][1] = "record"
          PROVE  keys'[Work[i][2]] # None
      <3>1. i \in 1..Total
        BY <1>3, WorkIs DEF OnboardingTypes
      <3>2. Work[i][2] \in Headsets /\ keys[Work[i][2]] # None
        BY <1>1, <1>3, <2>1, <3>1, WorkOrder DEF Applying
      <3>3. QED
        BY <1>5, <1>7, <3>2
    <2>2. QED
      BY <1>1, <1>3, <2>1 DEF Applying, Exists
  <1>10. CommitMarker'
    BY <1>1, <1>3, <1>4, NoInventoryYet DEF CommitMarker
  <1>11. Tree' /\ HandlesAreOurs' /\ RollingBack' /\ Calling' /\ ResultsAreHonest'
    BY <1>1, <1>3
       DEF Tree, HandlesAreOurs, RollingBack, Calling, ResultsAreHonest, Exists
  <1>12. QED
    BY <1>2, <1>6, <1>8, <1>9, <1>10, <1>11 DEF OnboardingInv, BundleInv

-----------------------------------------------------------------------------
(* How a command ends.                                                       *)

\* A rollback begins with all that exists in the hands of the command.
LEMMA RollsBackStep ==
    ASSUME OnboardingInv, command = "apply", RollsBack, CallInv',
           runner' = "key_tool" => pc' = "idle",
           UNCHANGED <<step, disk, extras, handles, keys, missed, result, bundle, shown,
                       foreign>>,
           step < Total \/ Inventory \in handles
    PROVE  OnboardingInv'
  <1>1. OnboardingTypes /\ Tree /\ HandlesAreOurs /\ Applying /\ KeysDiffer /\ CommitMarker
    BY DEF OnboardingInv, BundleInv
  <1>2. CommitMarker'
    BY <1>1, NoInventoryYet DEF CommitMarker, RollsBack
  <1>3. RollingBack' /\ Calling' /\ Applying'
    BY <1>1 DEF RollingBack, Calling, Applying, RollsBack, Exists
  <1>4. OnboardingTypes' /\ Tree' /\ HandlesAreOurs' /\ KeysDiffer' /\ ResultsAreHonest'
    BY <1>1 DEF OnboardingTypes, Tree, HandlesAreOurs, KeysDiffer, ResultsAreHonest, Exists,
                RollsBack
  <1>5. QED
    BY <1>2, <1>3, <1>4 DEF OnboardingInv, BundleInv

\* When all is created, the command holds all of it.
LEMMA AllIsHeld ==
    ASSUME OnboardingInv, Generated
    PROVE  pc = "idle" /\ \A o \in Objects : o \in handles /\ disk[o] = "ours"
  <1>1. command = "apply" /\ step = Total
    BY WorkIs DEF Generated
  <1>2. Applying /\ Calling /\ HandlesAreOurs /\ Total \in Nat
    BY WorkIs DEF OnboardingInv, BundleInv
  <1>3. \A i \in 1..Total : Work[i] \in handles
    BY <1>1, <1>2 DEF Applying
  <1>4. \A o \in Objects : o \in handles
    BY <1>1, <1>2, <1>3, ObjectFacts DEF Applying
  <1>5. QED
    BY <1>1, <1>2, <1>4 DEF Calling, HandlesAreOurs

\* The tool failed, or the root is not the one that was created.
LEMMA RollbackBegins ==
    ASSUME OnboardingInv, ToolFails \/ BindingFails
    PROVE  OnboardingInv'
  <1>1. CASE ToolFails
    <2>1. /\ command = "apply" /\ pc = "returned" /\ pc' = "idle" /\ RollsBack
          /\ UNCHANGED <<step, disk, extras, handles, keys, missed, result, bundle, shown,
                         foreign>>
      BY <1>1 DEF ToolFails, ToolReturned, Fresh, Stays, files
    <2>2. CallInv'
      BY <1>1, FreshCall DEF OnboardingInv, ToolFails
    <2>3. step < Total
      BY <2>1 DEF OnboardingInv, BundleInv, Calling
    <2>4. QED
      BY <2>1, <2>2, <2>3, RollsBackStep
  <1>2. CASE BindingFails
    <2>1. /\ UNCHANGED vars /\ Generated /\ command = "apply" /\ RollsBack
          /\ UNCHANGED <<step, disk, extras, handles, keys, missed, result, bundle, shown,
                         foreign>>
      BY <1>2 DEF BindingFails, Generated, Stays, files
    <2>2. CallInv' /\ pc' = pc /\ pc = "idle" /\ Inventory \in handles
      BY <2>1, CallUntouched, AllIsHeld, ObjectFacts
    <2>3. QED
      BY <2>1, <2>2, RollsBackStep
  <1>3. QED
    BY <1>1, <1>2

\* What a command leaves behind when it ends.
LEMMA EndsStep ==
    ASSUME OnboardingInv, NEW how, Ends(how), CallInv',
           runner' = "key_tool" => pc' = "idle",
           UNCHANGED <<step, disk, extras, keys, missed, bundle, shown, foreign>>,
           how # "cleaned",
           how = "failed" => \/ \A d \in Headsets : ~Exists(Seed(d))
                             \/ \A o \in Objects : disk[o] = "ours"
    PROVE  OnboardingInv'
  <1>1. /\ OnboardingTypes /\ Tree /\ HandlesAreOurs /\ KeysDiffer /\ CommitMarker
        /\ command' = "none" /\ handles' = {} /\ result' = how
    BY DEF OnboardingInv, BundleInv, Ends
  <1>2. Applying' /\ Calling' /\ RollingBack' /\ HandlesAreOurs'
    BY <1>1 DEF Applying, Calling, RollingBack, HandlesAreOurs
  <1>3. OnboardingTypes' /\ Tree' /\ KeysDiffer' /\ CommitMarker'
    BY <1>1 DEF OnboardingTypes, Tree, KeysDiffer, CommitMarker, Exists
  <1>4. ResultsAreHonest'
    BY <1>1 DEF ResultsAreHonest, Exists
  <1>5. QED
    BY <1>2, <1>3, <1>4 DEF OnboardingInv, BundleInv

\* Commits, DigestFails, RolledBack, DeleteFails and Crash.
LEMMA CommandEnds ==
    ASSUME OnboardingInv,
           \/ Commits \/ DigestFails \/ RolledBack \/ Crash
           \/ \E o \in Objects : DeleteFails(o)
    PROVE  OnboardingInv'
  <1>1. CASE Commits \/ DigestFails
    <2>1. /\ Generated /\ UNCHANGED vars
          /\ UNCHANGED <<step, disk, extras, keys, missed, bundle, shown, foreign>>
          /\ Ends("generated") \/ Ends("failed")
      BY <1>1 DEF Commits, DigestFails, Stays
    <2>2. CallInv' /\ pc' = pc /\ pc = "idle" /\ \A o \in Objects : disk[o] = "ours"
      BY <2>1, CallUntouched, AllIsHeld
    <2>3. QED
      BY <2>1, <2>2, EndsStep
  <1>2. CASE RolledBack
    <2>1. /\ command = "rollback" /\ handles = {} /\ UNCHANGED vars
          /\ UNCHANGED <<step, disk, extras, keys, missed, bundle, shown, foreign>>
          /\ (missed /\ Ends("partial")) \/ (~missed /\ Ends("failed"))
      BY <1>2 DEF RolledBack, Stays
    <2>2. CallInv' /\ (runner' = "key_tool" => pc' = "idle")
      BY <2>1, CallUntouched DEF OnboardingInv, BundleInv, Calling
    <2>3. ~missed => \A d \in Headsets : ~Exists(Seed(d))
      BY <2>1, ObjectFacts DEF OnboardingInv, BundleInv, RollingBack
    <2>4. QED
      BY <2>1, <2>2, <2>3, EndsStep
  <1>3. CASE Crash
    <2>1. /\ Ends("crashed") /\ pc' = "idle"
          /\ UNCHANGED <<step, disk, extras, keys, missed, bundle, shown, foreign>>
      BY <1>3 DEF Crash, Fresh, Stays
    <2>2. CallInv'
      BY <1>3, FreshCall DEF OnboardingInv, Crash
    <2>3. QED
      BY <2>1, <2>2, EndsStep
  <1>4. ASSUME NEW o \in Objects, DeleteFails(o)
        PROVE  OnboardingInv'
    <2>1. /\ command = "cleanup" /\ Ends("incomplete") /\ UNCHANGED vars
          /\ UNCHANGED <<step, disk, extras, keys, missed, bundle, shown, foreign>>
      BY <1>4 DEF DeleteFails, Stays
    <2>2. CallInv' /\ (runner' = "key_tool" => pc' = "idle")
      BY <2>1, CallUntouched DEF OnboardingInv, BundleInv, Calling
    <2>3. QED
      BY <2>1, <2>2, EndsStep
  <1>5. QED
    BY <1>1, <1>2, <1>3, <1>4

\* Nothing that can be deleted is a directory of something that exists.
LEMMA DeletionKeepsTheTree ==
    ASSUME OnboardingTypes, Tree, NEW o \in Objects, CanDelete(o),
           disk' = [disk EXCEPT ![o] = "absent"]
    PROVE  /\ Tree'
           /\ disk'[o] = "absent" /\ \A p \in Objects \ {o} : disk'[p] = disk[p]
           /\ disk' \in [Objects -> {"absent", "ours", "torn", "foreign"}]
           /\ \A p \in Objects \ {Root} : Exists(p) => Parent(p) # o
  <1>1. /\ disk'[o] = "absent" /\ \A p \in Objects \ {o} : disk'[p] = disk[p]
        /\ disk' \in [Objects -> {"absent", "ours", "torn", "foreign"}]
    BY DEF OnboardingTypes
  <1>2. \A p \in Objects \ {Root} : Exists(p) => Parent(p) # o
    BY ObjectFacts DEF CanDelete, IsEmpty
  <1>3. ASSUME NEW p \in Objects \ {Root}, disk'[p] # "absent"
        PROVE  disk'[Parent(p)] # "absent"
    <2>1. disk[p] # "absent" /\ Parent(p) \in Objects
      BY <1>1, <1>3, ObjectFacts
    <2>2. Parent(p) # o /\ disk[Parent(p)] # "absent"
      BY <1>2, <2>1 DEF Tree, Exists
    <2>3. QED
      BY <1>1, <2>1, <2>2
  <1>4. QED
    BY <1>1, <1>2, <1>3 DEF Tree, Exists

\* A rollback deletes one object of those it holds, or notes that it could not.
LEMMA UndoesStep ==
    ASSUME OnboardingInv, NEW o \in Objects, Undoes(o, TRUE) \/ Undoes(o, FALSE)
    PROVE  OnboardingInv'
  <1>1. /\ UNCHANGED vars
        /\ UNCHANGED <<command, step, extras, keys, result, bundle, shown, foreign>>
        /\ command = "rollback" /\ IsNext(o) /\ o \in handles /\ handles' = handles \ {o}
    BY DEF Undoes, IsNext, Stays
  <1>2. CallInv' /\ pc' = pc /\ runner' = runner
    BY <1>1, CallUntouched
  <1>3. /\ OnboardingTypes /\ Tree /\ HandlesAreOurs /\ Calling /\ KeysDiffer
        /\ RollingBack /\ CommitMarker
    BY DEF OnboardingInv, BundleInv
  <1>4. Calling' /\ Applying' /\ KeysDiffer' /\ ResultsAreHonest'
    BY <1>1, <1>2, <1>3 DEF Calling, Applying, KeysDiffer, ResultsAreHonest, HandlesAreOurs
  <1>5. CASE Undoes(o, TRUE)
    <2>1. CanDelete(o) /\ disk' = [disk EXCEPT ![o] = "absent"] /\ UNCHANGED missed
      BY <1>5 DEF Undoes
    <2>2. /\ Tree'
          /\ disk'[o] = "absent" /\ \A p \in Objects \ {o} : disk'[p] = disk[p]
          /\ disk' \in [Objects -> {"absent", "ours", "torn", "foreign"}]
          /\ \A p \in Objects \ {Root} : Exists(p) => Parent(p) # o
      BY <1>3, <2>1, DeletionKeepsTheTree
    <2>3. OnboardingTypes' /\ HandlesAreOurs'
      BY <1>1, <1>3, <2>1, <2>2 DEF OnboardingTypes, HandlesAreOurs
    <2>4. RollingBack'
      <3>1. ASSUME NEW p \in Objects \ {Root}, ~missed, disk'[p] # "absent"
            PROVE  p \in handles' \/ Parent(p) \in handles'
        <4>1. p # o /\ Exists(p)
          BY <2>2, <3>1 DEF Exists
        <4>2. Parent(p) # o /\ (p \in handles \/ Parent(p) \in handles)
          BY <1>1, <1>3, <2>2, <3>1, <4>1 DEF RollingBack
        <4>3. QED
          BY <1>1, <4>1, <4>2
      <3>2. QED
        BY <1>1, <2>1, <3>1 DEF RollingBack, Exists
    <2>5. CommitMarker'
      <3>1. ASSUME disk'[Inventory] = "ours", shown # bundle, foreign = 0, ~missed
            PROVE  FALSE
        <4>1. o # Inventory /\ disk[Inventory] = "ours"
          BY <2>2, <3>1, ObjectFacts
        <4>2. Inventory \in handles
          BY <1>1, <1>3, <3>1, <4>1 DEF CommitMarker
        <4>3. QED
          BY <1>1, <4>1, <4>2, InventoryFirst
      <3>2. QED
        BY <1>1, <2>1, <3>1 DEF CommitMarker
    <2>6. QED
      BY <1>2, <1>4, <2>2, <2>3, <2>4, <2>5 DEF OnboardingInv, BundleInv
  <1>6. CASE Undoes(o, FALSE)
    <2>1. missed' = TRUE /\ UNCHANGED disk
      BY <1>6 DEF Undoes, Misses
    <2>2. RollingBack' /\ CommitMarker'
      BY <2>1 DEF RollingBack, CommitMarker
    <2>3. OnboardingTypes' /\ HandlesAreOurs' /\ Tree'
      BY <1>1, <1>3, <2>1 DEF OnboardingTypes, HandlesAreOurs, Tree, Exists
    <2>4. QED
      BY <1>2, <1>4, <2>2, <2>3 DEF OnboardingInv, BundleInv
  <1>7. QED
    BY <1>5, <1>6

-----------------------------------------------------------------------------
(* A cleanup, and what other programs do.                                    *)

\* A plan is shown, or the cleanup it allows begins.
LEMMA CleanupBeginsStep ==
    ASSUME OnboardingInv, ShowsCleanup \/ CleanupBegins
    PROVE  OnboardingInv'
  <1>1. /\ UNCHANGED vars /\ UNCHANGED <<step, disk, extras, keys, missed, bundle, foreign>>
        /\ command = "none" /\ shown' = bundle /\ \A o \in Objects : disk[o] = "ours"
        /\ \/ UNCHANGED <<command, handles>> /\ result' = "shown"
           \/ command' = "cleanup" /\ handles' = Objects /\ result' = "running"
    BY DEF ShowsCleanup, CleanupBegins, Idle, Opens, Unchanged, Stays, files
  <1>2. CallInv' /\ pc' = pc /\ runner' = runner
    BY <1>1, CallUntouched
  <1>3. /\ OnboardingTypes /\ Tree /\ HandlesAreOurs /\ Calling /\ KeysDiffer
    BY DEF OnboardingInv, BundleInv
  <1>4. OnboardingTypes'
    <2>1. bundle \in Nat /\ shown' \in 0..bundle
      BY <1>1, <1>3 DEF OnboardingTypes
    <2>2. handles' \subseteq Objects /\ command' \in {"none", "cleanup"}
      BY <1>1, <1>3 DEF OnboardingTypes
    <2>3. QED
      BY <1>1, <1>3, <2>1, <2>2 DEF OnboardingTypes
  <1>5. Tree' /\ HandlesAreOurs' /\ KeysDiffer' /\ CommitMarker' /\ ResultsAreHonest'
    BY <1>1, <1>3 DEF Tree, HandlesAreOurs, KeysDiffer, CommitMarker, ResultsAreHonest, Exists
  <1>6. Applying' /\ Calling' /\ RollingBack'
    BY <1>1, <1>2, <1>3 DEF Applying, Calling, RollingBack
  <1>7. QED
    BY <1>2, <1>4, <1>5, <1>6 DEF OnboardingInv, BundleInv

\* A cleanup deletes one object, and with the root it has deleted all.
LEMMA DeletesStep ==
    ASSUME OnboardingInv, NEW o \in Objects, Deletes(o)
    PROVE  OnboardingInv'
  <1>1. /\ UNCHANGED vars
        /\ UNCHANGED <<step, extras, keys, missed, bundle, shown, foreign>>
        /\ command = "cleanup" /\ o \in handles /\ CanDelete(o)
        /\ disk' = [disk EXCEPT ![o] = "absent"]
        /\ \/ o = Root /\ command' = "none" /\ handles' = {} /\ result' = "cleaned"
           \/ o # Root /\ handles' = handles \ {o} /\ UNCHANGED <<command, result>>
    BY DEF Deletes, IsNext, Ends, Stays
  <1>2. CallInv' /\ pc' = pc /\ runner' = runner
    BY <1>1, CallUntouched
  <1>3. OnboardingTypes /\ Tree /\ HandlesAreOurs /\ Calling /\ KeysDiffer
    BY DEF OnboardingInv, BundleInv
  <1>4. /\ Tree'
        /\ disk'[o] = "absent" /\ \A p \in Objects \ {o} : disk'[p] = disk[p]
        /\ disk' \in [Objects -> {"absent", "ours", "torn", "foreign"}]
        /\ \A p \in Objects \ {Root} : Exists(p) => Parent(p) # o
    BY <1>1, <1>3, DeletionKeepsTheTree
  <1>5. OnboardingTypes' /\ HandlesAreOurs'
    BY <1>1, <1>3, <1>4 DEF OnboardingTypes, HandlesAreOurs
  <1>6. CommitMarker' /\ KeysDiffer' /\ Applying' /\ Calling' /\ RollingBack'
    BY <1>1, <1>2, <1>3
       DEF HandlesAreOurs, CommitMarker, KeysDiffer, Applying, Calling, RollingBack
  <1>7. ResultsAreHonest'
    <2>1. CASE o = Root
      <3>1. \A p \in Objects \ {Root} : ~Exists(p)
        BY <1>3, <1>4, <2>1, NothingInRoot
      <3>2. \A p \in Objects : disk'[p] = "absent"
        BY <1>4, <2>1, <3>1 DEF Exists
      <3>3. QED
        BY <1>1, <2>1, <3>2 DEF ResultsAreHonest, Exists
    <2>2. CASE o # Root
      BY <1>1, <1>3, <2>2 DEF ResultsAreHonest, HandlesAreOurs
    <2>3. QED
      BY <2>1, <2>2
  <1>8. QED
    BY <1>2, <1>4, <1>5, <1>6, <1>7 DEF OnboardingInv, BundleInv

\* What another program may do to the bundle: nothing it holds, no directory, and
\* nothing comes to be that was not there.
Meddling ==
    /\ \A o \in Objects :
          /\ disk'[o] # "absent" => disk[o] # "absent"
          /\ o \in handles \/ IsDirectory(o) => disk'[o] = disk[o]
    /\ disk' \in [Objects -> {"absent", "ours", "torn", "foreign"}]
    /\ extras' \subseteq Objects

\* Another program changes or removes a file nobody holds, or adds one.
LEMMA OthersStep ==
    ASSUME OnboardingInv, Others
    PROVE  OnboardingInv'
  <1>1. /\ UNCHANGED <<vars, command, step, handles, keys, missed, result, bundle, shown>>
        /\ foreign' = foreign + 1
    BY DEF Others, Replaces, Adds, Touches, Elsewhere
  <1>2. CallInv' /\ pc' = pc /\ runner' = runner
    BY <1>1, CallUntouched
  <1>3. /\ OnboardingTypes /\ Tree /\ HandlesAreOurs /\ Applying /\ Calling /\ KeysDiffer
        /\ RollingBack /\ ResultsAreHonest
    BY DEF OnboardingInv, BundleInv
  <1>4. foreign' \in Nat /\ foreign' # 0
    BY <1>1, <1>3 DEF OnboardingTypes
  <1>5. Meddling
    <2>1. ASSUME NEW o \in Objects, NEW by \in {"foreign", "absent"}, Replaces(o, by)
          PROVE  Meddling
      BY <1>3, <2>1 DEF Replaces, Protected, Exists, OnboardingTypes, Meddling
    <2>2. ASSUME NEW o \in Objects, Adds(o)
          PROVE  Meddling
      BY <1>3, <2>2 DEF Adds, OnboardingTypes, Meddling
    <2>3. QED
      BY <2>1, <2>2 DEF Others
  <1>6. OnboardingTypes'
    BY <1>1, <1>3, <1>4, <1>5 DEF OnboardingTypes, Meddling
  <1>7. Tree'
    <2>1. ASSUME NEW p \in Objects \ {Root}, disk'[p] # "absent"
          PROVE  disk'[Parent(p)] # "absent"
      <3>1. disk[p] # "absent" /\ Parent(p) \in Objects /\ IsDirectory(Parent(p))
        BY <1>5, <2>1, ObjectFacts DEF Meddling
      <3>2. QED
        BY <1>3, <1>5, <3>1 DEF Tree, Exists, Meddling
    <2>2. QED
      BY <2>1 DEF Tree, Exists
  <1>8. HandlesAreOurs' /\ Applying' /\ RollingBack'
    BY <1>1, <1>3, <1>5
       DEF HandlesAreOurs, Applying, RollingBack, Exists, Meddling, OnboardingTypes
  <1>9. KeysDiffer' /\ Calling'
    BY <1>1, <1>2, <1>3 DEF KeysDiffer, Calling, NextObject, Owner
  <1>10. CommitMarker' /\ ResultsAreHonest'
    BY <1>1, <1>3, <1>4, <1>5 DEF CommitMarker, ResultsAreHonest, Exists, Meddling
  <1>11. QED
    BY <1>2, <1>6, <1>7, <1>8, <1>9, <1>10 DEF OnboardingInv, BundleInv

-----------------------------------------------------------------------------
(* The theorems about the bundle and, with the calls, about both.            *)

\* Before the first command there is no bundle.
LEMMA OnboardingBegins == OnboardingInit => OnboardingInv
  <1>. SUFFICES ASSUME OnboardingInit PROVE OnboardingInv
    OBVIOUS
  <1>1. CallInv
    <2>1. CASE runner = "key_tool"
      BY <2>1, RunnersAssumption DEF OnboardingInit, CallInv, Between
    <2>2. CASE runner # "key_tool"
      <3>1. Init
        BY <2>2 DEF OnboardingInit, Init
      <3>2. QED
        BY <3>1, InitHolds DEF CallInv
    <2>3. QED
      BY <2>1, <2>2
  <1>2. OnboardingTypes
    <2>1. /\ command = "none" /\ step = 0 /\ handles = {} /\ extras = {} /\ missed = FALSE
          /\ bundle = 0 /\ shown = 0 /\ foreign = 0
          /\ disk = [o \in Objects |-> "absent"] /\ keys = [d \in Headsets |-> None]
      BY DEF OnboardingInit
    <2>2. /\ disk \in [Objects -> {"absent", "ours", "torn", "foreign"}]
          /\ keys \in [Headsets -> Keys \cup {None}]
      BY <2>1
    <2>3. step \in 0..Total /\ shown \in 0..bundle
      BY <2>1, WorkIs
    <2>4. QED
      BY <2>1, <2>2, <2>3 DEF OnboardingTypes
  <1>3. Tree /\ HandlesAreOurs /\ Applying /\ Calling /\ RollingBack /\ KeysDiffer
    BY ObjectFacts DEF OnboardingInit, Tree, HandlesAreOurs, Applying, Calling, RollingBack,
       KeysDiffer, Exists
  <1>4. CommitMarker /\ ResultsAreHonest
    BY ObjectFacts DEF OnboardingInit, CommitMarker, ResultsAreHonest
  <1>5. QED
    BY <1>1, <1>2, <1>3, <1>4 DEF OnboardingInv, BundleInv

\* Every step of the command, of the tool and of other programs.
LEMMA OnboardingKeeps == OnboardingInv /\ [OnboardingNext]_all => OnboardingInv'
  <1>. SUFFICES ASSUME OnboardingInv, [OnboardingNext]_all PROVE OnboardingInv'
    OBVIOUS
  <1>1. CASE [Calls]_all
    BY <1>1, CallsStep
  <1>2. CASE Commands
    <2>1. CASE RequestIsRefused \/ ToolIsRefused \/ ProvenanceIsRefused \/ PlanIsRefused
               \/ CleanupIsRefused
      BY <2>1, RefusedStep DEF RequestIsRefused, ToolIsRefused, ProvenanceIsRefused,
         PlanIsRefused, CleanupIsRefused
    <2>2. QED
      BY <1>2, <2>1, BeginsStep, LeavesARootStep, CleanupBeginsStep DEF Commands
  <1>3. CASE Proceeds
    <2>1. CASE CreatesDirectory
      <3>1. Generating /\ CreatesObject(NextObject) /\ NextObject[1] # "record"
        BY <2>1 DEF CreatesDirectory, IsDirectory
      <3>2. QED
        BY <3>1, CreatesStep
    <2>2. CASE WritesFile
      BY <2>2, CreatesStep DEF WritesFile, MayWrite
    <2>3. QED
      BY <1>3, <2>1, <2>2, CallsToolStep, TakesKeyStep, RollbackBegins, CommandEnds,
         UndoesStep, DeletesStep DEF Proceeds
  <1>4. CASE Fails
    BY <1>4, RollbackBegins, CommandEnds, CreateFailsStep DEF Fails
  <1>5. CASE Crash
    BY <1>5, CommandEnds
  <1>6. CASE Others
    BY <1>6, OthersStep
  <1>7. QED
    BY <1>1, <1>2, <1>3, <1>4, <1>5, <1>6 DEF OnboardingNext

\* What is said above OnboardingInv holds of the bundle at all times.
THEOREM BundleInvariance == OnboardingSpec => []OnboardingInv
<1> QED
  BY OnboardingBegins, OnboardingKeeps, PTL DEF OnboardingSpec

\* The inventory is the commit marker: where it is ours and neither a cleanup was
\* shown it, nor a rollback runs or failed, nor another program meddled, the whole
\* bundle is ours and no two headsets have the same key.
THEOREM InventoryCommits == OnboardingSpec => []InventoryMeansWhole
<1>1. OnboardingInv => InventoryMeansWhole
  <2> SUFFICES ASSUME OnboardingInv, disk[Inventory] = "ours", shown # bundle, foreign = 0,
                      ~missed
               PROVE  /\ \A o \in Objects : disk[o] = "ours"
                      /\ \A d, e \in Headsets : d # e => keys[d] # keys[e]
    BY DEF InventoryMeansWhole
  <2>1. /\ \A o \in Objects : disk[o] = "ours"
        /\ \A d \in Headsets : keys[d] # None
    BY DEF OnboardingInv, BundleInv, CommitMarker
  <2>2. QED
    BY <2>1 DEF OnboardingInv, BundleInv, KeysDiffer
<1> QED
  BY <1>1, BundleInvariance, PTL

\* A command that reports a plain failure has left no seed, and one that reports a
\* cleanup has left nothing.
THEOREM HonestResults == OnboardingSpec => []ResultsAreHonest
<1>1. OnboardingInv => ResultsAreHonest
  BY DEF OnboardingInv, BundleInv
<1> QED
  BY <1>1, BundleInvariance, PTL

\* A command deletes only what it created itself, a cleanup only the bundle that
\* was shown last.
THEOREM OnlyItsOwnIsDeleted == OnboardingSpec => DeletesOnlyItsOwn
<1>1. OnboardingInv /\ [OnboardingNext]_all =>
        [\A o \in Objects :
            o \in handles /\ Exists(o) /\ ~Exists(o)' =>
                disk[o] = "ours" /\ (command = "cleanup" => shown = bundle)]_all
  BY DEF OnboardingInv, BundleInv, HandlesAreOurs
<1> QED
  BY <1>1, BundleInvariance, PTL DEF OnboardingSpec, DeletesOnlyItsOwn

\* Among the commands too a successful call has returned all its program wrote,
\* and has left no program running.
THEOREM CallsOfCommands == OnboardingSpec => [](OkIsWhole /\ NoneLeftRunning)
<1>1. OnboardingInv => OkIsWhole /\ NoneLeftRunning
  <2>1. CASE Between
    BY <2>1 DEF Between, OkIsWhole, NoneLeftRunning
  <2>2. CASE IInv
    <3>1. NoneLeftRunning
      BY <2>2 DEF IInv, ConcludedIsEnded, NoneLeftRunning, Concluding
    <3>2. OkIsWhole
      BY <2>2, SuccessMeans
    <3>3. QED
      BY <3>1, <3>2
  <2>3. QED
    BY <2>1, <2>2 DEF OnboardingInv, CallInv
<1> QED
  BY <1>1, BundleInvariance, PTL

==============================================================================
