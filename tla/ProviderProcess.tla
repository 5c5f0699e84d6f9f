---------------------------- MODULE ProviderProcess ----------------------------
(***************************************************************************)
(* One call of an external program: the transports of the connectivity,    *)
(* awake and hotspot adapters, the runner of the kiosk v2 file manager in  *)
(* the local hub, and the key tool of the offline onboarding.              *)
(*                                                                         *)
(* Each starts a child process, has a thread drain each of its two output  *)
(* streams and polls until the child has exited and both streams are read, *)
(* or until a deadline.  The child may never exit, write without end, or   *)
(* leave a descendant that holds the streams open.  The five poll loops    *)
(* were written one after the other and differ in what they end, when, and *)
(* in what they wait for.                                                  *)
(*                                                                         *)
(* The request is smaller than a pipe buffer, so writing it never blocks.  *)
(***************************************************************************)
EXTENDS Naturals

CONSTANT Runners    \* bound of the model: which of the five are considered

AllRunners == {"connectivity", "awake", "hotspot", "kiosk_v2", "key_tool"}
ASSUME RunnersAssumption == Runners \subseteq AllRunners

Adapters == {"connectivity", "awake", "hotspot"}   \* one private stage for each call
Contained == {"kiosk_v2", "key_tool"}              \* the child lives in a job object
Streams == {"out", "err"}

VARIABLES
    runner,
    pc,         \* where the caller is
    stage,      \* the private directory with the verified copy of the program
    root,       \* the child process
    tree,       \* its descendants, and whether they hold the streams
    written,    \* on each stream: nothing, some, or more than the limit
    box,        \* what the reader of a stream has sent, once it has ended
    got,        \* what the caller has received of it
    overflow,   \* key tool: a reader met more than the limit
    late,       \* the deadline of the call has passed
    grace,      \* the second granted to the streams after the exit has passed
    cause,      \* why the call failed
    outcome

process == <<root, tree>>
streams == <<written, box, overflow>>
vars == <<runner, pc, stage, root, tree, written, box, got, overflow, late, grace,
          cause, outcome>>

Held == root = "running" \/ tree = "holding"
Read == {"nothing", "some", "over"}
Received == \A s \in Streams : got[s] # "pending"

-----------------------------------------------------------------------------
(* The program.                                                              *)

Environment == UNCHANGED <<runner, pc, stage, got, late, grace, cause, outcome>>

\* A stream nobody reads any more is broken: writing to it has no effect.
Writes(s, amount) ==
    /\ Held /\ box[s] = "pending"
    /\ written[s] # "over" /\ written' = [written EXCEPT ![s] = amount]
    /\ UNCHANGED <<process, box, overflow>> /\ Environment

Forks(how) ==
    /\ root = "running" /\ tree = "none"
    /\ tree' = how
    /\ UNCHANGED <<root, streams>> /\ Environment

Exits ==
    /\ root = "running" /\ root' = "exited"
    /\ UNCHANGED <<tree, streams>> /\ Environment

DescendantsEnd ==
    /\ tree # "none" /\ tree' = "none"
    /\ UNCHANGED <<root, streams>> /\ Environment

-----------------------------------------------------------------------------
(* The readers.                                                              *)

Sends(s, what) ==
    /\ root # "none" /\ box[s] = "pending"
    /\ box' = [box EXCEPT ![s] = what]
    /\ UNCHANGED <<process, written>> /\ Environment

\* A reader ends when the stream is closed by all who hold it, ...
DrainEnds(s) ==
    /\ ~Held
    /\ Sends(s, written[s])
    /\ overflow' = (overflow \/ written[s] = "over")

\* ... or one byte beyond the limit; the hotspot adapter has no limit here ...
DrainIsFull(s) ==
    /\ runner \notin {"hotspot", "key_tool"} /\ written[s] = "over"
    /\ Sends(s, "over") /\ UNCHANGED overflow

\* ... and that of the key tool notes it, drops the chunk and reads on.
DrainOverflows(s) ==
    /\ runner = "key_tool" /\ root # "none" /\ box[s] = "pending" /\ written[s] = "over"
    /\ overflow' = TRUE
    /\ UNCHANGED <<process, written, box>> /\ Environment

DrainFails(s) == Sends(s, "error") /\ UNCHANGED overflow

-----------------------------------------------------------------------------
(* How a call ends.                                                          *)

\* mutant: only the child itself is ended
RootKilled == root' = (IF root = "running" THEN "killed" ELSE root) /\ UNCHANGED tree

\* terminate_process_tree of the adapters, and the end of a job.
TreeKilled == root' = (IF root = "running" THEN "killed" ELSE root) /\ tree' = "none"

Concluded(why, result) ==
    /\ pc' = IF runner \in Adapters \cup {"kiosk_v2"} THEN "cleanup" ELSE "returned"
    /\ cause' = why /\ outcome' = result

FailEnding(why) == Concluded(why, "failed") /\ TreeKilled
FailLeaving(why) == Concluded(why, "failed") /\ UNCHANGED process

Caller == UNCHANGED <<runner, stage, streams, late, grace>>

\* The loop takes what a reader has sent, unless it is an error or too much.
Takes(s) ==
    /\ box[s] # "pending" /\ got[s] = "pending"
    /\ got' = [got EXCEPT ![s] = box[s]]

\* What the streams hold decides, once the child has exited.
Judged(accepts) ==
    IF Received /\ got["err"] = "nothing" /\ accepts
    THEN Concluded("none", "ok") /\ UNCHANGED process
    ELSE FailLeaving("rejected")

Loop(r) == runner = r /\ pc = "loop"
After(r) == runner = r /\ pc = "drain"
GoesOn == UNCHANGED <<process, pc, cause, outcome>>

-----------------------------------------------------------------------------
(* QuestConnectivity: a reader that fails leaves the child running.          *)

ConnectivityReceives(s) ==
    /\ Loop("connectivity") /\ Takes(s) /\ Caller
    /\ \/ box[s] = "error" /\ FailLeaving("read")
       \/ box[s] = "over" /\ FailEnding("oversized")
       \/ box[s] \in {"nothing", "some"} /\ GoesOn

ConnectivityLooks(waits) ==
    /\ Loop("connectivity") /\ UNCHANGED got /\ Caller
    /\ \/ ~waits /\ FailEnding("wait")
       \/ waits /\ root = "exited" /\ pc' = "drain" /\ UNCHANGED <<process, cause, outcome>>
       \/ waits /\ root # "exited" /\ late /\ FailEnding("timeout")
       \/ waits /\ root # "exited" /\ ~late /\ GoesOn

ConnectivityDrains(s) ==
    /\ After("connectivity") /\ Takes(s) /\ Caller
    /\ IF box[s] \in {"error", "over"} THEN FailLeaving("read") ELSE GoesOn

ConnectivityJudges ==
    /\ After("connectivity") /\ (Received \/ grace) /\ UNCHANGED got /\ Caller
    /\ Judged(got["out"] = "some")

-----------------------------------------------------------------------------
(* QuestAwake.                                                               *)

AwakeReceives(s) ==
    /\ Loop("awake") /\ Takes(s) /\ Caller
    /\ \/ box[s] = "error" /\ FailEnding("read")
       \/ box[s] = "over" /\ FailEnding("oversized")
       \/ box[s] \in {"nothing", "some"} /\ GoesOn

AwakeLooks(waits) ==
    /\ Loop("awake") /\ UNCHANGED got /\ Caller
    /\ \/ ~waits /\ FailEnding("wait")
       \/ waits /\ root = "exited" /\ pc' = "drain" /\ UNCHANGED <<process, cause, outcome>>
       \/ waits /\ root # "exited" /\ late /\ FailEnding("timeout")
       \/ waits /\ root # "exited" /\ ~late /\ GoesOn

AwakeDrains(s) ==
    /\ After("awake") /\ Takes(s) /\ Caller
    /\ IF box[s] \in {"error", "over"} THEN FailLeaving("read") ELSE GoesOn

\* An exit without success needs some output.
AwakeJudges(success) ==
    /\ After("awake") /\ (Received \/ grace) /\ UNCHANGED got /\ Caller
    /\ Judged(success \/ got["out"] = "some")

-----------------------------------------------------------------------------
(* The hotspot: whatever fails, before or after the exit, ends the tree, and *)
(* the streams have until the deadline of the call.                          *)

HotspotReceives(s) ==
    /\ Loop("hotspot") /\ Takes(s) /\ Caller
    /\ \/ box[s] = "error" /\ FailEnding("read")
       \/ box[s] = "over" /\ FailEnding("oversized")
       \/ box[s] \in {"nothing", "some"} /\ GoesOn

HotspotLooks(waits) ==
    /\ Loop("hotspot") /\ UNCHANGED got /\ Caller
    /\ \/ ~waits /\ FailEnding("wait")
       \/ waits /\ root = "exited" /\ pc' = "drain" /\ UNCHANGED <<process, cause, outcome>>
       \/ waits /\ root # "exited" /\ late /\ FailEnding("timeout")
       \/ waits /\ root # "exited" /\ ~late /\ GoesOn

HotspotDrains(s) ==
    /\ After("hotspot") /\ Takes(s) /\ Caller
    /\ IF box[s] = "error" THEN FailEnding("read") ELSE GoesOn

\* mutant: the streams are waited for without an end
HotspotWaitsOn == After("hotspot") /\ FALSE

HotspotGivesUp ==
    /\ After("hotspot") /\ ~Received /\ late /\ UNCHANGED got /\ Caller
    /\ FailEnding("timeout")

\* mutant: the size of the output is not looked at
HotspotTrusts ==
    /\ After("hotspot") /\ Received /\ UNCHANGED got /\ Caller
    /\ Judged(TRUE)

\* The limit is applied by WindowsHotspotOwnerAdapter::invoke.
HotspotJudges ==
    /\ After("hotspot") /\ Received /\ UNCHANGED got /\ Caller
    /\ Judged(got["out"] # "over")

-----------------------------------------------------------------------------
(* Kiosk v2: however run() is left, the job and then the child are dropped.  *)

KioskReceives(s) ==
    /\ Loop("kiosk_v2") /\ Takes(s) /\ Caller
    /\ IF box[s] \in {"error", "over"} THEN FailEnding("read") ELSE GoesOn

KioskLooks(waits) ==
    /\ Loop("kiosk_v2") /\ UNCHANGED got /\ Caller
    /\ \/ ~waits /\ FailEnding("wait")
       \/ waits /\ root = "exited" /\ Received /\
                TreeKilled /\ IF got["err"] = "nothing" THEN Concluded("none", "ok")
                              ELSE Concluded("rejected", "failed")
       \/ waits /\ ~(root = "exited" /\ Received) /\ late /\ FailEnding("timeout")
       \/ waits /\ ~(root = "exited" /\ Received) /\ ~late /\ GoesOn

-----------------------------------------------------------------------------
(* The key tool: the flags are looked at first, then the child and whether   *)
(* the readers have finished; the job is ended before anything is accepted.  *)

KeyToolChecks ==
    /\ Loop("key_tool") /\ Caller /\ UNCHANGED got
    /\ LET failed == overflow \/ late \/ \E s \in Streams : box[s] = "error" IN
       IF failed
       THEN FailEnding(IF overflow THEN "oversized" ELSE IF late THEN "timeout" ELSE "read")
       ELSE pc' = "checked" /\ UNCHANGED <<process, cause, outcome>>

KeyToolFinishes(success) ==
    /\ runner = "key_tool" /\ pc = "checked" /\ Caller
    /\ IF root = "exited" /\ \A s \in Streams : box[s] # "pending"
       THEN /\ TreeKilled /\ got' = box
            /\ IF box["out"] \in Read /\ box["err"] = "nothing" /\ success
               THEN Concluded("none", "ok") ELSE Concluded("rejected", "failed")
       ELSE pc' = "loop" /\ UNCHANGED <<process, got, cause, outcome>>

-----------------------------------------------------------------------------
(* How a call begins: the program is verified against its pinned digest,     *)
(* copied into a private stage, verified again and started.                  *)

Beginning(r, from) ==
    /\ runner = r /\ pc = from
    /\ UNCHANGED <<runner, tree, streams, got, late, grace>>

Refused == pc' = "returned" /\ cause' = "refused" /\ outcome' = "failed" /\ UNCHANGED <<stage, root>>
GivenUp == pc' = "cleanup" /\ cause' = "refused" /\ outcome' = "failed"
           /\ stage' = "present" /\ UNCHANGED root
Continues(to) == pc' = to /\ UNCHANGED <<root, cause, outcome>>

Verifies(r) ==
    Beginning(r, "start") /\ (Refused \/ (Continues("verified") /\ UNCHANGED stage))

\* A stage that exists already is refused, and left alone.
Stages(r) ==
    Beginning(r, "verified") /\ (Refused \/ GivenUp \/ (Continues("staged") /\ stage' = "present"))

\* The program cannot be started, does not take the request, or runs.
Starts(r) ==
    /\ Beginning(r, "staged")
    /\ \/ GivenUp
       \/ /\ pc' = "cleanup" /\ root' = "killed" /\ UNCHANGED stage
          /\ cause' = "write" /\ outcome' = "failed"
       \/ /\ pc' = "loop" /\ root' = "running" /\ UNCHANGED <<stage, cause, outcome>>

ConnectivityVerifies == Verifies("connectivity")
ConnectivityStages == Stages("connectivity")
ConnectivityStarts == Starts("connectivity")

\* The program and the adb it uses, with its libraries.
AwakeVerifies == Verifies("awake")
AwakeStages == Stages("awake")
AwakeStarts == Starts("awake")

HotspotVerifies == Verifies("hotspot")
HotspotStages == Stages("hotspot")
HotspotStarts == Starts("hotspot")

\* FileManagerKioskV2CatalogProvider::new stages once, here for one exchange.
KioskVerifies == Verifies("kiosk_v2")
KioskStages == Stages("kiosk_v2")
KioskStarts == Starts("kiosk_v2")

\* The key tool runs where it is, and its file is held open meanwhile.
KeyToolStarts ==
    /\ Beginning("key_tool", "start") /\ UNCHANGED stage
    /\ \/ Refused
       \/ (pc' = "loop" /\ root' = "running" /\ UNCHANGED <<cause, outcome>>)

\* The stage is removed, which a program that still runs prevents; an adapter
\* then fails whatever the program said.
CleansUp(removed) ==
    /\ pc = "cleanup" /\ runner \in Adapters
    /\ removed => root # "running"
    /\ pc' = "returned"
    /\ stage' = IF removed THEN "absent" ELSE "present"
    /\ outcome' = IF removed THEN outcome ELSE "failed"
    /\ UNCHANGED <<runner, process, streams, got, late, grace, cause>>

\* The provider of the kiosk rechecks its copy and reads the answer, ...
KioskAnswers(same, valid) ==
    /\ pc = "cleanup" /\ runner = "kiosk_v2"
    /\ pc' = "answered"
    /\ outcome' = IF same /\ valid THEN outcome ELSE "failed"
    /\ UNCHANGED <<runner, stage, process, streams, got, late, grace, cause>>

\* ... and what its removal comes to, when it is dropped, is not looked at.
KioskDrops(removed) ==
    /\ pc = "answered"
    /\ pc' = "returned"
    /\ stage' = IF removed THEN "absent" ELSE "present"
    /\ UNCHANGED <<runner, process, streams, got, late, grace, cause, outcome>>

Deadline ==
    /\ root # "none" /\ ~late /\ late' = TRUE
    /\ UNCHANGED <<runner, pc, stage, process, streams, got, grace, cause, outcome>>

GracePasses ==
    /\ pc = "drain" /\ ~grace /\ grace' = TRUE
    /\ UNCHANGED <<runner, pc, stage, process, streams, got, late, cause, outcome>>

-----------------------------------------------------------------------------
Init ==
    /\ runner \in Runners /\ pc = "start" /\ stage = "absent"
    /\ root = "none" /\ tree = "none"
    /\ written = [s \in Streams |-> "nothing"]
    /\ box = [s \in Streams |-> "pending"] /\ got = box
    /\ overflow = FALSE /\ late = FALSE /\ grace = FALSE
    /\ cause = "none" /\ outcome = "pending"

Program ==
    \/ \E s \in Streams, amount \in {"some", "over"} : Writes(s, amount)
    \/ \E how \in {"holding", "detached"} : Forks(how)
    \/ Exits \/ DescendantsEnd

Readers == \E s \in Streams : DrainEnds(s) \/ DrainIsFull(s) \/ DrainOverflows(s) \/ DrainFails(s)

Starting ==
    \/ ConnectivityVerifies \/ ConnectivityStages \/ ConnectivityStarts
    \/ AwakeVerifies \/ AwakeStages \/ AwakeStarts
    \/ HotspotVerifies \/ HotspotStages \/ HotspotStarts
    \/ KioskVerifies \/ KioskStages \/ KioskStarts
    \/ KeyToolStarts

Receiving ==
    \E s \in Streams :
        \/ ConnectivityReceives(s) \/ ConnectivityDrains(s)
        \/ AwakeReceives(s) \/ AwakeDrains(s)
        \/ HotspotReceives(s) \/ HotspotDrains(s)
        \/ KioskReceives(s)

Deciding ==
    \/ ConnectivityLooks(TRUE) \/ AwakeLooks(TRUE) \/ HotspotLooks(TRUE) \/ KioskLooks(TRUE)
    \/ \E success \in BOOLEAN : AwakeJudges(success) \/ KeyToolFinishes(success)
    \/ ConnectivityJudges \/ HotspotJudges \/ HotspotGivesUp \/ KeyToolChecks

\* The system refuses to say how the child is; nothing makes it do so.
WaitFails ==
    ConnectivityLooks(FALSE) \/ AwakeLooks(FALSE) \/ HotspotLooks(FALSE) \/ KioskLooks(FALSE)

Ending ==
    \/ \E removed \in BOOLEAN : CleansUp(removed)
    \/ \E same, valid \in BOOLEAN : KioskAnswers(same, valid)
    \/ \E removed \in BOOLEAN : KioskDrops(removed)

Next == Program \/ Readers \/ Starting \/ Receiving \/ Deciding \/ WaitFails
        \/ Ending \/ Deadline \/ GracePasses

Spec == Init /\ [][Next]_vars

-----------------------------------------------------------------------------
(* Properties.                                                               *)

\* Every variable has its type.
TypeOK ==
    /\ runner \in AllRunners
    /\ pc \in {"start", "verified", "staged", "loop", "checked", "drain", "cleanup", "answered",
           "returned"}
    /\ stage \in {"absent", "present"}
    /\ root \in {"none", "running", "exited", "killed"}
    /\ tree \in {"none", "holding", "detached"}
    /\ written \in [Streams -> Read]
    /\ box \in [Streams -> Read \cup {"pending", "error"}]
    /\ got \in [Streams -> Read \cup {"pending", "error"}]
    /\ {overflow, late, grace} \subseteq BOOLEAN
    /\ cause \in {"none", "refused", "write", "read", "oversized", "timeout", "wait",
                  "rejected"}
    /\ outcome \in {"pending", "ok", "failed"}

\* What a call returns is all the program has written, within the limit, with
\* nothing on standard error, from a program that ended by itself; and an adapter
\* has removed its stage.
Whole ==
    /\ root = "exited"
    /\ got["out"] = written["out"] /\ got["out"] # "over"
    /\ written["err"] = "nothing"
    /\ runner \in Adapters => stage = "absent"

OkIsWhole == runner # "key_tool" /\ pc = "returned" /\ outcome = "ok" => Whole

\* No call leaves its program running.  A contained one leaves no descendant
\* either, nor does a call that times out, however long the descendant would hold
\* the streams.  The connectivity adapter misses this where a reader fails.
NoneLeftRunning ==
    pc = "returned" =>
        /\ root = "running" => runner = "connectivity" /\ cause = "read"
        /\ runner \in Contained \/ cause = "timeout" => tree = "none"

\* The key tool: output beyond the limit is never accepted ("independent 16 KiB
\* caps ... fail closed").
OverflowFailsClosed == outcome = "ok" => \A s \in Streams : written[s] # "over"
=============================================================================
