--------------------------- MODULE OfflineOnboarding ---------------------------
(***************************************************************************)
(* The offline onboarding of fleet-onboarding: a command line that writes  *)
(* a private bundle (the seed and the profile of every headset, and the    *)
(* configuration of the hub) and can delete it again.                      *)
(*                                                                         *)
(* apply creates the bundle object by object, calls the key tool (see      *)
(* ProviderProcess) once for every headset and writes the inventory last.  *)
(* An error rolls back, object by object, what this run has created.       *)
(* cleanup-plan shows what cleanup-apply, with the digest it was shown,    *)
(* would delete.  The process may end at any point, and other programs of  *)
(* the user may write into the bundle.                                     *)
(*                                                                         *)
(* An object of the bundle is absent, ours, torn (created, but neither     *)
(* complete nor registered) or foreign (changed or replaced by another     *)
(* program).  A retained handle keeps a file from being changed.           *)
(***************************************************************************)
EXTENDS ProviderProcess, Sequences, SequencesExt

CONSTANTS
    Devices,      \* the headsets of the request, in its order
    Keys,         \* the public keys that may be derived
    MaxApplies,   \* bound of the model: bundles that are begun
    MaxForeign    \* bound of the model: what other programs do to them

Headsets == ToSet(Devices)
None == "none"

\* A request that names a headset twice is refused before anything is created.
ASSUME RequestAssumption ==
    Devices \in Seq(Headsets) /\ IsInjective(Devices) /\ None \notin Keys

Root == <<"root">>
Hub == <<"hub">>
DeviceRoot == <<"devices">>
Config == <<"config">>
Inventory == <<"inventory">>
Directory(d) == <<"device", d>>
Seed(d) == <<"seed", d>>
Record(d) == <<"record", d>>
Profile(d) == <<"profile", d>>

VARIABLES
    command,     \* what runs: none, apply, rollback or cleanup
    step,        \* how many objects of the bundle this apply has created
    disk,        \* the state of every object
    extras,      \* the directories with an object nobody listed
    handles,     \* the objects the command holds open
    keys,        \* the key derived for each headset
    missed,      \* the rollback could not delete everything
    result,      \* of the last command
    bundle,      \* bundles begun so far, the current one included
    shown,       \* the bundle of the last cleanup plan
    foreign      \* what other programs have done so far

files == <<disk, extras, handles>>
onboarding == <<command, step, files, keys, missed, result, bundle, shown, foreign>>
all == <<vars, onboarding>>

-----------------------------------------------------------------------------
(* The bundle.                                                               *)

\* What generate creates below the root, in this order: four objects for every
\* headset between two directories and two files of the hub.
Total == 4 * Len(Devices) + 4
OfHeadset(d, i) ==
    IF i % 4 = 3 THEN Directory(d) ELSE IF i % 4 = 0 THEN Seed(d)
    ELSE IF i % 4 = 1 THEN Record(d) ELSE Profile(d)
Work ==
    [i \in 1..Total |->
        IF i <= 2 THEN (IF i = 1 THEN Hub ELSE DeviceRoot)
        ELSE IF i >= Total - 1 THEN (IF i = Total THEN Inventory ELSE Config)
        ELSE OfHeadset(Devices[(i + 1) \div 4], i)]

Objects == {Root} \cup ToSet(Work)
IsDirectory(o) == o[1] \in {"root", "hub", "devices", "device"}

Parent(o) ==
    IF o \in {Hub, DeviceRoot, Inventory} THEN Root
    ELSE IF o = Config THEN Hub
    ELSE IF o[1] = "device" THEN DeviceRoot ELSE Directory(o[2])

Exists(o) == disk[o] # "absent"
IsEmpty(o) == o \notin extras /\ ~\E p \in Objects \ {Root} : Exists(p) /\ Parent(p) = o

\* The order of deletion: files by path from the last, then directories from
\* the deepest.  A rollback takes the inventory first, a cleanup at the end.
Height(o) ==
    IF o = Inventory THEN (IF command = "rollback" THEN 7 ELSE 2)
    ELSE IF o = Config THEN 6
    ELSE IF o[1] \in {"seed", "record", "profile"} THEN 5
    ELSE IF o[1] = "device" THEN 4 ELSE IF o = Root THEN 1 ELSE 3

IsNext(o) == o \in handles /\ \A p \in handles : Height(p) <= Height(o)

-----------------------------------------------------------------------------
(* apply.                                                                    *)

Stays == UNCHANGED <<bundle, shown, foreign>>
Ends(how) == command' = "none" /\ handles' = {} /\ result' = how

Idle == runner = "key_tool" /\ command = "none"

IsRefused ==
    /\ result' = "refused"
    /\ UNCHANGED <<vars, command, step, files, keys, missed>> /\ Stays

\* Before anything is created the request is read, the capsule of the tool, its
\* manifest and its provenance are compared with their pins, and the plan with
\* the digest that was confirmed.
RequestIsRefused == Idle /\ IsRefused
ToolIsRefused == Idle /\ IsRefused
ProvenanceIsRefused == Idle /\ IsRefused
PlanIsRefused == Idle /\ IsRefused

\* validate_new_private_root
MayCreate == Idle /\ ~Exists(Root) /\ bundle < MaxApplies

ApplyBegins ==
    /\ MayCreate
    /\ command' = "apply" /\ step' = 0 /\ bundle' = bundle + 1
    /\ disk' = [disk EXCEPT ![Root] = "ours"] /\ handles' = {Root}
    /\ keys' = [d \in Headsets |-> None] /\ missed' = FALSE /\ result' = "running"
    /\ UNCHANGED <<vars, extras, shown, foreign>>

\* The root was created but cannot be opened again, or not be made private.
ApplyLeavesARoot(how) ==
    /\ MayCreate
    /\ bundle' = bundle + 1 /\ result' = how
    /\ disk' = [disk EXCEPT ![Root] = "torn"]
    /\ UNCHANGED <<vars, command, step, extras, handles, keys, missed, shown, foreign>>

NextObject == Work[step + 1]
Generating == command = "apply" /\ step < Len(Work) /\ pc = "idle"

\* The record of a headset needs its key.
MayWrite(o) == o[1] = "record" => keys[o[2]] # None

CreatesObject(o) ==
    /\ disk' = [disk EXCEPT ![o] = "ours"] /\ handles' = handles \cup {o}
    /\ step' = step + 1
    /\ UNCHANGED <<vars, command, extras, keys, missed, result>> /\ Stays

CreatesDirectory == Generating /\ IsDirectory(NextObject) /\ CreatesObject(NextObject)

\* mutant: the inventory is written before the configuration
WritesEarly ==
    /\ Generating /\ ~IsDirectory(NextObject) /\ MayWrite(NextObject)
    /\ CreatesObject(CASE NextObject = Config -> Inventory [] NextObject = Inventory -> Config
                       [] OTHER -> NextObject)

WritesFile ==
    /\ Generating /\ ~IsDirectory(NextObject) /\ MayWrite(NextObject)
    /\ CreatesObject(NextObject)

RollsBack == command' = "rollback"

\* What was created but not completed is not registered: the rollback does not
\* know of it.  A seed may also collide, and the generated files be invalid.
CreateFails(left) ==
    /\ Generating /\ MayWrite(NextObject)
    /\ disk' = [disk EXCEPT ![NextObject] = left] /\ RollsBack
    /\ UNCHANGED <<vars, step, extras, handles, keys, missed, result>> /\ Stays

-----------------------------------------------------------------------------
(* The key tool, once for every headset, with the file of its seed.          *)

Fresh(at) ==
    /\ pc' = at /\ stage' = "absent" /\ root' = "none" /\ tree' = "none"
    /\ written' = [s \in Streams |-> "nothing"] /\ box' = [s \in Streams |-> "pending"]
    /\ got' = box' /\ overflow' = FALSE /\ late' = FALSE /\ grace' = FALSE
    /\ cause' = "none" /\ outcome' = "pending" /\ UNCHANGED runner

Owner == NextObject[2]
NeedsKey == Generating /\ NextObject[1] = "record" /\ keys[Owner] = None

CallsTool ==
    /\ NeedsKey /\ Fresh("start")
    /\ UNCHANGED onboarding

ToolReturned == command = "apply" /\ pc = "returned"

\* mutant: the keys of the other headsets are not looked at
AnyKey(k) == TRUE

\* register_public_key
NewKey(k) == \A d \in Headsets : keys[d] # k

\* The tool and the record it wrote are verified, and no two keys are equal.
TakesKey(k) ==
    /\ ToolReturned /\ outcome = "ok" /\ NewKey(k)
    /\ keys' = [keys EXCEPT ![Owner] = k]
    /\ Fresh("idle")
    /\ UNCHANGED <<command, step, files, missed, result>> /\ Stays

ToolFails ==
    /\ ToolReturned /\ RollsBack /\ Fresh("idle")
    /\ UNCHANGED <<step, files, keys, missed, result>> /\ Stays

-----------------------------------------------------------------------------
(* How apply ends.                                                           *)

Generated == command = "apply" /\ step = Len(Work)

Commits ==
    /\ Generated /\ Ends("generated")
    /\ UNCHANGED <<vars, step, disk, extras, keys, missed>> /\ Stays

\* The root is no longer the one that was created.
BindingFails ==
    /\ Generated /\ RollsBack
    /\ UNCHANGED <<vars, step, files, keys, missed, result>> /\ Stays

\* The inventory cannot be read back: neither committed nor rolled back.
DigestFails ==
    /\ Generated /\ Ends("failed")
    /\ UNCHANGED <<vars, step, disk, extras, keys, missed>> /\ Stays

\* A directory that is not empty cannot be deleted.
CanDelete(o) == IsDirectory(o) => IsEmpty(o)

\* mutant: only what could not be deleted although nothing was in the way counts
MissesQuietly(o) == missed' = (missed \/ CanDelete(o))

Misses(o) == missed' = TRUE

\* Bound of the model: the system refuses one deletion of a rollback; those of
\* directories that are not empty come on top.
Undoes(o, deleted) ==
    /\ command = "rollback" /\ IsNext(o)
    /\ handles' = handles \ {o}
    /\ IF deleted
       THEN CanDelete(o) /\ disk' = [disk EXCEPT ![o] = "absent"] /\ UNCHANGED missed
       ELSE (missed => ~CanDelete(o)) /\ Misses(o) /\ UNCHANGED disk
    /\ UNCHANGED <<vars, command, step, extras, keys, result>> /\ Stays

RolledBack ==
    /\ command = "rollback" /\ handles = {}
    /\ Ends(IF missed THEN "partial" ELSE "failed")
    /\ UNCHANGED <<vars, step, disk, extras, keys, missed>> /\ Stays

-----------------------------------------------------------------------------
(* cleanup.                                                                  *)

\* mutant: what the inventory lists is opened, but not compared
OpensAny == \A o \in Objects : Exists(o)

\* The same file, with one link, the same rights and the same content.
Unchanged(o) == disk[o] = "ours"

\* verify_exact_enumeration
NothingElse == extras = {}

\* CleanupSession::open: the inventory, the root and all that is listed.
Opens == NothingElse /\ \A o \in Objects : Unchanged(o)

ShowsCleanup ==
    /\ Idle /\ Opens
    /\ shown' = bundle /\ result' = "shown"
    /\ UNCHANGED <<vars, command, step, files, keys, missed, bundle, foreign>>

CleanupIsRefused ==
    /\ Idle /\ ~(Opens /\ shown = bundle) /\ IsRefused

CleanupBegins ==
    /\ Idle /\ Opens /\ shown = bundle
    /\ command' = "cleanup" /\ handles' = Objects /\ result' = "running"
    /\ UNCHANGED <<vars, step, disk, extras, keys, missed>> /\ Stays

Deletes(o) ==
    /\ command = "cleanup" /\ IsNext(o) /\ CanDelete(o)
    /\ disk' = [disk EXCEPT ![o] = "absent"]
    /\ IF o = Root THEN Ends("cleaned")
                   ELSE handles' = handles \ {o} /\ UNCHANGED <<command, result>>
    /\ UNCHANGED <<vars, step, extras, keys, missed>> /\ Stays

\* The first object that cannot be deleted ends the cleanup.
DeleteFails(o) ==
    /\ command = "cleanup" /\ IsNext(o) /\ Ends("incomplete")
    /\ UNCHANGED <<vars, step, disk, extras, keys, missed>> /\ Stays

-----------------------------------------------------------------------------
(* The process ends, and with its job the tool; other programs.              *)

Crash ==
    /\ command # "none" /\ Ends("crashed") /\ Fresh("idle")
    /\ UNCHANGED <<step, disk, extras, keys, missed>> /\ Stays

\* A retained handle of a file shares it for reading only.
Protected(o) == o \in handles

\* What other programs do does not meet the process of the tool, so it is enough
\* to have it between its calls.
Touches == pc = "idle" /\ foreign < MaxForeign /\ foreign' = foreign + 1
Elsewhere == UNCHANGED <<vars, command, step, handles, keys, missed, result, bundle, shown>>

Replaces(o, by) ==
    /\ ~IsDirectory(o) /\ Exists(o) /\ ~Protected(o) /\ Touches
    /\ disk' = [disk EXCEPT ![o] = by]
    /\ UNCHANGED extras /\ Elsewhere

Adds(o) ==
    /\ IsDirectory(o) /\ Exists(o) /\ o \notin extras /\ Touches
    /\ extras' = extras \cup {o}
    /\ UNCHANGED disk /\ Elsewhere

-----------------------------------------------------------------------------
OnboardingInit ==
    /\ runner \in Runners
    /\ pc = IF runner = "key_tool" THEN "idle" ELSE "start"
    /\ stage = "absent" /\ root = "none" /\ tree = "none"
    /\ written = [s \in Streams |-> "nothing"]
    /\ box = [s \in Streams |-> "pending"] /\ got = box
    /\ overflow = FALSE /\ late = FALSE /\ grace = FALSE
    /\ cause = "none" /\ outcome = "pending"
    /\ command = "none" /\ step = 0
    /\ disk = [o \in Objects |-> "absent"] /\ extras = {} /\ handles = {}
    /\ keys = [d \in Headsets |-> None] /\ missed = FALSE /\ result = "none"
    /\ bundle = 0 /\ shown = 0 /\ foreign = 0

\* Another command may be started.
Commands ==
    \/ RequestIsRefused \/ ToolIsRefused \/ ProvenanceIsRefused \/ PlanIsRefused \/ ApplyBegins
    \/ \E how \in {"partial", "failed"} : ApplyLeavesARoot(how)
    \/ ShowsCleanup \/ CleanupIsRefused \/ CleanupBegins

\* The command that runs makes a step.
Proceeds ==
    \/ CreatesDirectory \/ WritesFile \/ CallsTool
    \/ \E k \in Keys : TakesKey(k)
    \/ ToolFails \/ Commits \/ RolledBack
    \/ \E o \in Objects : Undoes(o, TRUE) \/ Undoes(o, FALSE)
    \/ \E o \in Objects : Deletes(o) \/ DeleteFails(o)

Fails == BindingFails \/ DigestFails \/ \E left \in {"absent", "torn"} : CreateFails(left)

Others ==
    \/ \E o \in Objects, by \in {"foreign", "absent"} : Replaces(o, by)
    \/ \E o \in Objects : Adds(o)

Calls == Next /\ UNCHANGED onboarding

OnboardingNext == Calls \/ Commands \/ Proceeds \/ Fails \/ Crash \/ Others

OnboardingSpec == OnboardingInit /\ [][OnboardingNext]_all

\* A command that runs goes on; nobody has to start one, and nothing has to fail.
OnboardingFairSpec ==
    /\ OnboardingSpec
    /\ WF_all(Proceeds)
    /\ WF_all(Calls /\ (Deadline \/ GracePasses))
    /\ WF_all(Calls /\ (Starting \/ Deciding \/ Ending))

-----------------------------------------------------------------------------
(* Properties.                                                               *)

\* The inventory is the commit marker: while it is there, and no cleanup has been
\* allowed and no other program was at work, everything it lists is there and no
\* two headsets have the same key.  A rollback that could not delete it says so.
InventoryMeansWhole ==
    disk[Inventory] = "ours" /\ shown # bundle /\ foreign = 0 /\ command # "rollback" /\ ~missed =>
        /\ \A o \in Objects : disk[o] = "ours"
        /\ \A d, e \in Headsets : d # e => keys[d] # keys[e]

\* An apply that only reports an error has left no seed behind, unless the whole
\* bundle with its inventory; a cleanup that reports success has left nothing.
ResultsAreHonest ==
    /\ result = "failed" =>
          (\A d \in Headsets : ~Exists(Seed(d))) \/ (foreign = 0 => \A o \in Objects : disk[o] = "ours")
    /\ result = "cleaned" => \A o \in Objects : ~Exists(o)

\* What another program wrote is never deleted, and a cleanup deletes nothing but
\* the bundle it was shown.
DeletesOnlyItsOwn ==
    [][\A o \in Objects :
          o \in handles /\ Exists(o) /\ ~Exists(o)' =>
              disk[o] = "ours" /\ (command = "cleanup" => shown = bundle)]_all

\* Every command and every call ends, whatever the tool does.
CommandsEnd ==
    pc = "start" \/ command # "none" ~> pc \in {"idle", "returned"} /\ command = "none"
=============================================================================
