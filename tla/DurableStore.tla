----------------------------- MODULE DurableStore -----------------------------
(***************************************************************************)
(* DurableStateStore (apps/fleet-hub-local/src/lib.rs): two alternating    *)
(* slots, each holding one generation of the complete state.  A persist is *)
(* a sequence of file operations, each of which may fail, between which    *)
(* the process may be killed and the machine may lose power.               *)
(*                                                                         *)
(* A killed process leaves the files as they are.  A power loss also takes *)
(* back renames and removals since the directory was last synced, latest   *)
(* first, and the contents of a file that was not synced.  The sync is     *)
(* that of Unix, of the whole directory.                                   *)
(***************************************************************************)
EXTENDS Integers, FiniteSets

CONSTANTS
    Values,          \* the states of the hub; each one restores
    Fresh,           \* the state of a first start
    NoFile,
    MaxGeneration,   \* largest generation (u64::MAX in the code)
    MaxDamages       \* bound of the model on damaged files

ASSUME ValuesAssumption == Fresh \in Values
ASSUME GenerationAssumption == MaxGeneration \in Nat
ASSUME DamagesAssumption == MaxDamages \in Nat

\* A state file; synced if its contents are on stable storage, undamaged.
File == [generation : 1..MaxGeneration, value : Values, synced : BOOLEAN]
ASSUME NoFileAssumption == NoFile \notin File

Slots == [0..1 -> File \cup {NoFile}]

VARIABLES
    up,
    visible,         \* runtime.hub; when down, what was last shown of it
    generation,      \* DurableStateStore.generation
    step,            \* where the persist under way is
    candidate,       \* the state it writes
    temporary,       \* its temporary file
    slots,           \* the slots, as the running machine sees them
    survivors,       \* the slots a power loss may leave
    damages,
    possible,        \* history: acknowledged last, or requested since
    acknowledged     \* history: the generation acknowledged last

files == <<temporary, slots, survivors>>
storeVars == <<up, visible, generation, step, candidate, temporary, slots,
               survivors, damages, possible, acknowledged>>

Steps == {"idle", "write", "sync", "remove", "rename", "flush"}

Slot(g) == g % 2
TargetSlot == Slot(generation + 1)

-----------------------------------------------------------------------------
(* persist, called with the lock held and the candidate v.                   *)

\* mutant: the generation is not checked for exhaustion
BeginUnchecked(v) ==
    /\ up /\ step = "idle"
    /\ candidate' = v /\ step' = "write"
    /\ possible' = possible \cup {v}
    /\ UNCHANGED <<up, visible, generation, files, damages, acknowledged>>

Begin(v) ==
    /\ up /\ step = "idle"
    /\ generation < MaxGeneration
    /\ candidate' = v /\ step' = "write"
    /\ possible' = possible \cup {v}
    /\ UNCHANGED <<up, visible, generation, files, damages, acknowledged>>

At(current, next) ==
    /\ up /\ step = current /\ step' = next
    /\ UNCHANGED <<up, generation, visible, candidate, damages, possible, acknowledged>>

\* A stale temporary is removed; a new one is created and written.
WriteTemporary ==
    /\ At("write", "sync")
    /\ temporary' = [generation |-> generation + 1, value |-> candidate, synced |-> FALSE]
    /\ UNCHANGED <<slots, survivors>>

\* mutant: the temporary is published without a sync
NoSync ==
    /\ At("sync", "remove")
    /\ UNCHANGED files

SyncTemporary ==
    /\ At("sync", "remove")
    /\ temporary' = [temporary EXCEPT !.synced = TRUE]
    /\ UNCHANGED <<slots, survivors>>

RemoveTarget ==
    /\ At("remove", "rename")
    /\ slots' = [slots EXCEPT ![TargetSlot] = NoFile]
    /\ survivors' = survivors \cup {slots'}
    /\ UNCHANGED temporary

RenameTemporary ==
    /\ At("rename", "flush")
    /\ slots' = [slots EXCEPT ![TargetSlot] = temporary]
    /\ survivors' = survivors \cup {slots'}
    /\ temporary' = NoFile

\* mutant: the directory is not synced
NoFlush ==
    /\ up /\ step = "flush" /\ step' = "idle"
    /\ generation' = generation + 1
    /\ visible' = candidate
    /\ possible' = {candidate} /\ acknowledged' = generation'
    /\ UNCHANGED <<up, candidate, temporary, slots, survivors, damages>>

\* The directory is synced; the caller swaps the candidate in and answers.
FlushAndAcknowledge ==
    /\ up /\ step = "flush" /\ step' = "idle"
    /\ survivors' = {slots}
    /\ generation' = generation + 1
    /\ visible' = candidate
    /\ possible' = {candidate} /\ acknowledged' = generation'
    /\ UNCHANGED <<up, candidate, temporary, slots, damages>>

\* Any of the operations fails: the caller answers durable_state_failed.
PersistFails ==
    /\ up /\ step # "idle" /\ step' = "idle"
    /\ UNCHANGED <<up, visible, generation, candidate, files, damages, possible,
                   acknowledged>>

-----------------------------------------------------------------------------
(* The process stops.                                                        *)

Killed ==
    /\ up /\ up' = FALSE /\ step' = "idle"
    /\ UNCHANGED <<visible, generation, candidate, files, damages, possible,
                   acknowledged>>

PowerLoss ==
    /\ up /\ up' = FALSE /\ step' = "idle"
    /\ slots' \in survivors
    /\ survivors' = {slots'}
    /\ temporary' = NoFile
    /\ UNCHANGED <<visible, generation, candidate, damages, possible, acknowledged>>

Damaged(t, s) == [t EXCEPT ![s] = [@ EXCEPT !.synced = FALSE]]

\* A slot is found damaged.
Damage(s) ==
    /\ ~up /\ damages < MaxDamages
    /\ slots[s] # NoFile
    /\ slots' = Damaged(slots, s)
    /\ survivors' = {IF t[s] = slots[s] THEN Damaged(t, s) ELSE t : t \in survivors}
    /\ damages' = damages + 1
    /\ UNCHANGED <<up, visible, generation, step, candidate, temporary, possible,
                   acknowledged>>

-----------------------------------------------------------------------------
(* DurableStateStore::open                                                   *)

\* read_state_slot: the slots of t that hold a state of their parity.
Readable(t) == {s \in 0..1 : t[s] # NoFile /\ t[s].synced /\ Slot(t[s].generation) = s}

Found(t) == \E s \in 0..1 : t[s] # NoFile

\* mutant: the first readable slot, whichever generation it holds
LowestSlot(t) == {s \in Readable(t) : \A r \in Readable(t) : s <= r}

\* read_state_candidates: the newest one.
NewestSlots(t) ==
    {s \in Readable(t) : \A r \in Readable(t) : t[r].generation <= t[s].generation}

StartFresh ==
    /\ ~Found(slots)
    /\ generation' = 0 /\ visible' = Fresh

StartRestored ==
    \E s \in NewestSlots(slots) :
        /\ generation' = slots[s].generation
        /\ visible' = slots[s].value

\* With slots but none that can be read the start fails, and no step is taken.
Start ==
    /\ ~up /\ up' = TRUE
    /\ StartFresh \/ StartRestored
    /\ acknowledged' = IF acknowledged < generation' THEN acknowledged ELSE generation'
    /\ UNCHANGED <<step, candidate, files, damages, possible>>

-----------------------------------------------------------------------------
StoreInit ==
    /\ up = TRUE /\ visible = Fresh /\ generation = 0
    /\ step = "idle" /\ candidate = Fresh /\ temporary = NoFile
    /\ slots = [s \in 0..1 |-> NoFile]
    /\ survivors = {slots}
    /\ damages = 0
    /\ possible = {Fresh} /\ acknowledged = 0

StoreNext ==
    \/ \E v \in Values : Begin(v)
    \/ WriteTemporary \/ SyncTemporary \/ RemoveTarget \/ RenameTemporary
    \/ FlushAndAcknowledge
    \/ PersistFails
    \/ Killed \/ PowerLoss
    \/ \E s \in 0..1 : Damage(s)
    \/ Start

StoreSpec == StoreInit /\ [][StoreNext]_storeVars

-----------------------------------------------------------------------------
(* Properties.                                                               *)

\* Every variable has its type.
StoreTypeOK ==
    /\ up \in BOOLEAN /\ visible \in Values /\ generation \in 0..MaxGeneration
    /\ step \in Steps /\ candidate \in Values
    /\ (step # "idle" => generation < MaxGeneration)
    /\ temporary \in File \cup {NoFile}
    /\ slots \in Slots /\ survivors \subseteq Slots
    /\ damages \in 0..MaxDamages
    /\ possible \subseteq Values /\ acknowledged \in 0..MaxGeneration

\* Whatever moment the process is killed or the power fails at, the files left
\* behind can be opened: open finds no slot at all and the fleet is new, or a
\* newest state, and never two of one generation ("ambiguous duplicate").
AlwaysOpens ==
    damages = 0 => \A t \in survivors \cup {slots} :
        IF Found(t) THEN Cardinality(NewestSlots(t)) = 1
                    ELSE Fresh \in possible

\* The store does what AcknowledgedState promises.
Promise == INSTANCE AcknowledgedState WITH intact <- damages = 0
KeepsItsPromise == Promise!Spec

\* "If the newest slot is damaged, the prior valid slot is used": a restart is
\* behind the last acknowledged generation by no more than the damaged slots.
LosesAtMostTheDamaged == [][~up /\ up' => generation' >= acknowledged - damages]_storeVars
=============================================================================
