------------------------------ MODULE Recovery ------------------------------
(***************************************************************************)
(* The store, its state file and process crashes (src/persistence.cpp, and *)
(* the start-up code of tools/coordinator.cpp and cli/cli.cpp).            *)
(*                                                                         *)
(* save_state holds the store's mutex while it writes a temporary file,    *)
(* removes the old state file and renames the temporary file into its      *)
(* place.  A crash ends the process and the next one starts: it loads the  *)
(* state file if there is one.  The backend's files outlive the process.   *)
(***************************************************************************)
EXTENDS Store, FiniteSetsExt

CONSTANT MaxCrashes   \* bound: crashes of the process

ASSUME RecoveryAssumption == MaxCrashes \in Nat

VARIABLES
    image,     \* what the state file holds; NoImage when there is no file
    saving,    \* how far the save_state call in progress has come
    crashes,   \* crashes so far
    swept      \* history: ids whose record a gc_run has swept, before or
               \* after the state file that now holds it was written

recVars == <<image, saving, crashes, swept>>
allVars == <<vars, recVars>>

NoImage == [saved |-> FALSE]

\* What save_state writes of the checkpoint records (descriptor, manifest,
\* chunk list, replica set), and of blobs, replicas and the dedup table.
SavedRecords ==
    [desc |-> [c \in Ids |-> IF c \in Existing THEN desc[c] ELSE NoDesc],
     life |-> life, chunks |-> chunks, dur |-> dur, integ |-> integ]
SavedBlobs == [entries |-> entries, refs |-> refs, blobs |-> blobs, held |-> held]
SavedPolicies == retention

\* What save_state writes: neither next_family_id, nor the next generations,
\* nor gc.reclaimable_blobs, nor descriptors that were never published.
Snapshot ==
    [saved |-> TRUE, families |-> {f \in FamilyIds : nextGen[f] > 0}, nextId |-> nextId,
     records |-> SavedRecords, dedup |-> SavedBlobs, retention |-> SavedPolicies,
     phase |-> gc.phase, boot |-> boot]

RecInit ==
    /\ Init
    /\ image = NoImage
    /\ saving = "no"
    /\ crashes = 0
    /\ swept = {}

-----------------------------------------------------------------------------
\* What a step of the store leaves alone, and what it adds to the history.
InMemory ==
    /\ swept' = (swept \cup {c \in Live : life'[c] = "deleted"}) \ (Existing' \ Existing)
    /\ UNCHANGED <<image, saving, crashes>>

\* A step of the store.  A call other than save_state waits for the mutex.
StoreStep ==
    /\ IF saving = "no" THEN Next ELSE Environment
    /\ InMemory

\* Mutant: save_state does not wait for the mutex.
WriteTemp_NoMutex ==
    /\ saving = "no"
    /\ saving' = "temp"
    /\ UNCHANGED <<vars, image, crashes, swept>>

\* The temporary file is complete and flushed.
WriteTemp ==
    /\ MutexFree /\ saving = "no"
    /\ saving' = "temp"
    /\ UNCHANGED <<vars, image, crashes, swept>>

\* The error of remove is ignored.
RemoveOld ==
    /\ saving = "temp"
    /\ image' \in {NoImage, image}
    /\ saving' = "removed"
    /\ UNCHANGED <<vars, crashes, swept>>

\* rename replaces what is there; when it fails, save_state throws.
Rename ==
    /\ saving = "removed"
    /\ image' \in {Snapshot, image}
    /\ saving' = "no"
    /\ UNCHANGED <<vars, crashes, swept>>

-----------------------------------------------------------------------------
\* The checkpoints of family f in the state file.
SavedGens(f) ==
    LET saved == image.records
        members == {c \in Ids : saved.life[c] # "none" /\ saved.desc[c].family = f}
    IN  {saved.desc[c].gen : c \in members}

\* Every next generation starts at 1, is raised to the highest one loaded, and
\* is then advanced by one, also where nothing was loaded.
LoadedNextGen(f) ==
    IF f \notin image.families THEN 0
    ELSE Max(SavedGens(f) \cup {1}) + 1

\* Mutant: the id counter is left where the constructor put it.
load_state_KeepCounter ==
    /\ nextFamily' = 1
    /\ nextGen' = [f \in FamilyIds |-> LoadedNextGen(f)]
    /\ nextId' = 1
    /\ desc' = image.records.desc
    /\ life' = image.records.life /\ chunks' = image.records.chunks
    /\ dur' = image.records.dur /\ integ' = image.records.integ
    /\ entries' = image.dedup.entries /\ refs' = image.dedup.refs
    /\ blobs' = image.dedup.blobs /\ held' = image.dedup.held
    /\ retention' = image.retention
    /\ gc' = [phase |-> image.phase, reclaimable |-> {}]
    /\ boot' = image.boot

\* Mutant: the dedup entries are not loaded.
load_state_NoDedup ==
    /\ nextFamily' = 1
    /\ nextGen' = [f \in FamilyIds |-> LoadedNextGen(f)]
    /\ nextId' = image.nextId
    /\ desc' = image.records.desc
    /\ life' = image.records.life /\ chunks' = image.records.chunks
    /\ dur' = image.records.dur /\ integ' = image.records.integ
    /\ entries' = {} /\ refs' = [d \in Digests |-> 0]
    /\ blobs' = image.dedup.blobs /\ held' = image.dedup.held
    /\ retention' = image.retention
    /\ gc' = [phase |-> image.phase, reclaimable |-> {}]
    /\ boot' = image.boot

\* load_state in a new process.  The boot id the process was started with
\* gives way to the saved one.
load_state ==
    /\ nextFamily' = 1
    /\ nextGen' = [f \in FamilyIds |-> LoadedNextGen(f)]
    /\ nextId' = image.nextId
    /\ desc' = image.records.desc
    /\ life' = image.records.life /\ chunks' = image.records.chunks
    /\ dur' = image.records.dur /\ integ' = image.records.integ
    /\ entries' = image.dedup.entries /\ refs' = image.dedup.refs
    /\ blobs' = image.dedup.blobs /\ held' = image.dedup.held
    /\ retention' = image.retention
    /\ gc' = [phase |-> image.phase, reclaimable |-> {}]
    /\ boot' = image.boot

\* A new process without a state file starts from nothing.
start_empty ==
    /\ nextFamily' = 1 /\ nextGen' = [f \in FamilyIds |-> 0] /\ nextId' = 1
    /\ desc' = [c \in Ids |-> NoDesc]
    /\ life' = [c \in Ids |-> "none"] /\ chunks' = [c \in Ids |-> <<>>]
    /\ dur' = [c \in Ids |-> "healthy"] /\ integ' = [c \in Ids |-> "unknown"]
    /\ entries' = {} /\ refs' = [d \in Digests |-> 0]
    /\ blobs' = {} /\ held' = {}
    /\ retention' = [p \in PolicyIds |-> NoPolicy]
    /\ gc' = [phase |-> "idle", reclaimable |-> {}]
    /\ boot' \in Boots

\* LocalBackend::commit removes the old file before it renames the new one:
\* a crash inside a chunk write leaves the old file, no file or the new one.
CrashDisks ==
    {disk} \cup IF pub.step = "write" /\ available
                THEN {[disk EXCEPT ![Chunk] = s] : s \in {"absent", "good"}} ELSE {}

\* The next process is started on the same files.
NewProcess ==
    /\ IF image.saved THEN load_state ELSE start_empty
    /\ pub' = Idle
    /\ saving' = "no"
    /\ swept' = IF image.saved THEN {c \in swept : image.records.life[c] # "none"} ELSE {}
    /\ UNCHANGED <<available, faults, image>>

\* The process dies at any point and is started again.
Crash ==
    /\ crashes < MaxCrashes
    /\ crashes' = crashes + 1
    /\ disk' \in CrashDisks
    /\ NewProcess

RecNext == StoreStep \/ WriteTemp \/ RemoveOld \/ Rename \/ Crash

RecSpec == RecInit /\ [][RecNext]_allVars

-----------------------------------------------------------------------------
(***************************************************************************)
(* Properties.                                                             *)
(***************************************************************************)
\* The store's variables keep their types through crashes and loads, and a
\* save holds the mutex.
RecTypeOK ==
    /\ TypeOK
    /\ saving \in {"no", "temp", "removed"}
    /\ saving # "no" => MutexFree
    /\ crashes \in 0..MaxCrashes
    /\ swept \subseteq Existing

\* Without backend faults, a live checkpoint has lost a chunk only if some
\* gc_run swept it: a crash at any point of publish, gc_run or save_state, and
\* a load of whatever state file is there, costs no other checkpoint anything.
LossOnlyBySweep ==
    faults = 0 => \A c \in Live \ swept : \A d \in ChunksOf(c) : disk[d] = "good"

\* Without backend faults, no crash and no load leaves a digest with more
\* references than live checkpoints and the publish under way hold: what nothing
\* refers to can be collected.  It may have fewer: a load can bring back an entry
\* whose bytes are gone, and a chunk written under it is not counted.
NoLeakedReferences ==
    faults = 0 => \A d \in Digests :
        refs[d] <= Cardinality(References(Live, d)) + Cardinality(InFlight(d))

\* The state file never disagrees with the running store about which stream an
\* id stands for, and the store knows every checkpoint in the file: an id that
\* was saved is not given to another checkpoint after a restart.
SavedRecordsKept ==
    image.saved =>
        \A c \in Ids : image.records.life[c] # "none" =>
            /\ c \in Existing
            /\ desc[c] = image.records.desc[c]
            /\ chunks[c] = image.records.chunks[c]

\* What clients would see of the catalogue in the state file.
VisibleFile ==
    IF image.saved
    THEN [saved |-> TRUE,
          entries |-> [c \in Ids |-> VisibleEntry(image.records.desc[c], image.records.chunks[c],
                                                  image.records.life[c])]]
    ELSE NoImage

\* The store keeps its promise about restarts, with every step of publish,
\* gc_run and save_state and a crash between any two of them: what is loaded is
\* the catalogue of one moment, at which no call was half done, and no entry is
\* ever given to another stream or goes back to an earlier stage while a process
\* runs.
Dur == INSTANCE Durable
         WITH memory <- Visible, file <- VisibleFile, busy <- saving # "no"
ImplementsDurable == Dur!DurableSpec

\* README.md, "Writes are atomic (temp -> flush -> rename)": once there is a
\* state file, there always is one.  atomic_write_file removes the old file
\* before it renames the new one.
SaveIsAtomic == [][image.saved => image'.saved]_allVars

\* README.md, "a monotonically increasing generation": no two checkpoints of a
\* family have the same generation.  After a restart create_family hands out
\* the id of a loaded family again and sets its next generation to 1.
GenerationsUnique ==
    \A c, x \in Existing :
        desc[c].family = desc[x].family /\ desc[c].gen = desc[x].gen => c = x
=============================================================================
