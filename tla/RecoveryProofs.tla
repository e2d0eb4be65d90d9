--------------------------- MODULE RecoveryProofs ---------------------------
(***************************************************************************)
(* What survives crashes, saves and loads, for every value of the          *)
(* constants.                                                              *)
(***************************************************************************)
EXTENDS Recovery, StoreProofs

\* The provers for a leaf that names none, in the order in which they are tried.
\* tlapm drops an attempt that takes it over 5 seconds to prepare: the next repeats it.
USE SMTT(60), SMTT(61), SMTT(62), SMTT(63), SMTT(64), ZenonT(60), SMTT(65), SMTT(66)

\* A finite set of numbers that is not empty has a largest element.
LEMMA MaxIsMember ==
    ASSUME NEW S \in SUBSET Nat, S # {}, IsFiniteSet(S)
    PROVE  Max(S) \in S
<1> DEFINE Above(x) == {y \in S : y > x}
           T == {Above(x) : x \in S}
           R == StrictSubsetOrdering(S)
<1>1. IsWellFoundedOn(R, FiniteSubsetsOf(S))
  BY FS_StrictSubsetOrderingWellFounded
<1>2. T \subseteq FiniteSubsetsOf(S) /\ T # {}
  <2>1. \A x \in S : Above(x) \in SUBSET S /\ IsFiniteSet(Above(x))
    BY FS_Subset
  <2> QED
    BY ZenonT(60), <2>1 DEF FiniteSubsetsOf
<1>3. PICK u \in T : \A v \in T : ~ (<<v, u>> \in R)
  <2> HIDE DEF T, R
  <2> QED
    BY <1>1, <1>2, WFMin
<1>4. PICK x \in S : u = Above(x)
  OBVIOUS
<1>5. \A y \in S : x >= y
  <2> SUFFICES ASSUME NEW y \in S, ~ (x >= y) PROVE FALSE
    OBVIOUS
  <2>0. x \in Nat /\ y \in Nat /\ y > x
    OBVIOUS
  <2>1. Above(y) \in SUBSET S /\ Above(x) \in SUBSET S /\ Above(y) \subseteq Above(x)
    <3>1. \A z \in S : z > y => z > x
      <4> SUFFICES ASSUME NEW z \in S, z > y PROVE z > x
        OBVIOUS
      <4>1. z \in Nat
        OBVIOUS
      <4> HIDE DEF T, R
      <4> QED
        BY <2>0, <4>1
    <3> QED
      BY ZenonT(60), <3>1
  <2>2. y \in Above(x) /\ y \notin Above(y)
    BY <2>0
  <2>3. <<Above(y), Above(x)>> \in R
    BY <2>1, <2>2 DEF StrictSubsetOrdering
  <2>4. Above(y) \in T
    OBVIOUS
  <2> QED
    BY ZenonT(60), <1>3, <1>4, <2>3, <2>4
<1>6. \E z \in S : \A y \in S : z >= y
  BY <1>5
<1> QED
  BY ZenonT(60), <1>6 DEF Max
-----------------------------------------------------------------------------
(***************************************************************************)
(* Types.                                                                  *)
(***************************************************************************)
Images ==
    [saved : {TRUE}, families : SUBSET FamilyIds, nextId : 1..(MaxIds + 1),
     records : [desc : [Ids -> Descriptors],
                life : [Ids -> {"none", "committed", "retired", "deleted"}],
                chunks : [Ids -> Streams],
                dur : [Ids -> {"healthy", "under_replicated", "degraded"}],
                integ : [Ids -> {"unknown", "verified", "corrupt", "missing"}]],
     dedup : [entries : SUBSET Digests, refs : [Digests -> Nat], blobs : SUBSET Digests,
              held : SUBSET Digests],
     retention : [PolicyIds -> Policies], phase : {"idle", "marking", "complete"},
     boot : Boots]

\* The state file is absent or holds a typed snapshot.
ImageType ==
    \/ image = NoImage
    \/ /\ image \in Images
       /\ \A d \in Digests \ image.dedup.entries : image.dedup.refs[d] = 0

RecTypeInv == TypeInv /\ RecTypeOK /\ ImageType

\* A new process starts from a typed store.
LEMMA NewProcessTyped ==
    ASSUME RecTypeInv, NewProcess, disk' \in [Digests -> {"absent", "good", "bad"}]
    PROVE  TypeInv' /\ ImageType'
<1>1. /\ available' = available /\ faults' = faults /\ image' = image /\ pub' = Idle
      /\ available \in BOOLEAN /\ faults \in 0..MaxFaults
  BY DEF NewProcess, RecTypeInv, TypeInv, TypeOK
<1>2. ImageType'
  BY <1>1 DEF ImageType, RecTypeInv
<1>3. Idle \in Publishing /\ Idle.step = "idle"
  BY StoreAssumption DEF Idle, NoFresh, Publishing, Streams
<1>4. PublishInRange'
  BY <1>1, <1>3 DEF PublishInRange
<1>5. CASE image.saved /\ load_state
  <2>1. /\ image \in Images
        /\ \A d \in Digests \ image.dedup.entries : image.dedup.refs[d] = 0
    BY <1>5 DEF RecTypeInv, ImageType, NoImage
  <2>2. /\ image.families \subseteq FamilyIds /\ image.nextId \in 1..(MaxIds + 1)
        /\ image.retention \in [PolicyIds -> Policies] /\ image.boot \in Boots
        /\ image.phase \in {"idle", "marking", "complete"}
    BY <2>1 DEF Images
  <2>3. /\ image.records.desc \in [Ids -> Descriptors]
        /\ image.records.life \in [Ids -> {"none", "committed", "retired", "deleted"}]
        /\ image.records.chunks \in [Ids -> Streams]
        /\ image.records.dur \in [Ids -> {"healthy", "under_replicated", "degraded"}]
        /\ image.records.integ \in [Ids -> {"unknown", "verified", "corrupt", "missing"}]
    BY <2>1 DEF Images
  <2>4. /\ image.dedup.entries \subseteq Digests /\ image.dedup.blobs \subseteq Digests
        /\ image.dedup.held \subseteq Digests /\ image.dedup.refs \in [Digests -> Nat]
    BY <2>1 DEF Images
  <2>5. nextGen' \in [FamilyIds -> Nat]
    <3>1. ASSUME NEW f \in FamilyIds PROVE LoadedNextGen(f) \in Nat
      <4> DEFINE G == SavedGens(f) \cup {1}
      <4>1. IsFiniteSet(Ids)
        BY FS_Interval, StoreAssumption DEF Ids
      <4>2. G \in SUBSET Nat
        BY <2>3 DEF SavedGens, Descriptors
      <4>3. IsFiniteSet(G)
        <5> DEFINE M == {c \in Ids : image.records.life[c] # "none"
                                     /\ image.records.desc[c].family = f}
        <5>1. IsFiniteSet(M)
          BY <4>1, FS_Subset
        <5>2. SavedGens(f) = {image.records.desc[c].gen : c \in M}
          BY ZenonT(60) DEF SavedGens
        <5> DEFINE g == [c \in M |-> image.records.desc[c].gen]
        <5>3. g \in Surjection(M, SavedGens(f))
          BY <5>2 DEF Surjection
        <5>4. IsFiniteSet(SavedGens(f))
          BY <5>1, <5>3, FS_Surjection
        <5> QED
          BY <5>4, FS_AddElement
      <4>4. Max(G) \in Nat
        <5> HIDE DEF G
        <5>1. G # {}
          BY DEF G
        <5> QED
          BY ZenonT(60), <4>2, <4>3, <5>1, MaxIsMember
      <4> QED
        BY <4>4 DEF LoadedNextGen
    <3> QED
      BY <1>5, <3>1 DEF load_state
  <2>6. gc' \in Snapshots
    BY <1>5, <2>2 DEF load_state, Snapshots
  <2>7. nextFamily' \in 1..(MaxFamilies + 1)
    BY <1>5, StoreAssumption DEF load_state
  <2>8. TypeOK'
    BY ZenonT(60), <1>1, <1>3, <1>5, <2>1, <2>2, <2>3, <2>4, <2>5, <2>6, <2>7
    DEF load_state, TypeOK
  <2> QED
    BY <1>2, <1>4, <2>8 DEF TypeInv
<1>6. CASE start_empty
  <2>1. NoDesc \in Descriptors /\ NoPolicy \in Policies /\ <<>> \in Streams
    BY StoreAssumption DEF NoDesc, Descriptors, NoPolicy, Policies, Streams
  <2>2. gc' \in Snapshots /\ nextGen' \in [FamilyIds -> Nat]
    BY <1>6 DEF start_empty, Snapshots
  <2>3. nextFamily' \in 1..(MaxFamilies + 1) /\ nextId' \in 1..(MaxIds + 1)
    BY <1>6, StoreAssumption DEF start_empty
  <2>4. TypeOK'
    BY ZenonT(60), <1>1, <1>3, <1>6, <2>1, <2>2, <2>3 DEF start_empty, TypeOK
  <2> QED
    BY <1>2, <1>4, <2>4 DEF TypeInv
<1> QED
  BY <1>5, <1>6 DEF NewProcess

\* What save_state writes is typed.
LEMMA SnapshotTyped ==
    ASSUME TypeInv
    PROVE  /\ Snapshot \in Images
           /\ \A d \in Digests \ Snapshot.dedup.entries : Snapshot.dedup.refs[d] = 0
<1>1. NoDesc \in Descriptors
  BY StoreAssumption DEF NoDesc, Descriptors
<1>2. SavedRecords.desc \in [Ids -> Descriptors]
  BY <1>1 DEF SavedRecords, TypeInv, TypeOK
<1>3. SavedRecords \in [desc : [Ids -> Descriptors],
                        life : [Ids -> {"none", "committed", "retired", "deleted"}],
                        chunks : [Ids -> Streams],
                        dur : [Ids -> {"healthy", "under_replicated", "degraded"}],
                        integ : [Ids -> {"unknown", "verified", "corrupt", "missing"}]]
  BY <1>2 DEF SavedRecords, TypeInv, TypeOK
<1>4. SavedBlobs \in [entries : SUBSET Digests, refs : [Digests -> Nat],
                      blobs : SUBSET Digests, held : SUBSET Digests]
  BY DEF SavedBlobs, TypeInv, TypeOK
<1>5. /\ nextId \in 1..(MaxIds + 1) /\ retention \in [PolicyIds -> Policies]
      /\ gc.phase \in {"idle", "marking", "complete"} /\ boot \in Boots
  BY DEF TypeInv, TypeOK, Snapshots
<1>6. Snapshot \in Images
  BY <1>3, <1>4, <1>5 DEF Snapshot, Images, SavedPolicies
<1> QED
  BY <1>6 DEF Snapshot, SavedBlobs, TypeInv, TypeOK

\* Types hold at the start.
LEMMA RecTypeInit == RecInit => RecTypeInv
<1> SUFFICES ASSUME RecInit PROVE RecTypeInv
  OBVIOUS
<1>1. TypeInv
  BY TypeInit DEF RecInit
<1> QED
  BY <1>1, RecoveryAssumption DEF RecInit, RecTypeInv, RecTypeOK, ImageType, TypeInv

\* What the disk can look like after a crash.
LEMMA CrashDisksTyped ==
    ASSUME TypeInv
    PROVE  \A x \in CrashDisks : x \in [Digests -> {"absent", "good", "bad"}]
BY DEF CrashDisks, TypeInv, TypeOK

\* A process ends, by a crash or by itself, and the next one is started.
Restart == NewProcess /\ disk' \in CrashDisks /\ crashes' \in 0..MaxCrashes

\* A crash is such an end.
LEMMA CrashRestarts ==
    ASSUME RecTypeInv, Crash
    PROVE  Restart
BY RecoveryAssumption DEF Crash, Restart, RecTypeInv, RecTypeOK

\* Types are kept by steps of the store, of save_state, by crashes and exits.
LEMMA RecTypeStep ==
    ASSUME RecTypeInv, [RecNext]_allVars \/ Restart
    PROVE  RecTypeInv'
<1>1. /\ TypeInv /\ ImageType /\ saving \in {"no", "temp", "removed"}
      /\ (saving # "no" => pub.step = "idle") /\ crashes \in 0..MaxCrashes
      /\ swept \subseteq Existing /\ Existing \subseteq Ids
  BY DEF RecTypeInv, RecTypeOK, MutexFree, Existing
<1>2. CASE StoreStep
  <2>1. Next
    BY <1>2 DEF StoreStep, Next
  <2>2. TypeInv' /\ Existing \subseteq Existing'
    BY <1>1, <2>1, TypeStep, RecordsStay
  <2>3. image' = image /\ saving' = saving /\ crashes' = crashes
    BY <1>2 DEF StoreStep, InMemory
  <2>4. saving' # "no" => pub'.step = "idle"
    <3>1. Environment => pub' = pub
      BY DEF Environment, Damage, Outage, Return
    <3> QED
      BY ZenonT(60), <1>1, <1>2, <2>3, <3>1 DEF StoreStep
  <2>5. swept' \subseteq Existing'
    BY <1>1, <1>2, <2>2 DEF StoreStep, InMemory, Live, Existing
  <2> QED
    BY <1>1, <2>2, <2>3, <2>4, <2>5 DEF RecTypeInv, RecTypeOK, ImageType, TypeInv, MutexFree
<1>3. ASSUME UNCHANGED <<vars, crashes, swept>> PROVE TypeInv' /\ swept' \subseteq Existing'
  <2>1. life' = life
    BY <1>3 DEF vars
  <2>2. TypeInv'
    BY ZenonT(60), <1>1, <1>3, TypeStep
  <2> QED
    BY ZenonT(60), <1>1, <1>3, <2>1, <2>2 DEF Existing
<1>4. CASE WriteTemp
  <2>1. pub' = pub /\ pub.step = "idle"
    BY <1>4 DEF WriteTemp, vars, MutexFree
  <2> QED
    BY ZenonT(60), <1>1, <1>3, <1>4, <2>1
    DEF WriteTemp, RecTypeInv, RecTypeOK, ImageType, TypeInv, MutexFree
<1>5. CASE RemoveOld
  <2>1. pub' = pub /\ pub.step = "idle"
    BY <1>1, <1>5 DEF RemoveOld, vars
  <2>2. ImageType'
    BY <1>1, <1>5 DEF RemoveOld, ImageType
  <2> QED
    BY ZenonT(60), <1>1, <1>3, <1>5, <2>1, <2>2
    DEF RemoveOld, RecTypeInv, RecTypeOK, TypeInv, MutexFree
<1>6. CASE Rename
  <2>1. ImageType'
    <3>1. CASE image' = Snapshot
      BY <1>1, <3>1, SnapshotTyped DEF ImageType
    <3>2. CASE image' = image
      BY <1>1, <3>2 DEF ImageType
    <3> QED
      BY ZenonT(60), <1>6, <3>1, <3>2 DEF Rename
  <2> QED
    BY <1>1, <1>3, <1>6, <2>1 DEF Rename, RecTypeInv, RecTypeOK, TypeInv
<1>7. CASE Restart
  <2>1. TypeInv' /\ ImageType'
    BY ZenonT(60), <1>1, <1>7, NewProcessTyped, CrashDisksTyped DEF Restart
  <2>2. swept' \subseteq Existing'
    <3>1. CASE image.saved
      BY ZenonT(60), <1>1, <1>7, <3>1 DEF Restart, NewProcess, load_state, Existing
    <3>2. CASE ~ image.saved
      BY <1>7, <3>2 DEF Restart, NewProcess
    <3> QED
      BY ZenonT(60), <3>1, <3>2
  <2>3. saving' = "no" /\ crashes' \in 0..MaxCrashes
    BY <1>7 DEF Restart, NewProcess
  <2> QED
    BY ZenonT(60), <2>1, <2>2, <2>3 DEF RecTypeInv, RecTypeOK, TypeInv
<1>8. CASE UNCHANGED allVars
  <2>1. UNCHANGED <<vars, image, saving, crashes, swept>> /\ pub' = pub
    BY <1>8 DEF allVars, recVars, vars
  <2> QED
    BY <1>1, <1>3, <2>1 DEF RecTypeInv, RecTypeOK, ImageType, TypeInv, MutexFree
<1> QED
  BY <1>2, <1>4, <1>5, <1>6, <1>7, <1>8, CrashRestarts DEF RecNext

\* The store's variables keep their types through crashes, saves and loads, a
\* save holds the mutex, and every swept id has a record.
THEOREM RecTypeCorrect == RecSpec => []RecTypeOK
<1>1. RecTypeInv /\ [RecNext]_allVars => RecTypeInv'
  BY RecTypeStep
<1>2. RecTypeInv => RecTypeOK
  BY DEF RecTypeInv
<1> QED
  BY <1>1, <1>2, RecTypeInit, PTL DEF RecSpec
-----------------------------------------------------------------------------
(***************************************************************************)
(* The records of the state file.                                          *)
(***************************************************************************)
\* The state file holds descriptors of records only, its id counter is above
\* them, and the store agrees with it.
ImageInv ==
    image.saved =>
        /\ \A c \in Ids : c >= image.nextId => image.records.life[c] = "none"
        /\ \A c \in Ids : image.records.life[c] = "none" => image.records.desc[c] = NoDesc
        /\ SavedRecordsKept

\* Store and state file agree after every step, a load included.
LEMMA RecordStep ==
    ASSUME RecTypeInv, IdInv, ImageInv, [RecNext]_allVars \/ Restart
    PROVE  IdInv' /\ ImageInv'
<1>1. TypeInv /\ ImageType /\ Existing \subseteq Ids
  BY DEF RecTypeInv, Existing
<1>2. CASE StoreStep
  <2>1. Next /\ image' = image
    BY ZenonT(60), <1>2 DEF StoreStep, InMemory, Next
  <2>2. /\ IdInv' /\ Existing \subseteq Existing'
        /\ \A c \in Existing : desc'[c] = desc[c] /\ chunks'[c] = chunks[c]
    BY ZenonT(60), <1>1, <2>1, StoreKeepsRecords, RecordsStay
  <2>3. SavedRecordsKept => SavedRecordsKept'
    BY <2>1, <2>2 DEF SavedRecordsKept
  <2>4. ImageInv'
    BY ZenonT(60), <2>1, <2>3 DEF ImageInv
  <2> QED
    BY <2>2, <2>4
<1>3. CASE UNCHANGED vars
  <2>1. UNCHANGED <<nextId, desc, life, chunks, pub>>
    BY ZenonT(60), <1>3 DEF vars
  <2>2. Existing' = Existing /\ Made' = Made
    BY <2>1 DEF Existing, Made
  <2>3. IdInv'
    BY <2>1, <2>2 DEF IdInv
  <2>4. CASE image' = image
    <3>1. SavedRecordsKept => SavedRecordsKept'
      BY ZenonT(60), <2>1, <2>2, <2>4 DEF SavedRecordsKept
    <3> QED
      BY <2>3, <2>4, <3>1 DEF ImageInv
  <2>5. CASE image' = NoImage
    BY ZenonT(60), <2>3, <2>5 DEF ImageInv, NoImage
  <2>6. CASE image' = Snapshot
    <3>1. /\ Snapshot.nextId = nextId /\ Snapshot.records.life = life
          /\ Snapshot.records.chunks = chunks
          /\ Snapshot.records.desc = [c \in Ids |-> IF c \in Existing THEN desc[c] ELSE NoDesc]
      BY ZenonT(60) DEF Snapshot, SavedRecords
    <3>2. \A c \in Ids : c >= image'.nextId => image'.records.life[c] = "none"
      BY ZenonT(60), <2>6, <3>1 DEF IdInv
    <3>3. \A c \in Ids : image'.records.life[c] = "none" => image'.records.desc[c] = NoDesc
      BY ZenonT(60), <2>6, <3>1 DEF Existing
    <3>4. SavedRecordsKept'
      <4> SUFFICES ASSUME NEW c \in Ids, image'.records.life[c] # "none"
                   PROVE  /\ c \in Existing'
                          /\ desc'[c] = image'.records.desc[c]
                          /\ chunks'[c] = image'.records.chunks[c]
        BY DEF SavedRecordsKept
      <4>1. life[c] # "none" /\ c \in Existing
        BY <2>6, <3>1 DEF Existing
      <4> QED
        BY ZenonT(60), <2>1, <2>2, <2>6, <3>1, <4>1
    <3> QED
      BY ZenonT(60), <2>3, <3>2, <3>3, <3>4 DEF ImageInv
  <2> QED
    BY ZenonT(60), <2>4, <2>5, <2>6, <1>3
    DEF RecNext, StoreStep, InMemory, WriteTemp, RemoveOld, Rename, Crash, Restart, NewProcess,
        allVars, recVars
<1>4. CASE Restart
  <2>1. image' = image /\ pub'.step = "idle"
    BY <1>4 DEF Restart, NewProcess, Idle
  <2>2. CASE image.saved
    <3>1. load_state /\ image \in Images
      BY <1>1, <1>4, <2>2 DEF Restart, NewProcess, ImageType, NoImage
    <3>2. /\ nextId' = image.nextId /\ desc' = image.records.desc
          /\ life' = image.records.life /\ chunks' = image.records.chunks
      BY <3>1 DEF load_state
    <3>3. ASSUME NEW c \in Ids, c >= nextId' PROVE c \notin Made' /\ life'[c] = "none"
      <4>1. life'[c] = "none" /\ desc'[c] = NoDesc
        BY <2>2, <3>2, <3>3 DEF ImageInv
      <4>2. NoDesc.family \notin FamilyIds
        BY DEF NoDesc, FamilyIds
      <4> QED
        BY <4>1, <4>2 DEF Made
    <3>4. IdInv'
      BY <2>1, <3>3 DEF IdInv
    <3>5. SavedRecordsKept'
      BY <2>1, <3>2 DEF SavedRecordsKept, Existing
    <3> QED
      BY ZenonT(60), <2>1, <2>2, <3>4, <3>5 DEF ImageInv
  <2>3. CASE ~ image.saved
    <3>1. start_empty
      BY ZenonT(60), <1>4, <2>3 DEF Restart, NewProcess
    <3>2. NoDesc.family \notin FamilyIds
      BY DEF NoDesc, FamilyIds
    <3>3. IdInv'
      BY <2>1, <3>1, <3>2 DEF start_empty, IdInv, Made
    <3> QED
      BY ZenonT(60), <2>1, <2>3, <3>3 DEF ImageInv
  <2> QED
    BY ZenonT(60), <2>2, <2>3
<1> QED
  BY ZenonT(60), <1>2, <1>3, <1>4, CrashRestarts
  DEF RecNext, WriteTemp, RemoveOld, Rename, allVars

\* The ids and the state file at the start.
LEMMA RecordInit == RecInit => IdInv /\ ImageInv
<1> SUFFICES ASSUME RecInit PROVE IdInv /\ ImageInv
  OBVIOUS
<1>1. IdInv /\ image = NoImage
  BY ZenonT(60), IdInit DEF RecInit
<1> QED
  BY <1>1 DEF ImageInv, NoImage

\* The state file never disagrees with the running store about what an id stands
\* for: after any number of crashes, also inside save_state, no id of a record
\* in the file is given to another checkpoint.
THEOREM SavedRecordsSurvive == RecSpec => []SavedRecordsKept
<1>1. RecTypeInv /\ IdInv /\ ImageInv /\ [RecNext]_allVars => IdInv' /\ ImageInv'
  BY RecordStep
<1>2. ImageInv => SavedRecordsKept
  BY DEF ImageInv, SavedRecordsKept
<1>3. RecTypeInv /\ [RecNext]_allVars => RecTypeInv'
  BY RecTypeStep
<1> QED
  BY <1>1, <1>2, <1>3, RecTypeInit, RecordInit, PTL DEF RecSpec

-----------------------------------------------------------------------------
(***************************************************************************)
(* References.                                                             *)
(***************************************************************************)
\* Without a fault the backend answers and has what publish has placed: its
\* read-back cannot fail, and there is no rollback.
CountInv ==
    /\ pub.step = "idle" => pub.data = <<>>
    /\ faults = 0 => /\ available
                     /\ pub.step # "idle" => \A d \in PlacedChunks : disk[d] = "good"
    /\ NoLeakedReferences

\* The calls that change neither a checkpoint's life nor a reference.
OtherCall ==
    \/ create_family
    \/ \E f \in FamilyIds, r \in RetentionClasses, l \in Lineages, n \in ReplicaCounts :
          make_full_descriptor(f, r, l, n)
    \/ \E b \in Boots : set_authority_boot(b)
    \/ \E p \in PolicyIds, f \in FamilyIds, t \in PolicyTerms : set_retention_policy(p, f, t)
    \/ gc_plan \/ reset_authority
    \/ \E c \in Probed : verify_checkpoint(c) \/ restore(c)
    \/ UNCHANGED vars

LEMMA OtherCalls == OtherCall => UNCHANGED <<life, chunks, refs, pub, disk, available>>
BY ZenonT(60) DEF OtherCall, vars, create_family, make_full_descriptor, set_authority_boot,
   set_retention_policy, gc_plan, reset_authority, verify_checkpoint, restore,
   catalogVars, dedupVars, envVars

\* Without a fault no step of the store fails, and what is placed stays.
LEMMA PlacedStep ==
    ASSUME TypeInv, CountInv, [Next]_vars, faults' = 0
    PROVE  /\ faults = 0 /\ available /\ ~ FailWrite /\ ~ FailReadBack
           /\ ~ (\E d \in Digests : Damage(d)) /\ ~ Outage
           /\ available'
           /\ pub'.step # "idle" => \A d \in PlacedChunks' : disk'[d] = "good"
<1> USE DEF MutexFree
<1>1. /\ faults = 0 /\ available /\ ~ FailWrite
      /\ ~ (\E d \in Digests : Damage(d)) /\ ~ Outage
      /\ pub.step # "idle" => \A d \in PlacedChunks : disk[d] = "good"
  BY ZenonT(60), NoFaultNow DEF CountInv
<1>2. /\ disk \in [Digests -> {"absent", "good", "bad"}] /\ pub \in Publishing
      /\ pub.step \in {"lookup", "write"} => Chunk \in Digests
  BY DEF TypeInv, TypeOK, PublishInRange, Publishing, Streams, Chunk
<1>3. ~ FailReadBack
  <2>1. ASSUME pub.step = "verify", NEW i \in DOMAIN pub.data PROVE disk[pub.data[i]] = "good"
    <3>1. pub.data[i] \in PlacedChunks
      BY <2>1 DEF PlacedChunks
    <3> QED
      BY <1>1, <2>1, <3>1
  <2> QED
    BY <1>1, <2>1 DEF FailReadBack, ReadBackOk
<1> DEFINE Placed == available /\ (pub.step # "idle" => \A d \in PlacedChunks : disk[d] = "good")
<1> SUFFICES Placed'
  BY <1>1, <1>3
<1>4. CASE \E c \in Ids, data \in Contents : publish(c, data)
  <2>1. PICK c \in Ids, data \in Contents : publish(c, data)
    BY <1>4
  <2>2. data \in Seq(Digests)
    BY StoreAssumption
  <2>3. PlacedChunks' = {} /\ available' = available
    BY <2>1, <2>2 DEF publish, PlacedChunks, envVars
  <2> QED
    BY <1>1, <2>3
<1>5. CASE ReuseChunk
  <2>1. /\ pub.step = "lookup" /\ pub'.data = pub.data /\ pub'.step = AfterChunk
        /\ pub'.at = pub.at + 1 /\ UNCHANGED <<disk, available>> /\ disk[Chunk] = "good"
    BY ZenonT(60), <1>2, <1>5 DEF ReuseChunk, Publishing, Verified, envVars
  <2> QED
    BY <1>1, <2>1, OneMorePlaced
<1>6. CASE MissChunk
  <2>1. /\ pub.step = "lookup" /\ pub'.data = pub.data /\ pub'.step = "write"
        /\ pub'.at = pub.at /\ UNCHANGED <<disk, available>>
    BY <1>2, <1>6 DEF MissChunk, Publishing, envVars
  <2>2. PlacedChunks' = PlacedChunks
    BY ZenonT(60), <2>1 DEF PlacedChunks
  <2> QED
    BY <1>1, <2>1, <2>2
<1>7. CASE WriteChunk
  <2>1. /\ pub.step = "write" /\ pub'.data = pub.data /\ pub'.step = AfterChunk
        /\ pub'.at = pub.at + 1 /\ available' = available
        /\ disk' = [disk EXCEPT ![Chunk] = "good"]
    BY ZenonT(60), <1>2, <1>7 DEF WriteChunk, Publishing, Put
  <2>2. \A d \in PlacedChunks \cup {Chunk} : disk'[d] = "good"
    BY <1>1, <1>2, <2>1
  <2> QED
    BY ZenonT(60), <1>1, <2>1, <2>2, OneMorePlaced
<1>8. CASE Commit
  BY <1>1, <1>8 DEF Commit, Idle, envVars
<1>9. CASE gc_run \/ \E c \in Ids : retire(c)
  <2>1. pub.step = "idle" /\ pub' = pub /\ available' = available
    BY ZenonT(60), <1>9 DEF gc_run, retire, envVars
  <2> QED
    BY ZenonT(60), <1>1, <2>1
<1>10. CASE UNCHANGED <<pub, disk, available>>
  BY <1>1, <1>10 DEF PlacedChunks
<1>11. CASE Return
  BY <1>1, <1>11 DEF Return
<1> HIDE DEF Placed
<1> QED
  BY ZenonT(60), <1>1, <1>3, <1>4, <1>5, <1>6, <1>7, <1>8, <1>9, <1>10, <1>11, OtherCalls
  DEF Next, Environment, OtherCall

\* A step of the store takes no reference that nothing holds.
LEMMA CountStep ==
    ASSUME TypeInv, IdInv, CountInv, [Next]_vars
    PROVE  CountInv'
<1> USE DEF MutexFree
<1>1. /\ TypeOK /\ (pub.step = "idle" => pub.data = <<>>) /\ pub \in Publishing
      /\ Live \in SUBSET Ids /\ refs \in [Digests -> Nat]
  BY ZenonT(60) DEF TypeInv, TypeOK, CountInv, Live
<1>2. pub'.step = "idle" => pub'.data = <<>>
  BY ZenonT(60), <1>1, IdleHasNoData
<1> DEFINE AtMost(d) == refs[d] <= Cardinality(References(Live, d)) + Cardinality(InFlight(d))
<1> SUFFICES ASSUME faults' = 0, NEW d \in Digests PROVE AtMost(d)'
  BY ZenonT(60), <1>2, PlacedStep DEF CountInv, NoLeakedReferences
<1>3. /\ faults = 0 /\ ~ FailWrite /\ ~ FailReadBack /\ AtMost(d)
      /\ ~ (\E x \in Digests : Damage(x)) /\ ~ Outage
  BY ZenonT(60), PlacedStep DEF CountInv, NoLeakedReferences
<1>4. Cardinality(InFlight(d)) \in Nat /\ Cardinality(References(Live, d)) \in Nat
  BY ZenonT(60), <1>1, InFlightFinite, ReferencesFinite
<1>5. ASSUME UNCHANGED <<life, chunks>> PROVE References(Live, d)' = References(Live, d)
  BY <1>5 DEF References, Live
<1>6. CASE UNCHANGED <<life, chunks, refs, pub>>
  <2>1. References(Live, d)' = References(Live, d) /\ InFlight(d)' = InFlight(d)
    BY ZenonT(60), <1>5, <1>6 DEF InFlight
  <2> QED
    BY ZenonT(60), <1>3, <1>6, <2>1
<1>7. CASE \E c \in Ids, data \in Contents : publish(c, data)
  <2>1. PICK c \in Ids, data \in Contents : publish(c, data)
    BY ZenonT(60), <1>7
  <2>2. pub.step = "idle" /\ pub.data = <<>> /\ UNCHANGED <<life, chunks, refs>>
        /\ pub'.data = data /\ pub'.at = 1 /\ (data = <<>> \/ pub'.step = "lookup")
    BY <1>1, <2>1 DEF publish, catalogVars, dedupVars
  <2>3. data \in Seq(Digests)
    BY StoreAssumption
  <2>4. InFlight(d) = {} /\ InFlight(d)' = {}
    BY <2>2, <2>3 DEF InFlight
  <2> QED
    BY <1>3, <1>5, <2>2, <2>4
<1>8. CASE MissChunk
  <2>1. /\ pub'.data = pub.data /\ pub.step = "lookup" /\ pub'.step = "write"
        /\ pub'.at = pub.at /\ UNCHANGED <<life, chunks, refs>>
    BY ZenonT(60), <1>1, <1>8 DEF MissChunk, Publishing, catalogVars, dedupVars
  <2>2. InFlight(d)' = InFlight(d)
    BY <2>1 DEF InFlight
  <2> QED
    BY ZenonT(60), <1>3, <1>5, <2>1, <2>2
<1>9. CASE ReuseChunk \/ WriteChunk
  <2>1. /\ pub.step \in {"lookup", "write"} /\ pub'.data = pub.data
        /\ pub'.step = AfterChunk /\ pub'.at = pub.at + 1 /\ UNCHANGED <<life, chunks>>
    <3>1. CASE ReuseChunk
      BY <1>1, <3>1 DEF ReuseChunk, Publishing, catalogVars
    <3>2. CASE WriteChunk
      BY ZenonT(60), <1>1, <3>2 DEF WriteChunk, Publishing, catalogVars
    <3> QED
      BY ZenonT(60), <1>9, <3>1, <3>2
  <2>2. Cardinality(InFlight(d)') =
           IF d = Chunk THEN Cardinality(InFlight(d)) + 1 ELSE Cardinality(InFlight(d))
    BY <2>1, OneMoreInFlight
  <2>3. refs' = [refs EXCEPT ![Chunk] = @ + 1] \/ refs' = refs
        \/ (refs' = [refs EXCEPT ![Chunk] = 1])
    BY <1>9 DEF ReuseChunk, WriteChunk, add_reference, insert
  <2>4. /\ refs[d] \in Nat /\ refs'[d] \in Nat
        /\ d # Chunk => refs'[d] = refs[d]
        /\ d = Chunk => refs'[d] \in {refs[d], refs[d] + 1, 1}
    BY <1>1, <2>3
  <2>5. References(Live, d)' = References(Live, d)
    BY ZenonT(60), <1>5, <2>1
  <2>6. CASE d = Chunk
    BY <1>3, <1>4, <2>2, <2>4, <2>5, <2>6
  <2>7. CASE d # Chunk
    BY ZenonT(60), <1>3, <1>4, <2>2, <2>4, <2>5, <2>7
  <2> QED
    BY <2>6, <2>7
<1>10. CASE Commit
  <2>1. pub.id \in Ids \ Existing /\ refs' = refs
    BY ZenonT(60), <1>10 DEF Commit, IdInv, TypeInv, PublishInRange, Made
  <2>2. /\ Cardinality(References(Live, d)') =
              Cardinality(References(Live, d)) + Cardinality(InFlight(d))
        /\ InFlight(d)' = {}
    BY ZenonT(60), <1>1, <1>10, <2>1, CommitKeepsCount
  <2>3. Cardinality(InFlight(d)') = 0
    BY <2>2, FS_EmptySet
  <2> QED
    BY <1>3, <1>4, <2>1, <2>2, <2>3
<1>11. CASE \E c \in Ids : retire(c)
  <2>1. Live' = Live /\ UNCHANGED <<chunks, refs, pub>>
    BY <1>1, <1>11 DEF retire, Live, TypeOK, dedupVars
  <2>2. References(Live, d)' = References(Live, d) /\ InFlight(d)' = InFlight(d)
    BY <2>1 DEF References, InFlight
  <2> QED
    BY ZenonT(60), <1>3, <2>1, <2>2
<1>12. CASE gc_run
  <2>1. InFlight(d) = {} /\ InFlight(d)' = {}
    BY <1>1, <1>12 DEF gc_run, InFlight
  <2>2. Cardinality({}) = 0
    BY FS_EmptySet
  <2>3. refs[d] <= Cardinality(References(Live, d))
    BY <1>3, <1>4, <2>1, <2>2
  <2>4. refs'[d] <= Cardinality(References(Live, d)')
    BY <1>1, <1>12, <2>3, SweepKeepsCount
  <2>5. PICK S \in SUBSET Ids : S = Live'
    BY ZenonT(60) DEF Live
  <2>6. References(Live, d)' = References(S, d)
    BY <1>12, <2>5 DEF gc_run, References
  <2>7. Cardinality(References(Live, d)') \in Nat
    BY <2>5, <2>6, ReferencesFinite
  <2> QED
    BY <2>1, <2>2, <2>4, <2>7
<1>13. CASE Return
  BY <1>6, <1>13 DEF Return, catalogVars, dedupVars
<1> HIDE DEF AtMost
<1> QED
  BY ZenonT(60), <1>3, <1>6, <1>7, <1>8, <1>9, <1>10, <1>11, <1>12, <1>13, OtherCalls
  DEF Next, Environment, OtherCall

\* The references that the live checkpoints of the state file hold on d.
SavedReferences(d) ==
    LET saved == image.records
    IN  {r \in {c \in Ids : saved.life[c] \in {"committed", "retired"}} \X (1..MaxChunks) :
            r[2] \in DOMAIN saved.chunks[r[1]] /\ saved.chunks[r[1]][r[2]] = d}

\* The state file's refcounts are not above what its checkpoints hold.
SavedCountInv ==
    faults = 0 /\ image.saved =>
        \A d \in Digests : image.dedup.refs[d] <= Cardinality(SavedReferences(d))

LEMMA RecCountStep ==
    ASSUME RecTypeInv, IdInv, CountInv, SavedCountInv, [RecNext]_allVars \/ Restart
    PROVE  CountInv' /\ SavedCountInv'
<1>1. /\ TypeInv /\ TypeOK /\ (saving # "no" => pub.step = "idle")
      /\ Live \in SUBSET Ids
  BY DEF RecTypeInv, RecTypeOK, MutexFree, TypeInv, Live
<1>2. ASSUME [Next]_vars PROVE CountInv'
  BY ZenonT(60), <1>1, <1>2, CountStep
<1>3. ASSUME image' = image, faults' = 0 => faults = 0 PROVE SavedCountInv'
  BY <1>3 DEF SavedCountInv, SavedReferences
<1>4. CASE StoreStep
  <2>1. Next /\ image' = image
    BY <1>4 DEF StoreStep, InMemory, Next
  <2>2. faults' = 0 => faults = 0
    BY ZenonT(60), <1>1, <2>1, NoFaultNow
  <2> QED
    BY ZenonT(60), <1>2, <1>3, <2>1, <2>2
<1>5. CASE WriteTemp \/ UNCHANGED allVars
  BY <1>2, <1>3, <1>5 DEF WriteTemp, allVars, vars, recVars, envVars
<1>6. CASE RemoveOld
  <2>1. UNCHANGED vars /\ image' \in {NoImage, image} /\ faults' = faults
    BY ZenonT(60), <1>6 DEF RemoveOld, vars, envVars
  <2>2. CASE image' = NoImage
    BY ZenonT(60), <1>2, <2>1, <2>2 DEF NoImage, SavedCountInv
  <2> QED
    BY ZenonT(60), <1>2, <1>3, <2>1, <2>2
<1>7. CASE Rename
  <2>1. /\ UNCHANGED vars /\ image' \in {Snapshot, image} /\ faults' = faults
        /\ pub.step = "idle" /\ pub.data = <<>>
    BY ZenonT(60), <1>1, <1>7 DEF Rename, vars, envVars, CountInv
  <2>2. ASSUME image' = Snapshot, faults = 0, NEW d \in Digests
        PROVE  image'.dedup.refs[d] <= Cardinality(SavedReferences(d)')
    <3>1. /\ image'.records.life = life /\ image'.records.chunks = chunks
          /\ image'.dedup.refs = refs
      BY ZenonT(60), <2>2 DEF Snapshot, SavedRecords, SavedBlobs
    <3>2. SavedReferences(d)' = References(Live, d)
      BY <3>1 DEF SavedReferences, References, Live
    <3>3. Cardinality(InFlight(d)) = 0
      <4>1. InFlight(d) = {}
        BY <2>1 DEF InFlight
      <4> QED
        BY <4>1, FS_EmptySet
    <3>4. Cardinality(References(Live, d)) \in Nat
      BY ZenonT(60), <1>1, ReferencesFinite
    <3>5. refs[d] <= Cardinality(References(Live, d)) + Cardinality(InFlight(d))
      BY ZenonT(60), <2>2 DEF CountInv, NoLeakedReferences
    <3> QED
      BY <3>1, <3>2, <3>3, <3>4, <3>5
  <2>3. CASE image' = Snapshot
    BY <1>2, <2>1, <2>2, <2>3 DEF SavedCountInv
  <2> QED
    BY ZenonT(60), <1>2, <1>3, <2>1, <2>3
<1>8. CASE Restart
  <2>1. /\ NewProcess /\ pub' = Idle /\ available' = available /\ faults' = faults
        /\ image' = image
    BY ZenonT(60), <1>8 DEF Restart, NewProcess
  <2>2. pub'.step = "idle" /\ pub'.data = <<>>
    BY ZenonT(60), <2>1 DEF Idle
  <2>3. ASSUME faults = 0, NEW d \in Digests
        PROVE  refs'[d] <= Cardinality(References(Live, d)') + Cardinality(InFlight(d)')
    <3>1. PICK S \in SUBSET Ids : S = Live'
      BY ZenonT(60) DEF Live
    <3>2. Cardinality(InFlight(d)') = 0
      <4>1. InFlight(d)' = {}
        BY <2>2 DEF InFlight
      <4> QED
        BY ZenonT(60), <4>1, FS_EmptySet
    <3>3. CASE image.saved
      <4>1. /\ life' = image.records.life /\ chunks' = image.records.chunks
            /\ refs' = image.dedup.refs
        BY ZenonT(60), <2>1, <3>3 DEF NewProcess, load_state
      <4>2. References(Live, d)' = SavedReferences(d)
        BY ZenonT(60), <4>1 DEF References, SavedReferences, Live
      <4>3. SavedReferences(d) \in SUBSET (Ids \X (1..MaxChunks))
        BY DEF SavedReferences
      <4>4. Cardinality(SavedReferences(d)) \in Nat
        <5>1. IsFiniteSet(Ids) /\ IsFiniteSet(1..MaxChunks)
          BY FS_Interval, StoreAssumption DEF Ids
        <5>2. IsFiniteSet(Ids \X (1..MaxChunks))
          BY ZenonT(60), <5>1, FS_Product
        <5> QED
          BY ZenonT(60), <4>3, <5>2, FS_Subset, FS_CardinalityType
      <4>5. refs'[d] <= Cardinality(SavedReferences(d))
        BY <2>3, <3>3, <4>1 DEF SavedCountInv
      <4> QED
        BY <3>2, <4>2, <4>4, <4>5
    <3>4. CASE ~ image.saved
      <4>1. refs'[d] = 0 /\ Live' = {}
        BY ZenonT(60), <2>1, <3>4 DEF NewProcess, start_empty, Live
      <4>2. References(Live, d)' = {}
        BY ZenonT(60), <4>1 DEF References
      <4>3. Cardinality(References(Live, d)') = 0
        BY ZenonT(60), <4>2, FS_EmptySet
      <4> QED
        BY <3>2, <4>1, <4>3
    <3> QED
      BY <3>3, <3>4
  <2>4. CountInv'
    BY ZenonT(60), <2>1, <2>2, <2>3 DEF CountInv, NoLeakedReferences
  <2> QED
    BY ZenonT(60), <1>3, <2>1, <2>4
<1> QED
  BY ZenonT(60), <1>4, <1>5, <1>6, <1>7, <1>8, CrashRestarts DEF RecNext

LEMMA RecCountInit == RecInit => CountInv /\ SavedCountInv
<1> SUFFICES ASSUME RecInit PROVE CountInv /\ SavedCountInv
  OBVIOUS
<1>1. /\ pub = Idle /\ pub.step = "idle" /\ pub.data = <<>> /\ available /\ Live = {}
      /\ refs = [d \in Digests |-> 0] /\ ~ image.saved
  <2>1. Init /\ available = TRUE /\ refs = [d \in Digests |-> 0] /\ image = NoImage
    BY ZenonT(60) DEF RecInit, Init
  <2> QED
    BY <2>1, StartsEmpty DEF NoImage
<1>2. ASSUME NEW d \in Digests
      PROVE  refs[d] <= Cardinality(References(Live, d)) + Cardinality(InFlight(d))
  <2>1. References(Live, d) = {} /\ InFlight(d) = {} /\ refs[d] = 0
    BY <1>1 DEF References, InFlight
  <2> QED
    BY <2>1, FS_EmptySet
<1> QED
  BY ZenonT(60), <1>1, <1>2 DEF CountInv, NoLeakedReferences, SavedCountInv

\* Without backend faults, no crash at any point of publish, gc_run or
\* save_state, and no load of whatever state file is there, leaves a digest with
\* more references than live checkpoints and the publish under way hold.
THEOREM NoReferenceLeaks == RecSpec => []NoLeakedReferences
<1>1. RecTypeInv /\ [RecNext]_allVars => RecTypeInv'
  BY RecTypeStep
<1>2. RecTypeInv /\ IdInv /\ ImageInv /\ [RecNext]_allVars => IdInv' /\ ImageInv'
  BY RecordStep
<1>3. RecTypeInv /\ IdInv /\ CountInv /\ SavedCountInv /\ [RecNext]_allVars
        => CountInv' /\ SavedCountInv'
  BY RecCountStep
<1>4. CountInv => NoLeakedReferences
  BY ZenonT(60) DEF CountInv
<1> QED
  BY <1>1, <1>2, <1>3, <1>4, RecTypeInit, RecordInit, RecCountInit, PTL DEF RecSpec
-----------------------------------------------------------------------------
(***************************************************************************)
(* The boot of a publish.                                                  *)
(***************************************************************************)
\* A publish stays one of its own boot through saves, crashes and loads: a load
\* brings back no record that the store does not have.
LEMMA RecBootStep ==
    ASSUME RecTypeInv, IdInv, ImageInv, OwnBoot, [RecNext]_allVars \/ Restart
    PROVE  /\ OwnBoot'
           /\ \A c \in Ids : life[c] = "none" /\ life'[c] # "none" => desc[c].boot = boot
<1>1. CASE [Next]_vars
  BY ZenonT(60), <1>1, OwnBootStep DEF RecTypeInv
<1>2. CASE Restart
  <2>1. OwnBoot'
    BY ZenonT(60), <1>2 DEF Restart, NewProcess, Idle, OwnBoot
  <2>2. ASSUME NEW c \in Ids, life'[c] # "none" PROVE life[c] # "none"
    <3>1. CASE image.saved
      <4>1. image.records.life[c] # "none"
        BY ZenonT(60), <1>2, <2>2, <3>1 DEF Restart, NewProcess, load_state
      <4> QED
        BY ZenonT(60), <3>1, <4>1 DEF ImageInv, SavedRecordsKept, Existing
    <3>2. CASE ~ image.saved
      BY ZenonT(60), <1>2, <2>2, <3>2 DEF Restart, NewProcess, start_empty
    <3> QED
      BY ZenonT(60), <3>1, <3>2
  <2> QED
    BY ZenonT(60), <2>1, <2>2
<1> QED
  BY ZenonT(60), <1>1, <1>2, CrashRestarts
  DEF RecNext, StoreStep, Next, WriteTemp, RemoveOld, Rename, allVars

\* Through saves, crashes and loads, a checkpoint is committed only under the
\* boot its descriptor was made under: a restart cannot make an old descriptor
\* pass for one of the new boot.
THEOREM RecoveredCommitsUnderOwnBoot == RecSpec => PublishedUnderOwnBoot
<1> DEFINE Under == \A c \in Ids : life[c] = "none" /\ life'[c] # "none" => desc[c].boot = boot
<1>1. RecInit => OwnBoot
  BY ZenonT(60), StartsEmpty DEF RecInit, OwnBoot
<1>2. RecTypeInv /\ IdInv /\ ImageInv /\ OwnBoot /\ [RecNext]_allVars => OwnBoot' /\ [Under]_vars
  BY RecBootStep
<1>3. RecTypeInv /\ IdInv /\ ImageInv /\ [RecNext]_allVars => RecTypeInv' /\ IdInv' /\ ImageInv'
  BY RecordStep, RecTypeStep
<1> QED
  BY <1>1, <1>2, <1>3, RecTypeInit, RecordInit, PTL DEF RecSpec, PublishedUnderOwnBoot
-----------------------------------------------------------------------------
(***************************************************************************)
(* The refinement of Durable.                                              *)
(***************************************************************************)
\* An entry whose record is not overwritten changes with its life only.
LEMMA EntryStep ==
    ASSUME NEW c \in Ids, life[c] # "none" => desc'[c] = desc[c] /\ chunks'[c] = chunks[c]
    PROVE  /\ Visible[c].life = life[c]
           /\ life[c] = "none" <=> Visible[c] = Dur!NoEntry
           /\ life'[c] = life[c] => Visible'[c] = Visible[c]
           /\ life[c] # "none" /\ life'[c] # "none" =>
                 Visible'[c] = [Visible[c] EXCEPT !.life = life'[c]]
<1>1. /\ Visible[c] = VisibleEntry(desc[c], chunks[c], life[c])
      /\ Visible'[c] = VisibleEntry(desc'[c], chunks'[c], life'[c])
  BY ZenonT(60) DEF Visible, VisibleEntry
<1>2. Visible[c].life = life[c] /\ (life[c] = "none" <=> Visible[c] = Dur!NoEntry)
  <2>1. Dur!NoEntry.life = "none"
    BY ZenonT(60) DEF Dur!NoEntry
  <2>2. CASE life[c] = "none"
    <3>1. Visible[c] = Dur!NoEntry
      BY ZenonT(60), <1>1, <2>2 DEF VisibleEntry, Dur!NoEntry
    <3> QED
      BY ZenonT(60), <2>1, <2>2, <3>1
  <2>3. CASE life[c] # "none"
    <3>1. Visible[c].life = life[c]
      BY <1>1, <2>3 DEF VisibleEntry
    <3> QED
      BY ZenonT(60), <2>1, <2>3, <3>1
  <2> QED
    BY ZenonT(60), <2>2, <2>3
<1>3. life'[c] = life[c] => Visible'[c] = Visible[c]
  BY ZenonT(60), <1>1 DEF VisibleEntry
<1>4. life[c] # "none" /\ life'[c] # "none" =>
         Visible'[c] = [Visible[c] EXCEPT !.life = life'[c]]
  BY <1>1 DEF VisibleEntry
<1> QED
  BY ZenonT(60), <1>2, <1>3, <1>4

\* A step of the store with no save under way publishes one entry, or retires or
\* deletes some, or leaves the catalogue alone.
LEMMA StoreIsDurable ==
    ASSUME TypeInv, IdInv, [Next]_vars, saving = "no", UNCHANGED <<image, saving>>
    PROVE  Dur!DurableNext \/ Visible' = Visible
<1>1. /\ life \in [Ids -> {"none", "committed", "retired", "deleted"}]
      /\ \A c \in Ids : life[c] # "none" => desc'[c] = desc[c] /\ chunks'[c] = chunks[c]
  BY StoreKeepsRecords DEF TypeInv, TypeOK, Existing
<1>2. /\ \A c \in Ids : Visible[c].life = life[c] /\ (life[c] = "none" => Visible[c] = Dur!NoEntry)
      /\ \A c \in Ids : life'[c] = life[c] => Visible'[c] = Visible[c]
      /\ \A c \in Ids : life[c] # "none" /\ life'[c] # "none" =>
                           Visible'[c] = [Visible[c] EXCEPT !.life = life'[c]]
  BY ZenonT(60), <1>1, EntryStep
<1>3. Visible' = [c \in Ids |-> Visible'[c]] /\ Visible = [c \in Ids |-> Visible[c]]
  BY ZenonT(60) DEF Visible
<1>4. VisibleFile' = VisibleFile /\ ~ (saving # "no") /\ ((saving' # "no") = (saving # "no"))
  BY DEF VisibleFile
\* The entries of S go from one stage to the next.
<1>5. ASSUME NEW S \in SUBSET Ids, NEW from, NEW to, "none" \notin from, to # "none",
             \A c \in S : life[c] \in from,
             life' = [c \in Ids |-> IF c \in S THEN to ELSE life[c]]
      PROVE  Dur!Change(S, from, to)
  <2>1. \A c \in S : Visible'[c] = [Visible[c] EXCEPT !.life = to]
    <3> SUFFICES ASSUME NEW c \in S PROVE Visible'[c] = [Visible[c] EXCEPT !.life = to]
      OBVIOUS
    <3>1. c \in Ids /\ life[c] # "none" /\ life'[c] = to
      BY <1>5
    <3> QED
      BY <1>2, <1>5, <3>1
  <2>2. \A c \in Ids : c \notin S => Visible'[c] = Visible[c]
    BY <1>2, <1>5
  <2>3. Visible' = [c \in Ids |-> IF c \in S THEN [Visible[c] EXCEPT !.life = to] ELSE Visible[c]]
    BY ZenonT(60), <1>3, <2>1, <2>2
  <2>4. \A c \in S : Visible[c].life \in from
    BY <1>2, <1>5
  <2> QED
    BY ZenonT(60), <1>4, <2>3, <2>4 DEF Dur!Change
<1>6. CASE life' = life
  <2>1. \A c \in Ids : Visible'[c] = Visible[c]
    BY <1>2, <1>6
  <2> QED
    BY ZenonT(60), <1>3, <2>1
<1>7. CASE Commit /\ life' = [life EXCEPT ![pub.id] = "committed"] /\ pub.id \in Ids
  <2>1. life[pub.id] = "none" /\ life'[pub.id] = "committed"
    BY <1>1, <1>7 DEF IdInv, Commit, Existing
  <2>2. \A c \in Ids : c # pub.id => Visible'[c] = Visible[c]
    BY <1>1, <1>2, <1>7
  <2>3. Visible' = [Visible EXCEPT ![pub.id] = Visible'[pub.id]]
    <3>1. [Visible EXCEPT ![pub.id] = Visible'[pub.id]]
            = [c \in Ids |-> IF c = pub.id THEN Visible'[pub.id] ELSE Visible[c]]
      BY ZenonT(60) DEF Visible
    <3> QED
      BY ZenonT(60), <1>3, <2>2, <3>1
  <2>4. Visible[pub.id] = Dur!NoEntry /\ Visible'[pub.id].life = "committed"
    BY <1>2, <1>7, <2>1 DEF Visible, VisibleEntry
  <2>5. Dur!Publish(pub.id)
    BY ZenonT(60), <1>4, <2>3, <2>4 DEF Dur!Publish
  <2> QED
    BY ZenonT(60), <1>7, <2>5 DEF Dur!DurableNext
<1>8. CASE \E c \in Ids : retire(c) /\ life' = [life EXCEPT ![c] = "retired"]
  <2>1. PICK c \in Ids : life[c] = "committed" /\ life' = [life EXCEPT ![c] = "retired"]
    BY ZenonT(60), <1>8 DEF retire
  <2>2. [life EXCEPT ![c] = "retired"] = [x \in Ids |-> IF x \in {c} THEN "retired" ELSE life[x]]
    BY ZenonT(60), <1>1
  <2>3. {c} \in SUBSET Ids /\ (\A x \in {c} : life[x] \in {"committed"}) /\ "none" \notin {"committed"}
    BY <2>1
  <2>4. Dur!Change({c}, {"committed"}, "retired")
    BY ZenonT(60), <1>5, <2>1, <2>2, <2>3
  <2> QED
    BY ZenonT(60), <2>3, <2>4 DEF Dur!DurableNext
<1>9. CASE \E S \in SUBSET Live : life' = [c \in Ids |-> IF c \in S THEN "deleted" ELSE life[c]]
  <2>1. PICK S \in SUBSET Live : life' = [c \in Ids |-> IF c \in S THEN "deleted" ELSE life[c]]
    BY <1>9
  <2>2. S \in SUBSET Ids /\ \A c \in S : life[c] \in {"committed", "retired"}
    BY DEF Live
  <2>3. Dur!Change(S, {"committed", "retired"}, "deleted")
    BY <1>5, <2>1, <2>2
  <2> QED
    BY ZenonT(60), <2>2, <2>3 DEF Dur!DurableNext
<1> QED
  BY ZenonT(60), <1>6, <1>7, <1>8, <1>9, LifeStep

\* What save_state writes is what clients see.
LEMMA SnapshotIsVisible ==
    ASSUME image' = Snapshot
    PROVE  VisibleFile' = [saved |-> TRUE, entries |-> Visible]
<1>1. /\ image'.saved /\ image'.records.life = life /\ image'.records.chunks = chunks
      /\ \A c \in Ids : life[c] # "none" => image'.records.desc[c] = desc[c]
  BY ZenonT(60) DEF Snapshot, SavedRecords, Existing
<1>2. ASSUME NEW c \in Ids
      PROVE  VisibleEntry(image'.records.desc[c], image'.records.chunks[c], image'.records.life[c])
               = Visible[c]
  BY <1>1 DEF Visible, VisibleEntry
<1>3. Visible = [c \in Ids |-> Visible[c]]
  BY ZenonT(60) DEF Visible
<1>4. [c \in Ids |-> VisibleEntry(image'.records.desc[c], image'.records.chunks[c],
                                  image'.records.life[c])] = Visible
  BY ZenonT(60), <1>2, <1>3
<1> QED
  BY ZenonT(60), <1>1, <1>4 DEF VisibleFile

\* A new process has what the state file has.
LEMMA RestartIsDurable ==
    ASSUME Restart
    PROVE  Dur!Restart
<1>1. image' = image /\ saving' = "no" /\ (IF image.saved THEN load_state ELSE start_empty)
  BY DEF Restart, NewProcess
<1>2. VisibleFile' = VisibleFile
  BY <1>1 DEF VisibleFile
<1>3. CASE image.saved
  <2>1. VisibleFile.saved /\ Visible' = VisibleFile.entries
    BY ZenonT(60), <1>1, <1>3 DEF load_state, Visible, VisibleFile
  <2> QED
    BY ZenonT(60), <1>1, <1>2, <2>1 DEF Dur!Restart
<1>4. CASE ~ image.saved
  <2>1. ~ VisibleFile.saved
    BY <1>4 DEF VisibleFile, NoImage
  <2>2. \A c \in Ids : life'[c] = "none"
    BY ZenonT(60), <1>1, <1>4 DEF start_empty
  <2>3. Visible' = Dur!Empty
    BY <2>2 DEF Visible, VisibleEntry, Dur!Empty, Dur!NoEntry
  <2> QED
    BY ZenonT(60), <1>1, <1>2, <2>1, <2>3 DEF Dur!Restart
<1> QED
  BY <1>3, <1>4

\* Every step of the store, of save_state and every end of a process is a step
\* of Durable, or changes nothing that clients see.
LEMMA DurableStep ==
    ASSUME RecTypeInv, IdInv, [RecNext]_allVars \/ Restart
    PROVE  Dur!DurableNext \/ UNCHANGED <<Visible, VisibleFile, saving # "no">>
<1>0. TypeInv /\ saving \in {"no", "temp", "removed"}
  BY DEF RecTypeInv, RecTypeOK
<1>1. ASSUME UNCHANGED image PROVE VisibleFile' = VisibleFile
  BY <1>1 DEF VisibleFile
<1>2. ASSUME UNCHANGED vars PROVE Visible' = Visible
  BY <1>2 DEF vars, Visible
<1>3. CASE StoreStep
  <2>1. UNCHANGED <<image, saving>>
    BY <1>3 DEF StoreStep, InMemory
  <2>2. CASE saving = "no"
    BY <1>0, <1>1, <1>3, <2>1, <2>2, StoreIsDurable DEF StoreStep
  <2>3. CASE saving # "no"
    <3>1. UNCHANGED <<desc, life, chunks>>
      BY ZenonT(60), <1>3, <2>3 DEF StoreStep, Environment, Damage, Outage, Return, catalogVars
    <3>2. Visible' = Visible
      BY <3>1 DEF Visible
    <3> QED
      BY ZenonT(60), <1>1, <2>1, <3>2
  <2> QED
    BY <2>2, <2>3
<1>4. CASE WriteTemp
  <2>1. Dur!BeginSave
    BY <1>1, <1>2, <1>4 DEF WriteTemp, Dur!BeginSave
  <2> QED
    BY <2>1 DEF Dur!DurableNext
<1>5. CASE RemoveOld
  <2>1. saving # "no" /\ saving' # "no" /\ Visible' = Visible /\ image' \in {NoImage, image}
    BY ZenonT(60), <1>2, <1>5 DEF RemoveOld
  <2>2. image' = NoImage => VisibleFile' = Dur!NoFile
    BY DEF VisibleFile, NoImage, Dur!NoFile
  <2>3. image' = NoImage => Dur!DropOld
    BY <2>1, <2>2 DEF Dur!DropOld
  <2> QED
    BY <1>1, <2>1, <2>3 DEF Dur!DurableNext
<1>6. CASE Rename
  <2>1. saving # "no" /\ saving' = "no" /\ Visible' = Visible /\ image' \in {Snapshot, image}
    BY <1>2, <1>6 DEF Rename
  <2>2. VisibleFile' \in {VisibleFile, [saved |-> TRUE, entries |-> Visible]}
    BY <1>1, <2>1, SnapshotIsVisible
  <2>3. Dur!EndSave
    BY <2>1, <2>2 DEF Dur!EndSave
  <2> QED
    BY <2>3 DEF Dur!DurableNext
<1>7. CASE Restart
  BY <1>7, RestartIsDurable DEF Dur!DurableNext
<1>8. CASE UNCHANGED allVars
  <2>1. UNCHANGED <<vars, image, saving>>
    BY <1>8 DEF allVars, recVars
  <2> QED
    BY <1>1, <1>2, <2>1
<1> QED
  BY <1>3, <1>4, <1>5, <1>6, <1>7, <1>8, CrashRestarts DEF RecNext

\* The start.
LEMMA DurableStart == RecInit => Dur!DurableInit
<1> SUFFICES ASSUME RecInit PROVE Dur!DurableInit
  OBVIOUS
<1>0. image = NoImage /\ saving = "no" /\ life = [c \in Ids |-> "none"]
  BY ZenonT(60) DEF RecInit, Init
<1>1. image = NoImage /\ saving = "no" /\ \A c \in Ids : life[c] = "none"
  BY ZenonT(60), <1>0
<1>2. Visible = Dur!Empty
  BY ZenonT(60), <1>1 DEF Visible, VisibleEntry, Dur!Empty, Dur!NoEntry
<1>3. VisibleFile = Dur!NoFile
  BY <1>1 DEF VisibleFile, NoImage, Dur!NoFile
<1> QED
  BY <1>1, <1>2, <1>3 DEF Dur!DurableInit

\* The store and its state file implement Durable: publish, gc_run and save_state,
\* step by step and with a crash between any two steps, appear to clients as
\* whole changes of one catalogue, of which a restart brings back a saved copy.
THEOREM StoreIsDurableAcrossRestarts == RecSpec => ImplementsDurable
<1>1. RecTypeInv /\ IdInv /\ [RecNext]_allVars
        => [Dur!DurableNext]_<<Visible, VisibleFile, saving # "no">>
  BY DurableStep
<1>2. RecTypeInv /\ IdInv /\ ImageInv /\ [RecNext]_allVars => RecTypeInv' /\ IdInv' /\ ImageInv'
  BY RecordStep, RecTypeStep
<1> QED
  BY <1>1, <1>2, DurableStart, RecTypeInit, RecordInit, PTL
  DEF RecSpec, ImplementsDurable, Dur!DurableSpec
=============================================================================
