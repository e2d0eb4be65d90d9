--------------------------- MODULE CommandProofs ----------------------------
(***************************************************************************)
(* What the commands of module Programs leave behind, for every value of   *)
(* the constants: acknowledged checkpoints stay in the state file, and     *)
(* garbage collection leaves no garbage.                                   *)
(***************************************************************************)
EXTENDS ProgramsProofs, LossProofs

\* The provers for a leaf that names none, in the order in which they are tried.
\* tlapm drops an attempt that takes it over 5 seconds to prepare: the next repeats it.
USE SMTT(60), SMTT(61), SMTT(62), SMTT(63), SMTT(64), ZenonT(60), SMTT(65), SMTT(66)

-----------------------------------------------------------------------------
(***************************************************************************)
(* Acknowledgements.                                                       *)
(***************************************************************************)
\* Checkpoint c has a record in the state file.
InFile(c) == image.saved /\ image.records.life[c] # "none"

\* Either the state file has every checkpoint that the tool's store knows, or
\* the command still has a save to make.
FiledInv == prog = "cli" /\ ~ failed => (\A c \in Existing : InFile(c)) \/ Saves(todo)

\* What was acknowledged is known to the running store, and to the state file
\* if there is one.
AckInv ==
    \A a \in acked : /\ a.id \in Existing /\ chunks[a.id] = a.data
                     /\ image.saved => InFile(a.id)

\* Only Commit adds a record, and publish has the mutex then.
LEMMA ExistingKept ==
    ASSUME TypeInv, MutexFree, [Next]_vars
    PROVE  Existing' = Existing
<1>1. life \in [Ids -> {"none", "committed", "retired", "deleted"}]
  BY DEF TypeInv, TypeOK
<1>2. ~ Commit
  BY DEF Commit, MutexFree
<1>3. CASE life' = life
  BY <1>3 DEF Existing
<1>4. CASE \E c \in Ids : retire(c) /\ life' = [life EXCEPT ![c] = "retired"]
  BY <1>1, <1>4 DEF Existing, retire
<1>5. CASE \E S \in SUBSET Live : life' = [c \in Ids |-> IF c \in S THEN "deleted" ELSE life[c]]
  BY <1>1, <1>5 DEF Existing, Live
<1> QED
  BY ZenonT(60), <1>2, <1>3, <1>4, <1>5, LifeStep

\* A new process knows what the state file has, and nothing else.
LEMMA LoadedIsFiled ==
    ASSUME NewProcess
    PROVE  /\ \A c \in Existing' : InFile(c)'
           /\ image' = image
           /\ image.saved => /\ \A c \in Ids : InFile(c) => c \in Existing'
                             /\ chunks' = image.records.chunks
<1>1. CASE image.saved
  BY <1>1 DEF NewProcess, load_state, Existing, InFile
<1>2. CASE ~ image.saved
  BY <1>2 DEF NewProcess, start_empty, Existing
<1> QED
  BY <1>1, <1>2 DEF NewProcess

LEMMA FiledStep ==
    ASSUME ProgTypeInv, FiledInv, [ProgNext]_allProgVars
    PROVE  FiledInv'
<1>0. ScriptInv /\ TypeInv
  BY DEF ProgTypeInv, RecTypeInv
<1>1. ASSUME Existing' = Existing, image' = image, prog' = prog, failed' = failed,
             prog = "cli" /\ Saves(todo) => Saves(todo')
      PROVE  FiledInv'
  BY <1>1 DEF FiledInv, InFile
<1>2. ASSUME prog = "cli" => \A c \in Existing' : InFile(c)', prog' = prog
      PROVE  FiledInv'
  BY <1>2 DEF FiledInv
<1>3. CASE \E cmd \in CliCommands : Command(cmd)
  <2>1. /\ todo = <<>> /\ asked = 0 /\ prog' = prog
        /\ Existing' = Existing /\ image' = image
    BY <1>3 DEF Command, Begin, allVars, vars, catalogVars, recVars, Existing
  <2>2. ~ failed /\ ~ Saves(todo)
    BY <1>0, <2>1 DEF ScriptInv, Saves
  <2> QED
    BY ZenonT(60), <1>2, <2>1, <2>2 DEF FiledInv, InFile
<1>4. CASE \E req \in CoordinatorRequests : Request(req)
  BY <1>4 DEF Request, Begin, FiledInv
<1>5. ASSUME todo # <<>>, Head(todo) # "save", todo' = Tail(todo)
      PROVE  Saves(todo) => Saves(todo')
  BY ZenonT(60), <1>0, <1>5, TailScripted DEF ScriptInv
<1>6. CASE PlainCall
  <2>1. Existing' = Existing /\ image' = image
    BY ZenonT(60), <1>0, <1>6, ExistingKept DEF PlainCall, StoreStep, allVars, Environment, Next
  <2>2. CASE Throws
    BY <2>2 DEF Throws, FiledInv
  <2>3. CASE Returns /\ todo # <<>> /\ Head(todo) # "save"
    BY ZenonT(60), <1>1, <1>5, <2>1, <2>3 DEF Returns
  <2> QED
    BY ZenonT(60), <1>6, <2>2, <2>3 DEF PlainCall
<1>7. CASE Describe
  <2>1. /\ todo # <<>> /\ Head(todo) # "save" /\ todo' = Tail(todo) /\ life' = life
        /\ UNCHANGED <<image, prog, failed>>
    BY ZenonT(60), <1>7 DEF Describe, Call, make_full_descriptor, InMemory
  <2> QED
    BY <1>1, <1>5, <2>1 DEF Existing
<1>8. CASE StartPublish
  <2>1. /\ todo # <<>> /\ Head(todo) = "publish" /\ todo' = <<"publishing">> \o Tail(todo)
        /\ life' = life /\ UNCHANGED <<image, prog, failed>>
    BY <1>8 DEF StartPublish, Call, publish, InMemory, catalogVars
  <2>2. Saves(todo) => Saves(todo')
    BY <1>0, <2>1, PublishingScripted DEF ScriptInv
  <2> QED
    BY ZenonT(60), <1>1, <2>1, <2>2 DEF Existing
<1>9. CASE PublishStep \/ SaveStep
  <2>1. todo # <<>> /\ Head(todo) \in {"publishing", "save"} /\ UNCHANGED progVars
    BY ZenonT(60), <1>9, PublishSteps DEF PublishStep, SaveStep, Call
  <2>2. ~ Single(todo)
    BY ZenonT(60), <1>0, <2>1, TailScripted DEF Single, ScriptInv
  <2>3. prog' = "cli" => Saves(todo')
    BY ZenonT(60), <1>0, <2>1, <2>2 DEF ScriptInv, progVars
  <2> QED
    BY <2>3 DEF FiledInv
<1>10. CASE EndSave
  <2>1. CASE Throws
    BY <2>1 DEF Throws, FiledInv
  <2>2. CASE Returns /\ image' = Snapshot
    <3>1. life' = life /\ prog' = prog
      BY ZenonT(60), <1>10, <2>2 DEF EndSave, Rename, vars, catalogVars, Returns
    <3>2. image'.saved /\ image'.records.life = life
      BY ZenonT(60), <2>2 DEF Snapshot, SavedRecords
    <3> QED
      BY ZenonT(60), <1>2, <3>1, <3>2 DEF Existing, InFile
  <2> QED
    BY ZenonT(60), <1>10, <2>1, <2>2 DEF EndSave
<1>11. CASE Exit \/ Die
  BY <1>11, LoadedIsFiled DEF Exit, Die, Crash, FiledInv
<1>12. CASE Environment /\ InMemory /\ UNCHANGED progVars
  <2>1. life' = life /\ UNCHANGED <<image, prog, failed, todo>>
    BY ZenonT(60), <1>12
    DEF Environment, Damage, Outage, Return, InMemory, progVars, catalogVars
  <2> QED
    BY ZenonT(60), <1>1, <2>1 DEF Existing
<1>13. CASE UNCHANGED allProgVars
  <2>1. life' = life /\ UNCHANGED <<image, prog, failed, todo>>
    BY ZenonT(60), <1>13 DEF allProgVars, allVars, vars, recVars, progVars, catalogVars
  <2> QED
    BY <1>1, <2>1 DEF Existing
<1> QED
  BY ZenonT(60), <1>3, <1>4, <1>6, <1>7, <1>8, <1>9, <1>10, <1>11, <1>12, <1>13, ProgCases

\* What a step that ends no process does to the records.
LEMMA FileGrows ==
    ASSUME RecTypeInv, IdInv, StoreStep \/ WriteTemp \/ RemoveOld \/ Rename \/ UNCHANGED allVars
    PROVE  /\ Existing \subseteq Existing'
           /\ \A c \in Existing : chunks'[c] = chunks[c]
           /\ \A c \in Existing : (image.saved => InFile(c)) => (image'.saved => InFile(c)')
<1>0. TypeInv
  BY DEF RecTypeInv
<1>1. CASE StoreStep \/ WriteTemp \/ UNCHANGED allVars
  <2>1. [Next]_vars /\ image' = image
    BY ZenonT(60), <1>1 DEF StoreStep, WriteTemp, allVars, recVars, InMemory, Next
  <2>2. Existing \subseteq Existing' /\ (\A c \in Existing : chunks'[c] = chunks[c])
    BY ZenonT(60), <1>0, <2>1, RecordsStay, StoreKeepsRecords
  <2> QED
    BY ZenonT(60), <2>1, <2>2 DEF InFile
<1>2. CASE RemoveOld \/ Rename
  <2>1. UNCHANGED <<life, chunks>> /\ image' \in {NoImage, image, Snapshot}
    BY ZenonT(60), <1>2 DEF RemoveOld, Rename, vars, catalogVars
  <2>2. ~ NoImage.saved /\ Snapshot.saved /\ Snapshot.records.life = life
    BY DEF NoImage, Snapshot, SavedRecords
  <2> QED
    BY ZenonT(60), <2>1, <2>2 DEF InFile, Existing
<1> QED
  BY <1>1, <1>2

LEMMA AckStep ==
    ASSUME ProgRecordInv, FiledInv, AckInv, [ProgNext]_allProgVars
    PROVE  AckInv'
<1>0. RecTypeInv /\ IdInv /\ ProgTypeInv /\ Existing \subseteq Ids
  BY DEF ProgRecordInv, ProgTypeInv, Existing
<1>1. ASSUME Exit \/ Die PROVE AckInv'
  <2>1. NewProcess
    BY <1>1 DEF Exit, Die, Crash
  <2>2. ASSUME NEW a \in acked' PROVE
          /\ InFile(a.id) /\ a.id \in Existing /\ chunks[a.id] = a.data
    <3>1. CASE a \in Remembered
      BY <3>1 DEF Remembered, AckInv
    <3>2. CASE a \notin Remembered
      <4>1. /\ prog = "cli" /\ ~ failed /\ target \in Existing /\ todo = <<>>
            /\ a = [id |-> target, data |-> chunks[target]]
        BY ZenonT(60), <1>1, <2>2, <3>2 DEF Exit, Die
      <4>2. \A c \in Existing : InFile(c)
        BY <4>1 DEF FiledInv, Saves
      <4> QED
        BY <4>1, <4>2
    <3> QED
      BY <3>1, <3>2
  <2>3. ASSUME NEW a \in acked'
        PROVE  a.id \in Existing' /\ chunks'[a.id] = a.data /\ InFile(a.id)'
    <3>1. InFile(a.id) /\ a.id \in Existing /\ chunks[a.id] = a.data /\ image.saved
      BY <2>2 DEF InFile
    <3>2. image.records.chunks[a.id] = chunks[a.id]
      BY <1>0, <3>1 DEF ProgRecordInv, ImageInv, SavedRecordsKept, InFile
    <3> QED
      BY ZenonT(60), <1>0, <2>1, <3>1, <3>2, LoadedIsFiled
  <2> QED
    BY <2>3 DEF AckInv
<1>2. ASSUME ~ (Exit \/ Die) PROVE AckInv'
  <2>1. acked' = acked
    BY ZenonT(60), <1>0, <1>2, ProgCases DEF Command, Request, Begin, PlainCall, Returns,
       Throws, Describe, StartPublish, PublishStep, SaveStep, EndSave, progVars, allProgVars
  <2>2. StoreStep \/ WriteTemp \/ RemoveOld \/ Rename \/ UNCHANGED allVars
    <3>1. CASE Describe \/ StartPublish \/ PublishStep
      BY ZenonT(60), <1>0, <3>1, PublishSteps
    <3>2. CASE Environment /\ InMemory /\ UNCHANGED progVars
      BY <3>2 DEF StoreStep, Next
    <3> QED
      BY ZenonT(60), <1>0, <1>2, <3>1, <3>2, ProgCases DEF Command, Request, Begin,
         PlainCall, SaveStep, EndSave, allProgVars
  <2>3. /\ Existing \subseteq Existing'
        /\ \A c \in Existing : chunks'[c] = chunks[c]
        /\ \A c \in Existing : (image.saved => InFile(c)) => (image'.saved => InFile(c)')
    BY ZenonT(60), <1>0, <2>2, FileGrows
  <2> QED
    BY ZenonT(60), <1>0, <2>1, <2>3 DEF AckInv
<1> QED
  BY ZenonT(60), <1>1, <1>2

\* Nothing is acknowledged at the start.
LEMMA AckInit == ProgInit => FiledInv /\ AckInv
BY ZenonT(60) DEF ProgInit, RecInit, Init, FiledInv, AckInv, Existing

\* While there is a state file, it has the record, with the same stream, of
\* every checkpoint that a command which exited with 0 was about, whichever
\* processes ran, failed and died since.
THEOREM AcknowledgedIsKept == ProgSpec => []AcknowledgedKept
<1>1. ProgInit => FiledInv /\ AckInv
  BY AckInit
<1>2. /\ ProgRecordInv /\ FiledInv /\ AckInv /\ [ProgNext]_allProgVars
      => FiledInv' /\ AckInv'
  BY FiledStep, AckStep DEF ProgRecordInv
<1>3. ProgRecordInv /\ AckInv => AcknowledgedKept
  BY ZenonT(60) DEF ProgRecordInv, ImageInv, SavedRecordsKept, AckInv, InFile,
     AcknowledgedKept, Existing
<1> QED
  BY <1>1, <1>2, <1>3, ProgRecordInit, ProgRecordStep, PTL DEF ProgSpec

\* Chunks stay in place through every command and request.
LEMMA ProgLossStep ==
    ASSUME ProgRecordInv, PlaceInv, FileInv, [ProgNext]_allProgVars, ~ ClockMovesInGc
    PROVE  PlaceInv' /\ FileInv'
BY ProgIsRec, LossStep DEF ProgRecordInv, ProgTypeInv

\* Without backend faults, no command, request, exit or crash costs a live
\* checkpoint a chunk unless some gc_run had swept it, if gc_run reads one time.
THEOREM ProgramsLoseOnlyBySweep ==
    ASSUME ~ ClockMovesInGc
    PROVE  ProgSpec => []LossOnlyBySweep
<1>1. ProgInit => PlaceInv /\ FileInv
  BY LossInit DEF ProgInit
<1>2. ProgRecordInv /\ PlaceInv /\ FileInv /\ [ProgNext]_allProgVars => PlaceInv' /\ FileInv'
  BY ProgLossStep
<1>3. PlaceInv => LossOnlyBySweep
  BY DEF PlaceInv, LossOnlyBySweep, InPlace
<1> QED
  BY <1>1, <1>2, <1>3, ProgRecordInit, ProgRecordStep, PTL DEF ProgSpec

\* Whichever process runs can restore what a command acknowledged by exiting with
\* 0, as long as the backend has not failed: the record is there, with the same
\* stream, and the backend has every chunk of it, unless a collection has swept
\* the checkpoint, if gc_run reads one time.
THEOREM AcknowledgedIsRestorable ==
    ASSUME ~ ClockMovesInGc
    PROVE  ProgSpec => []AcknowledgedRestorable
<1>1. ProgInit => PlaceInv /\ FileInv /\ FiledInv /\ AckInv
  BY LossInit, AckInit DEF ProgInit
<1>2. ProgRecordInv /\ PlaceInv /\ FileInv /\ [ProgNext]_allProgVars => PlaceInv' /\ FileInv'
  BY ProgLossStep
<1>3. ProgRecordInv /\ FiledInv /\ AckInv /\ [ProgNext]_allProgVars => FiledInv' /\ AckInv'
  BY FiledStep, AckStep DEF ProgRecordInv
<1>4. PlaceInv /\ AckInv => AcknowledgedRestorable
  BY DEF PlaceInv, AckInv, AcknowledgedRestorable, InPlace
<1> QED
  BY <1>1, <1>2, <1>3, <1>4, ProgRecordInit, ProgRecordStep, PTL DEF ProgSpec

-----------------------------------------------------------------------------
(***************************************************************************)
(* Garbage collection.                                                     *)
(***************************************************************************)
\* The programs' checkpoints and policies are plain: no protection outlives the
\* commitment of a checkpoint, and none depends on the clock.
PlainRecords(descs, lives, durs, policies) ==
    /\ \A c \in Ids : lives[c] # "none" => descs[c].family \in FamilyIds
    /\ \A c \in Ids : /\ descs[c].retention = "keep_latest_n" /\ descs[c].lineage = {}
                      /\ descs[c].replicas <= 1 /\ durs[c] # "under_replicated"
    /\ \A p \in PolicyIds : ~ policies[p].policy_protected

PlainInv ==
    /\ PlainRecords(desc, life, dur, retention)
    /\ image.saved => PlainRecords(image.records.desc, image.records.life, image.records.dur,
                                   image.retention)

\* A step of the store that makes no descriptor, or a plain one, keeps them so.
LEMMA PlainStoreStep ==
    ASSUME TypeInv, PlainRecords(desc, life, dur, retention), [Next]_vars,
           \/ desc' = desc
           \/ \E f \in FamilyIds : make_full_descriptor(f, "keep_latest_n", {}, 1)
    PROVE  PlainRecords(desc', life', dur', retention')
<1>1. /\ desc \in [Ids -> Descriptors]
      /\ life \in [Ids -> {"none", "committed", "retired", "deleted"}]
      /\ dur \in [Ids -> {"healthy", "under_replicated", "degraded"}] /\ nextId \in Nat
      /\ retention \in [PolicyIds -> Policies]
  BY DEF TypeInv, TypeOK
<1>2. \A c \in Ids : /\ desc'[c].retention = "keep_latest_n" /\ desc'[c].lineage = {}
                     /\ desc'[c].replicas <= 1
  <2>1. CASE desc' = desc
    BY ZenonT(60), <2>1 DEF PlainRecords
  <2>2. CASE \E f \in FamilyIds : make_full_descriptor(f, "keep_latest_n", {}, 1)
    BY <1>1, <2>2 DEF make_full_descriptor, PlainRecords
  <2> QED
    BY <2>1, <2>2
<1>3. \A c \in Ids : dur'[c] # "under_replicated"
  <2>1. CASE Commit
    <3>1. pub.id \in Ids
      BY <2>1 DEF Commit, TypeInv, PublishInRange, Made
    <3>2. dur' = [dur EXCEPT ![pub.id] = "healthy"]
      BY ZenonT(60), <2>1, <3>1 DEF Commit, PlainRecords
    <3> QED
      BY ZenonT(60), <1>1, <3>1, <3>2 DEF PlainRecords
  <2>2. CASE \E c \in Probed : restore(c)
    <3>1. PICK c \in Ids : dur' = [dur EXCEPT ![c] = "degraded"] \/ dur' = dur
      BY <2>2, ProgramsAssumption DEF restore
    <3> QED
      BY <1>1, <3>1 DEF PlainRecords
  <2>3. CASE dur' = dur
    BY <2>3 DEF PlainRecords
  <2> QED
    BY ZenonT(60), <2>1, <2>2, <2>3 DEF Next, Environment, vars, create_family,
       make_full_descriptor, set_authority_boot, publish, ReuseChunk, MissChunk, WriteChunk,
       FailWrite, FailReadBack, Rollback, set_retention_policy, gc_plan, gc_run, retire,
       reset_authority, verify_checkpoint, Damage, Outage, Return, catalogVars
<1>4. \A p \in PolicyIds : ~ retention'[p].policy_protected
  <2>1. CASE \E p \in PolicyIds, f \in FamilyIds, t \in PolicyTerms : set_retention_policy(p, f, t)
    <3>1. PICK p \in PolicyIds, f \in FamilyIds, t \in PolicyTerms : set_retention_policy(p, f, t)
      BY <2>1
    <3>2. ~ t.policy_protected
      BY ProgramsAssumption
    <3>3. PICK r : /\ r.policy_protected = t.policy_protected
                   /\ retention' = [retention EXCEPT ![p] = r]
      BY ZenonT(60), <3>1 DEF set_retention_policy
    <3> QED
      BY <1>1, <3>2, <3>3 DEF PlainRecords
  <2>2. CASE retention' = retention
    BY <2>2 DEF PlainRecords
  <2> QED
    BY ZenonT(60), <2>1, <2>2 DEF Next, Environment, vars, create_family,
       make_full_descriptor, set_authority_boot, publish, ReuseChunk, MissChunk, WriteChunk,
       FailWrite, FailReadBack, Rollback, Commit, gc_plan, gc_run, retire, restore,
       reset_authority, verify_checkpoint, Damage, Outage, Return, ctlVars
<1>5. Existing' \subseteq Made'
  <2>0. Existing \subseteq Made
    BY DEF PlainRecords, Existing, Made
  <2>1. \A c \in Made : c \in Made'
    <3>1. CASE desc' = desc
      BY ZenonT(60), <3>1 DEF Made
    <3>2. CASE \E f \in FamilyIds : make_full_descriptor(f, "keep_latest_n", {}, 1)
      BY <1>1, <3>2 DEF make_full_descriptor, Made
    <3> QED
      BY <3>1, <3>2
  <2>2. Existing' \subseteq Existing \cup {pub.id} /\ (pub.id \in Existing' \ Existing => Commit)
    <3>1. CASE Commit /\ life' = [life EXCEPT ![pub.id] = "committed"]
      BY ZenonT(60), <1>1, <3>1 DEF Existing
    <3>2. CASE life' = life
      BY <3>2 DEF Existing
    <3>3. CASE \E c \in Ids : retire(c) /\ life' = [life EXCEPT ![c] = "retired"]
      BY <1>1, <3>3 DEF Existing, retire
    <3>4. CASE \E S \in SUBSET Live :
                  life' = [c \in Ids |-> IF c \in S THEN "deleted" ELSE life[c]]
      BY <1>1, <3>4 DEF Existing, Live
    <3> QED
      BY ZenonT(60), <3>1, <3>2, <3>3, <3>4, LifeStep
  <2>3. Commit => pub.id \in Made
    BY DEF Commit, TypeInv, PublishInRange
  <2> QED
    BY ZenonT(60), <2>0, <2>1, <2>2, <2>3
<1> QED
  BY ZenonT(60), <1>2, <1>3, <1>4, <1>5 DEF PlainRecords, Existing, Made

\* The programs make plain records only, and save and load no others.
LEMMA PlainStep ==
    ASSUME ProgTypeInv, PlainInv, [ProgNext]_allProgVars
    PROVE  PlainInv'
<1>1. /\ TypeInv /\ PlainRecords(desc, life, dur, retention)
      /\ image.saved => PlainRecords(image.records.desc, image.records.life, image.records.dur,
                                     image.retention)
  BY DEF PlainInv, ProgTypeInv, RecTypeInv
<1>2. ASSUME PlainRecords(desc', life', dur', retention'), image' = image
      PROVE  PlainInv'
  BY <1>1, <1>2 DEF PlainInv
<1>3. ASSUME UNCHANGED vars PROVE PlainRecords(desc', life', dur', retention')
  BY <1>1, <1>3 DEF vars, catalogVars, ctlVars
<1>4. CASE \/ \E cmd \in CliCommands : Command(cmd)
           \/ \E req \in CoordinatorRequests : Request(req)
           \/ UNCHANGED allProgVars
  <2>1. UNCHANGED vars /\ image' = image
    BY <1>4 DEF Command, Request, Begin, allProgVars, allVars, recVars
  <2> QED
    BY ZenonT(60), <1>2, <1>3, <2>1
<1>5. ASSUME [Next]_vars, desc' = desc \/ Describe, image' = image
      PROVE  PlainInv'
  <2>1. \/ desc' = desc
        \/ \E f \in FamilyIds : make_full_descriptor(f, "keep_latest_n", {}, 1)
    BY ZenonT(60), <1>5 DEF Describe
  <2> QED
    BY ZenonT(60), <1>1, <1>2, <1>5, <2>1, PlainStoreStep
<1>6. CASE PlainCall
  BY ZenonT(60), <1>5, <1>6 DEF PlainCall, StoreStep, allVars
<1>7. CASE Describe \/ StartPublish \/ PublishStep
  <2>1. [Next]_vars /\ image' = image
    BY <1>7, PublishSteps DEF StoreStep
  <2>2. desc' = desc \/ Describe
    BY ZenonT(60), <1>7 DEF StartPublish, PublishStep, publish, ReuseChunk, MissChunk,
       WriteChunk, FailWrite, FailReadBack, Rollback, Commit, catalogVars
  <2> QED
    BY <1>5, <2>1, <2>2
<1>8. CASE SaveStep \/ EndSave
  <2>1. UNCHANGED vars /\ image' \in {NoImage, Snapshot, image}
    BY <1>8 DEF SaveStep, EndSave, WriteTemp, RemoveOld, Rename
  <2>2. CASE image' = image
    BY ZenonT(60), <1>2, <1>3, <2>1, <2>2
  <2>3. CASE image' = NoImage
    BY ZenonT(60), <1>3, <2>1, <2>3 DEF PlainInv, NoImage
  <2>4. CASE image' = Snapshot
    <3>1. /\ image'.retention = retention /\ image'.records = SavedRecords
          /\ SavedRecords.life = life /\ SavedRecords.dur = dur
          /\ SavedRecords.desc = [c \in Ids |-> IF c \in Existing THEN desc[c] ELSE NoDesc]
      BY ZenonT(60), <2>4 DEF Snapshot, SavedRecords, SavedPolicies
    <3>2. PlainRecords(SavedRecords.desc, life, dur, retention)
      BY <1>1, <3>1 DEF PlainRecords, Existing, NoDesc
    <3> QED
      BY ZenonT(60), <1>3, <2>1, <3>1, <3>2 DEF PlainInv
  <2> QED
    BY ZenonT(60), <2>1, <2>2, <2>3, <2>4
<1>9. CASE Exit \/ Die
  <2>1. NewProcess /\ image' = image
    BY ZenonT(60), <1>9 DEF Exit, Die, Crash, NewProcess
  <2>2. CASE image.saved
    BY ZenonT(60), <1>1, <1>2, <2>1, <2>2 DEF NewProcess, load_state
  <2>3. CASE ~ image.saved
    <3>1. /\ desc' = [c \in Ids |-> NoDesc] /\ life' = [c \in Ids |-> "none"]
          /\ dur' = [c \in Ids |-> "healthy"] /\ retention' = [p \in PolicyIds |-> NoPolicy]
      BY ZenonT(60), <2>1, <2>3 DEF NewProcess, start_empty
    <3>2. PlainRecords(desc', life', dur', retention')
      BY <3>1 DEF PlainRecords, NoDesc, NoPolicy
    <3> QED
      BY ZenonT(60), <1>2, <2>1, <3>2
  <2> QED
    BY ZenonT(60), <2>2, <2>3
<1>10. CASE Environment /\ InMemory /\ UNCHANGED progVars
  <2>1. Next /\ desc' = desc /\ image' = image
    BY ZenonT(60), <1>10 DEF Next, InMemory, Environment, Damage, Outage, Return,
       catalogVars
  <2> QED
    BY ZenonT(60), <1>5, <2>1
<1> QED
  BY ZenonT(60), <1>4, <1>6, <1>7, <1>8, <1>9, <1>10, ProgCases

LEMMA PlainInit == ProgInit => PlainInv
<1> SUFFICES ASSUME ProgInit PROVE PlainInv
  OBVIOUS
<1>1. /\ desc = [c \in Ids |-> NoDesc] /\ life = [c \in Ids |-> "none"]
      /\ dur = [c \in Ids |-> "healthy"] /\ retention = [p \in PolicyIds |-> NoPolicy]
      /\ image = NoImage
  BY ZenonT(60) DEF ProgInit, RecInit, Init
<1> QED
  BY <1>1 DEF PlainInv, PlainRecords, NoDesc, NoPolicy, NoImage

\* Where records are plain, only committed checkpoints are protected, and the
\* clock does not matter.
LEMMA PlainProtected ==
    ASSUME TypeOK, PlainInv, NEW pick \in find_policy
    PROVE  Timed = {} /\ compute_protected(pick, {}) \subseteq Live
<1> DEFINE own == {c \in Existing : is_protected(c, pick, {})}
<1>1. \A c \in Ids : /\ desc[c].retention = "keep_latest_n" /\ desc[c].lineage = {}
                     /\ dur[c] # "under_replicated"
                     /\ life[c] # "none" => desc[c].family \in FamilyIds
  BY ZenonT(60) DEF PlainInv, PlainRecords
<1>2. \A f \in FamilyIds : ~ pick[f].policy_protected
  <2>1. \A f \in FamilyIds : pick[f] \in {NoPolicy} \cup {retention[p] : p \in PolicyIds}
    BY ZenonT(60) DEF find_policy
  <2> QED
    BY <2>1 DEF PlainInv, PlainRecords, NoPolicy
<1>3. own \subseteq Live
  BY ZenonT(60), <1>1, <1>2 DEF is_protected, Existing, Live
<1>4. own \in SUBSET Existing /\ LineageClosed(own)
  BY <1>1 DEF LineageClosed, Existing
<1>5. compute_protected(pick, {}) \subseteq own
  BY <1>4 DEF compute_protected
<1>6. Timed = {}
  BY <1>1 DEF Timed, Live
<1> QED
  BY ZenonT(60), <1>3, <1>5, <1>6

\* With one policy id there is one choice of a policy for each family.
LEMMA OnePick ==
    ASSUME \A p, q \in PolicyIds : p = q, NEW a \in find_policy, NEW b \in find_policy
    PROVE  a = b
<1>1. \A f \in FamilyIds : \A x, y \in PoliciesOf(f) : x = y
  BY DEF PoliciesOf
<1>2. \A f \in FamilyIds : a[f] = b[f]
  BY ZenonT(60), <1>1 DEF find_policy
<1>3. /\ a \in [FamilyIds -> {NoPolicy} \cup {retention[p] : p \in PolicyIds}]
      /\ b \in [FamilyIds -> {NoPolicy} \cup {retention[p] : p \in PolicyIds}]
  BY DEF find_policy
<1> QED
  BY <1>2, <1>3

\* What gc_run is about to go through is what is unreachable now: nothing came
\* between it and the plan.
Planned ==
    \A pick \in find_policy :
        gc.reclaimable = blobs \ compute_reachable(compute_protected(pick, {}))

PlanInv == Call("run") => Planned

\* What is protected and reachable depends on the records alone.
LEMMA ReachedAlike ==
    ASSUME UNCHANGED <<desc, life, dur, chunks, retention>>
    PROVE  /\ find_policy' = find_policy
           /\ \A pick : compute_reachable(compute_protected(pick, {}))'
                         = compute_reachable(compute_protected(pick, {}))
<1>1. find_policy' = find_policy
  BY DEF find_policy, PoliciesOf
<1>2. Existing' = Existing
  BY DEF Existing
<1>3. \A P : LineageClosed(P)' <=> LineageClosed(P)
  BY <1>2 DEF LineageClosed
<1>4. \A c, n : AmongLatest(c, n)' <=> AmongLatest(c, n)
  <2>1. \A c : Newer(c)' = Newer(c)
    BY ZenonT(60), <1>2 DEF Newer
  <2> QED
    BY <2>1 DEF AmongLatest
<1>5. \A c, pick : is_protected(c, pick, {})' <=> is_protected(c, pick, {})
  BY <1>4 DEF is_protected
<1>6. ASSUME NEW pick
      PROVE  compute_protected(pick, {})' = compute_protected(pick, {})
  <2> DEFINE own == {c \in Existing : is_protected(c, pick, {})}
  <2>1. own' = own
    BY ZenonT(60), <1>2, <1>5
  <2> QED
    BY <1>2, <1>3, <2>1 DEF compute_protected
<1>7. \A c : ChunksOf(c)' = ChunksOf(c)
  BY DEF ChunksOf
<1>8. ASSUME NEW pick
      PROVE  compute_reachable(compute_protected(pick, {}))'
               = compute_reachable(compute_protected(pick, {}))
  BY <1>6, <1>7 DEF compute_reachable
<1> QED
  BY ZenonT(60), <1>1, <1>8

LEMMA PlannedKept ==
    ASSUME Planned, UNCHANGED <<desc, life, dur, chunks, retention, gc, blobs>>
    PROVE  Planned'
BY ReachedAlike DEF Planned

LEMMA PlanMade ==
    ASSUME TypeOK, PlainInv, \A p, q \in PolicyIds : p = q, gc_plan
    PROVE  Planned'
<1>1. PICK pick \in find_policy, young \in SUBSET Timed :
         gc' = [phase |-> "marking",
                reclaimable |-> blobs \ compute_reachable(compute_protected(pick, young))]
  BY DEF gc_plan
<1>2. young = {}
  BY PlainProtected
<1>3. \A x \in find_policy :
         gc'.reclaimable = blobs \ compute_reachable(compute_protected(x, {}))
  <2> TAKE x \in find_policy
  <2>1. x = pick
    BY ZenonT(60), OnePick
  <2> QED
    BY ZenonT(60), <1>1, <1>2, <2>1
<1>4. UNCHANGED <<desc, life, dur, chunks, retention, blobs>>
  BY DEF gc_plan, catalogVars, dedupVars
<1> QED
  BY <1>3, <1>4, ReachedAlike DEF Planned

\* While a command plans or collects, that call is the only one that can change
\* the store.
LEMMA GcCalls ==
    ASSUME ProgTypeInv, [ProgNext]_allProgVars, todo # <<>>, Head(todo) \in {"plan", "run"}
    PROVE  \/ Call("plan") /\ gc_plan
           \/ Call("run") /\ gc_run
           \/ Die
           \/ Environment /\ UNCHANGED progVars
           \/ UNCHANGED allProgVars
<1>1. ~ (\E cmd \in CliCommands : Command(cmd))
      /\ ~ (\E req \in CoordinatorRequests : Request(req)) /\ ~ Exit
  BY DEF Command, Request, Begin, Exit
<1>2. MutexFree
  BY ZenonT(60), AtRest DEF ProgTypeInv
<1>3. ~ PublishStep
  BY <1>2 DEF MutexFree, PublishStep, ReuseChunk, MissChunk, WriteChunk, FailWrite,
              FailReadBack, Commit
<1>4. /\ ~ RefusedCall /\ ~ FailedRestore /\ ~ Describe /\ ~ StartPublish /\ ~ EndPublish
      /\ ~ SaveStep /\ ~ EndSave
  BY ZenonT(60) DEF RefusedCall, FailedRestore, Describe, StartPublish, EndPublish,
     SaveStep, EndSave, Call
<1>5. SimpleCall => (Call("plan") /\ gc_plan) \/ (Call("run") /\ gc_run)
  BY ZenonT(60) DEF SimpleCall, Call
<1> QED
  BY ZenonT(60), <1>1, <1>3, <1>4, <1>5 DEF ProgNext, Calls

\* gc_run follows gc_plan at once.
LEMMA BeforeRun ==
    ASSUME ProgTypeInv, [ProgNext]_allProgVars, Call("run")'
    PROVE  \/ gc_plan
           \/ Call("run") /\ (Environment \/ UNCHANGED vars)
<1>0. ScriptInv /\ Scripted(todo)
  BY DEF ProgTypeInv, ScriptInv
<1>1. ASSUME todo # <<>>, todo' = Tail(todo) PROVE Head(todo) = "plan"
  <2>1. <<Head(todo), "run">> \in Follows
    BY ZenonT(60), <1>0, <1>1, TailScripted DEF Call
  <2> QED
    BY <2>1 DEF Follows
<1>2. ASSUME NEW s, Begin(s), Scripted(s), s # <<>>, s[1] \notin {"publish", "publishing", "run"}
      PROVE  FALSE
  BY ZenonT(60), <1>2, TailScripted DEF Begin, Call
<1>3. CASE \/ \E cmd \in CliCommands : Command(cmd)
           \/ \E req \in CoordinatorRequests : Request(req)
  BY ZenonT(60), <1>2, <1>3, CliScripts, RequestScripts DEF Command, Request
<1>4. CASE PlainCall
  <2>1. todo # <<>> /\ todo' = Tail(todo)
    BY ZenonT(60), <1>4 DEF PlainCall, Throws, Returns, Call
  <2>2. Head(todo) = "plan" /\ ~ Die /\ ~ UNCHANGED todo
    <3>1. Head(todo) = "plan"
      BY <1>1, <2>1
    <3>2. ~ Die
      BY DEF Die, Call
    <3> QED
      BY ZenonT(60), <3>1, <3>2 DEF Call
  <2> QED
    BY ZenonT(60), <2>1, <2>2, GcCalls DEF Call, progVars, allProgVars
<1>5. CASE Describe \/ EndSave
  <2>1. /\ todo # <<>> /\ Head(todo) \in {"describe", "describe own", "save"}
        /\ todo' = Tail(todo)
    BY ZenonT(60), <1>5 DEF Describe, EndSave, Throws, Returns, Call
  <2> QED
    BY ZenonT(60), <1>1, <2>1
<1>6. CASE StartPublish
  <2>1. todo # <<>> /\ Head(todo) = "publish" /\ todo' = <<"publishing">> \o Tail(todo)
    BY <1>6 DEF StartPublish, Call
  <2>2. Head(todo') = "publishing"
    BY ZenonT(60), <1>0, <2>1, PublishingScripted
  <2> QED
    BY <2>2 DEF Call
<1>7. CASE PublishStep \/ SaveStep
  BY ZenonT(60), <1>7, PublishSteps DEF PublishStep, SaveStep, progVars, Call
<1>8. CASE Exit \/ Die
  BY <1>8 DEF Exit, Die, Call
<1>9. CASE \/ Environment /\ InMemory /\ UNCHANGED progVars
           \/ UNCHANGED allProgVars
  BY <1>9 DEF progVars, allProgVars, allVars, Call
<1> QED
  BY ZenonT(60), <1>3, <1>4, <1>5, <1>6, <1>7, <1>8, <1>9, ProgCases

LEMMA PlanStep ==
    ASSUME ProgTypeInv, PlainInv, PlanInv, [ProgNext]_allProgVars,
           \A p, q \in PolicyIds : p = q
    PROVE  PlanInv'
<1> SUFFICES ASSUME Call("run")' PROVE Planned'
  BY DEF PlanInv
<1>1. TypeOK
  BY DEF ProgTypeInv, RecTypeInv, RecTypeOK
<1>2. CASE gc_plan
  BY ZenonT(60), <1>1, <1>2, PlanMade
<1>3. CASE Call("run") /\ (Environment \/ UNCHANGED vars)
  <2>1. Planned /\ UNCHANGED <<desc, life, dur, chunks, retention, gc, blobs>>
    BY <1>3 DEF PlanInv, Environment, Damage, Outage, Return, vars, catalogVars,
                dedupVars, ctlVars
  <2> QED
    BY ZenonT(60), <2>1, PlannedKept
<1> QED
  BY ZenonT(60), <1>2, <1>3, BeforeRun

\* A digest with references left is a chunk of a live checkpoint.
Referenced == \A d \in Digests : refs[d] # 0 => d \in compute_reachable(Live)

\* Without a fault and a publish under way, only live checkpoints are counted.
LEMMA CountedIsReferenced == TypeOK /\ CountInv /\ faults = 0 /\ MutexFree => Referenced
<1> SUFFICES ASSUME TypeOK, CountInv, faults = 0, MutexFree, NEW d \in Digests, refs[d] # 0
             PROVE  d \in compute_reachable(Live)
  BY ZenonT(60) DEF Referenced
<1>1. pub.data = <<>> /\ DOMAIN pub.data = {}
  BY DEF CountInv, MutexFree
<1>2. InFlight(d) = {}
  BY <1>1 DEF InFlight
<1>3. Cardinality({}) = 0
  BY ZenonT(60), FS_EmptySet
<1>4. refs[d] <= Cardinality(References(Live, d)) + Cardinality(InFlight(d))
  BY DEF CountInv, NoLeakedReferences
<1>5. refs[d] \in Nat
  BY DEF TypeOK
<1>6. References(Live, d) # {}
  BY <1>2, <1>3, <1>4, <1>5
<1>7. PICK r \in Live \X (1..MaxChunks) :
         r[2] \in DOMAIN chunks[r[1]] /\ chunks[r[1]][r[2]] = d
  BY ZenonT(60), <1>6 DEF References
<1> QED
  BY <1>7 DEF compute_reachable, ChunksOf

\* gc_run keeps a blob record only for what a checkpoint that it leaves reaches,
\* or for what has references left.
LEMMA SweepLeaves ==
    ASSUME TypeOK, PlainInv, Planned, gc_run, NEW d \in blobs'
    PROVE  \/ \E c \in Live : life'[c] = life[c] /\ d \in ChunksOf(c)
           \/ d \in Digests /\ refs'[d] # 0
<1>1. PICK pick \in find_policy, young \in SUBSET Timed, stuck \in SUBSET gc.reclaimable :
         \E later \in SUBSET young :
            Sweep(gc_eligible_checkpoints(pick, young), compute_protected(pick, later), stuck)
  BY DEF gc_run
<1>2. young = {} /\ compute_protected(pick, {}) \subseteq Live
  BY ZenonT(60), PlainProtected
<1>3. PICK retained : retained = compute_protected(pick, {})
  OBVIOUS
<1>4. Sweep(Live \ retained, retained, stuck)
  BY ZenonT(60), <1>1, <1>2, <1>3 DEF gc_eligible_checkpoints
<1>5. gc.reclaimable = blobs \ compute_reachable(retained)
  BY <1>3 DEF Planned
<1>6. /\ life' = [c \in Ids |-> IF c \in Live \ retained THEN "deleted" ELSE life[c]]
      /\ blobs' = blobs \ {x \in gc.reclaimable \cap blobs :
                             x \notin compute_reachable(retained) /\ refs'[x] = 0}
  BY <1>4 DEF Sweep, Reclaimable
<1>7. CASE d \in compute_reachable(retained)
  <2>1. PICK c \in retained : d \in ChunksOf(c)
    BY <1>7 DEF compute_reachable
  <2>2. c \in Live /\ c \in Ids
    BY ZenonT(60), <1>2, <1>3 DEF Live
  <2> QED
    BY <1>6, <2>1, <2>2
<1>8. CASE d \notin compute_reachable(retained)
  BY ZenonT(60), <1>5, <1>6, <1>8 DEF TypeOK
<1> QED
  BY ZenonT(60), <1>7, <1>8

LEMMA SweepLeavesNoGarbage ==
    ASSUME TypeOK, PlainInv, Planned, gc_run, Referenced'
    PROVE  blobs' \subseteq compute_reachable(Live)'
<1>1. chunks' = chunks
  BY ZenonT(60) DEF gc_run
<1>2. ASSUME NEW c \in Live, life'[c] = life[c], NEW d \in ChunksOf(c)
      PROVE  d \in compute_reachable(Live)'
  BY <1>1, <1>2 DEF compute_reachable, ChunksOf, Live
<1>3. \A d \in Digests : refs'[d] # 0 => d \in compute_reachable(Live)'
  BY ZenonT(60) DEF Referenced
<1> QED
  BY ZenonT(60), <1>2, <1>3, SweepLeaves

\* The invariant behind the collection.
CollectInv == ProgRecordInv /\ CountInv /\ SavedCountInv /\ PlainInv /\ PlanInv

LEMMA CollectStep ==
    ASSUME CollectInv, [ProgNext]_allProgVars, \A p, q \in PolicyIds : p = q
    PROVE  CollectInv'
<1>1. ProgRecordInv /\ ProgTypeInv /\ RecTypeInv /\ IdInv
  BY DEF CollectInv, ProgRecordInv, ProgTypeInv
<1>2. ProgRecordInv'
  BY <1>1, ProgRecordStep
<1>3. CountInv' /\ SavedCountInv'
  BY ZenonT(60), <1>1, ProgIsRec, RecCountStep DEF CollectInv
<1>4. PlainInv' /\ PlanInv'
  BY ZenonT(60), <1>1, PlainStep, PlanStep DEF CollectInv
<1> QED
  BY ZenonT(60), <1>2, <1>3, <1>4 DEF CollectInv

LEMMA CollectInit == ProgInit => CollectInv
<1>1. ProgInit => PlanInv
  BY DEF ProgInit, PlanInv, Call
<1> QED
  BY ZenonT(60), <1>1, ProgRecordInit, PlainInit, RecCountInit DEF ProgInit, CollectInv

\* Without backend faults, no exit, crash or load of these programs leaves a digest
\* with more references than live checkpoints and the publish under way hold.
THEOREM ProgramsLeakNoReferences == ProgSpec => []NoLeakedReferences
<1>1. ProgInit => CountInv /\ SavedCountInv
  BY RecCountInit DEF ProgInit
<1>2. ProgRecordInv /\ CountInv /\ SavedCountInv /\ [ProgNext]_allProgVars
        => CountInv' /\ SavedCountInv'
  BY ZenonT(60), ProgIsRec, RecCountStep DEF ProgRecordInv, ProgTypeInv
<1>3. CountInv => NoLeakedReferences
  BY DEF CountInv, NoLeakedReferences
<1> QED
  BY <1>1, <1>2, <1>3, ProgRecordInit, ProgRecordStep, PTL DEF ProgSpec

\* With one policy id, which is what the coordinator uses and the tool's
\* default, a garbage collection that is planned and run by one command leaves a
\* blob record only for chunks of live checkpoints, as long as the backend has
\* not failed: restarts and loads of the state file leak no references.
THEOREM CollectionIsComplete ==
    ASSUME \A p, q \in PolicyIds : p = q
    PROVE  ProgSpec => GcLeavesNoGarbage
<1> DEFINE Complete == Call("run") /\ crashes' = crashes /\ faults' = 0 =>
                         blobs' \subseteq compute_reachable(Live)'
<1>0. (TypeOK /\ CountInv /\ faults = 0 /\ MutexFree)' => Referenced'
  BY CountedIsReferenced, PTL
<1>1. CollectInv /\ [ProgNext]_allProgVars => [Complete]_allProgVars
  <2> SUFFICES ASSUME CollectInv, ProgNext, Call("run"), crashes' = crashes, faults' = 0,
                      ~ UNCHANGED allProgVars
               PROVE  blobs' \subseteq compute_reachable(Live)'
    BY ZenonT(60)
  <2>1. /\ ProgTypeInv /\ TypeOK /\ CountInv /\ PlainInv /\ Planned /\ crashes \in Nat
        /\ faults \in Nat
    BY DEF CollectInv, ProgRecordInv, ProgTypeInv, RecTypeInv, RecTypeOK, PlanInv, TypeOK
  <2>2. CountInv' /\ TypeOK'
    BY CollectStep DEF CollectInv, ProgRecordInv, ProgTypeInv, RecTypeInv, RecTypeOK
  <2>3. ~ Die
    BY <2>1 DEF Die, Crash
  <2>4. ~ Environment
    <3>1. ~ (\E d \in Digests : Damage(d)) /\ ~ Outage /\ (Return => faults = 0 /\ ~ available)
      BY <2>1 DEF Damage, Outage, Return
    <3> QED
      BY ZenonT(60), <2>1, <3>1 DEF Environment, CountInv
  <2>5. gc_run
    BY ZenonT(60), <2>1, <2>3, <2>4, GcCalls DEF Call
  <2>6. Referenced'
    <3>1. MutexFree'
      BY ZenonT(60), <2>5 DEF gc_run, MutexFree
    <3> QED
      BY ZenonT(60), <1>0, <2>2, <3>1
  <2> QED
    BY ZenonT(60), <2>1, <2>5, <2>6, SweepLeavesNoGarbage
<1>2. CollectInv /\ [ProgNext]_allProgVars => CollectInv'
  BY CollectStep
<1> QED
  BY <1>1, <1>2, CollectInit, PTL DEF ProgSpec, GcLeavesNoGarbage
-----------------------------------------------------------------------------
\* No command, request, exit or crash deletes one of the n newest checkpoints of a
\* family while it is committed and every policy of the family keeps n or more,
\* although the processes before may have used a generation twice.
THEOREM ProgramsKeepLatest == ProgSpec => LatestKept
<1> DEFINE Cond(c, n) ==
              /\ life[c] = "committed"
              /\ desc[c].retention = "keep_latest_n"
              /\ n > 1 => PoliciesOf(desc[c].family) # {}
              /\ \A p \in PoliciesOf(desc[c].family) : p.latest_n >= n \/ n = 1
              /\ Cardinality(Newer(c)) < n
           Kept == \A c \in Ids, n \in 1..MaxIds : Cond(c, n) => life'[c] # "deleted"
<1>1. ProgInit => SweptInv
  BY ZenonT(60), SweptInit DEF ProgInit
<1>2. ProgRecordInv /\ SweptInv /\ [ProgNext]_allProgVars => [Kept]_vars
  BY ProgIsRec, RecLatestStep DEF ProgRecordInv, ProgTypeInv
<1>3. ProgRecordInv /\ SweptInv /\ [ProgNext]_allProgVars => SweptInv'
  BY ProgIsRec, SweptStep DEF ProgRecordInv, ProgTypeInv
<1> QED
  BY <1>1, <1>2, <1>3, ProgRecordInit, ProgRecordStep, PTL DEF ProgSpec, LatestKept
=============================================================================
